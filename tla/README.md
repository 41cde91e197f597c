# CumulusCI in TLA+

CumulusCI builds and tests Salesforce projects: it runs *flows* of *tasks* against
*orgs*, moves data in and out of them, makes and installs packages, follows branches and
releases, and keeps a keychain of orgs and services. This directory holds TLA+ modules
that model its core logic, the TLC configurations that check them on small instances, and
theorems TLAPS proves for every instance. Paths below are relative to `src/cumulusci`.

`tlc -config MCVcs.cfg MCVcs` checks a suite (with the community modules);
`tlapm VcsProofs.tla` checks proofs. `PROJECT.json` lists every run, the lines each
definition models, for each property a mutant of the code that breaks it, the hazards,
the findings and the theorems.

## 1. Inventory

Most of CumulusCI is one thread that calls servers. Even so, what it calls goes on by
itself, people and other processes change the same files, orgs and repositories, and a
command may be killed. The components, what each keeps and what is hard about it:

| Component | State | Operations | What is hard | What makes it correct |
|---|---|---|---|---|
| **Worker queues** (`utils/parallel/task_worker_queues`) | directories: inbox, in progress, outbox, failures; the list of workers; a lock | `push`, `tick`, a worker's run, `full` | workers are threads and processes; the controller moves directories without the lock; workers die | no more workers than configured; one owner per directory; each job once at each stage; nothing left when a pipeline looks finished |
| **Snowfakery load** (`tasks/bulkdata/snowfakery*`) | channels of two queues; the size of the next portion; counts read off names of directories | `_loop`: tick, assign portions, report; `finish` | counted while directories move; a stale status; failures to make up for | neither more nor less than the target; success means settled; termination |
| **Flows** (`core/flowrunner.py`) | list of steps, results, callbacks | expansion, `run`, preflight checks | names compared as strings; conditions early or late; exceptions at every depth | what runs is what the configuration means, in order; nothing after a failure |
| **Configuration** (`core/utils.py`, `core/config`) | layers of files | merge, clean-up of steps | what one comparison changes the next one sees | the highest layer decides; a step is a task or a flow |
| **MetaDeploy and preflight** (`tasks/metadeploy.py`) | frozen steps, records of a server, cached check results | publish, retry, check | a request may be answered too late, tasks are run again | each plan once, with all its steps; checks see their project |
| **Dependencies** (`core/dependencies`) | a list replaced pass by pass; what is installed | resolve, flatten, install, repeat | order, duplicates, pins, cycles, failures | each once, after what it needs; a repeat completes |
| **Data loads, mappings, extracts** (`tasks/bulkdata`) | jobs and batches, ids by position, local ids | load, roll back, order, rename, select, extract, delete | rows fail one by one; the org changes between queries | ids and lookups are of the rows they are for; nothing keeps running |
| **Schema cache** (`salesforce_api/org_schema.py`) | one compressed file for all processes | load, refresh, save | parallel requests time out; two processes write, or remove the file the other has seen | what is read is what the org had |
| **Data dictionary** (`tasks/datadictionary.py`) | what each release has of objects and fields | walk the releases, write the rows | releases are listed in any order and in two formats; objects are hidden by one and not by another | a row tells when a thing came, changed and went |
| **Requests to an org** (installation, versions, pushes, Apex) | the request, its status, retries | start, poll, read, try again; the choice of tests from what git tells | lost answers, expired tokens, shared poll variables, recursion after errors | one request at a time; the result is that of the request; what has changed is tested |
| **Edits of metadata and sources** (`tasks/metadata_etl`, `core/source_transforms`, `tasks/metadata`) | retrieved files, a copy of the sources | retrieve, edit, deploy; prepare, revert | order of edits, names quoted or not, tokens; a flow that stops between | an edit loses nothing else; what is taken out comes back |
| **Service keychain** (`core/keychain`) | a file per service, files of defaults, memory | set, rename, remove, default, migrate | a kill between two writes; several projects | a default names a service; nothing is lost |
| **Org keychain and scratch orgs** (`core/keychain`, `cli/org.py`, `core/config`) | a file per org and scope, a file of the default, servers | create, connect, import, default, remove, prune, use | a server exists before any file says so; two processes save what they loaded | no live org is lost without a reason; no file names a deleted one |
| **Sessions and OAuth** (`core/config/org_config.py`, `oauth`) | tokens, answers kept; a listener and its threads | renew, ask, log in | tokens end while used; threads share the answer | a task starts with a token that works; one login, one token |
| **Access and credentials** (`tasks/salesforce/users`, external credentials) | what is assigned, lists of parameters | query, insert in batches; read, merge, write back | others do the same; rows fail | what is asked for and nothing else |
| **Branches, releases, publishing, sources** (`tasks/vcs`, `vcs`, `core/source`) | branches, tags, files of a cache | merge, resolve, release, publish, load | people push between two requests; commands are killed | nobody's work is lost; what is loaded is whole |
| **Source tracking** (`tasks/salesforce/sourcetracking.py`) | a snapshot of revisions | list, retrieve, snapshot | the org changes during the retrieval | what is hidden is known |
| Command line, Robot libraries, release notes, adapters of version control servers | | | | presentation, conversions and single requests: not modelled |

How they interact: the command line makes a runtime with a project configuration
(`ConfigMerge`) and a keychain (`ServiceKeychain`, `OrgKeychain`); a flow is expanded from
the configuration (`FlowPlanning`) and run on an org (`FlowRunner`, `OrgSession`), or
frozen into an installation plan (`InstallPlan`); its tasks call the APIs of the org,
mostly by starting something there and polling it (the *requests* and *data* suites), or
those of a repository (the *vcs* suite). The Snowfakery task starts a pipeline of worker
queues per channel; each generator and loader runs a task of its own in a process or a
thread. A command may use other projects (`ProjectSources`).

## 2. Modules

| Suite (run) | Modules | What composes what |
|---|---|---|
| `queues`, `queue_live` (`MCWorkerQueue`) | `JobFlow`, the abstract specification of a pipeline; `WorkerQueue` | `Flow == INSTANCE JobFlow WITH` a refinement mapping in `WorkerQueue` |
| `load`, `load_live` (`MCSnowfakeryLoad`) | `PortionGenerator`, `SnowfakeryLoad` | `Q == INSTANCE WorkerQueueProofs` (the queues with what is proved of them), `P == INSTANCE PortionGenerator` in `SnowfakeryLoad` |
| `flows` (`MCFlows`) | `FlowPlanning`, `FlowRunner`, `ConfigMerge`, `InstallPlan`, `DependencyResolution` | `MCFlows` runs the lists `FlowPlanning` makes |
| `requests` (`MCRequests`) | `PackageInstall`, `PackageVersion`, `PushUpgrade`, `ApexTests`, `MetadataEdit`, `PackageContents` | one `subject` per behaviour |
| `data` (`MCData`) | `BulkLoad`, `LoadOrder`, `RecordSelect`, `DataExtract`, `PortionGenerator`, `SchemaCache`, `DataDictionary` | one `subject` per behaviour |
| `orgs` (`MCOrgs`) | `ServiceKeychain`, `OrgKeychain`, `OAuthFlow`, `CredentialUpdate`, `Assignments`, `OrgSession` | one `subject` per behaviour |
| `vcs` (`MCVcs`) | `BranchMerge`, `ReleaseBranches`, `SourceTracking`, `Publishing`, `ProjectSources` | one `subject` per behaviour |
| proofs | `WorkerQueueProofs`, `SnowfakeryLoadProofs`, `FlowRunnerProofs`, `VcsProofs`, `RequestsProofs`, `OrgsProofs`, `DataProofs` (of `BulkLoad` and `PortionGenerator`); the last section of `SchemaCache` | each extends the component or suite |

A suite puts components that do not interact in one module, so that one run checks them
all: the variable `subject` says which one a behaviour is about, `Init` starts the others
at rest, and `Next` takes the steps of the subject. Its state space is therefore the sum,
not the product, of the components'. Each property of a suite (`WaitsAreSound`, ...) is a
conjunction of the named properties of its components, which are stated and explained in
the components' modules; many of those have a mutant operator there, next to the
definition it changes, of which `PROJECT.json` lists one for each property of a run.

State and steps of each module, and what it leaves out:

### Queues and loads

**WorkerQueue.** A job is a directory; `stage` and `dir` say where it is. The outbox of a
queue that feeds another is the other's inbox, so moving there is `stage + 1`. A worker is
a pair of job and stage, and `worker` how far its `TaskWorker.run` has got; `listed` is
the union of the queues' `workers` lists. `Push`, `TickStage`, `AcquireLock`,
`ReleaseLock` and `Drain` are the controller's, one thread per pipeline; a tick that goes
from queue to queue is one `TickStage` per queue (`call` is the next), so workers run in
between. A worker reports *before* it moves its directory to the outbox and *after* it
moved it to failures, as the code does, and both moves wait for the lock.
`Push` tests `full` and moves the directory in one step, and `TickStage` reads its list,
starts jobs and moves them in one step, although the code does so one directory at a time
and without the lock. What others may do in between only helps: for the queues of the
controller's own pipeline workers only die (free workers go up) and move directories into
an inbox or out of `inprogress`, and no one but the controller takes anything out of an
inbox. For tests made once and relied on later (`make_new_worker`, then `push`) this does
not hold, and `SnowfakeryLoad` keeps them apart. `MayVanish` says which workers may be
killed. A move is a rename on one file system and atomic.

**SnowfakeryLoad.** `pc` is where the controller is; a step is what it does between two
points at which a worker's step could matter. A status is taken channel by channel, the
generators' directories and the loaders' in two steps, with the lock held in between
(`CountGen`, `CountLoad`). `sets[j]` is the number in the name of the directory; the
loader queue renames a directory to what was really generated (`TickQueue` adds up to
`Overshoot`). `Batch` asks for a portion from the count just taken; between it and
`PushJob` the template is copied, so workers run. `check_finished` ticks every channel and
tests each under its lock. Once the task has ended its workers, daemons, are gone
(`Alive`). Left out: the recipe, the content of directories, the division of workers among
loading rules, and rows that fail within a job that succeeds.

**PortionGenerator.** `next_batch` and `Grown` are the integers the code computes;
`int(n * 1.1)` is `(n * 11) \div 10`, which agrees with the floating-point expression for
every size the runs reach. The caller adds what it was given, adds what a portion
overshot by, and takes out what failed.

### Flows

**FlowPlanning.** `Visit` is `_visit_step`: it returns the list so far *and* the flows,
because `step_options.update(parent_options)` writes into the configuration. Names and
options are sequences of tokens, step numbers sequences of integers as `StepVersion`
parses them. Coordinators are created one after the other; the properties compare the
list with a definition that follows the nesting and knows of no sorting and no paths.

**FlowRunner.** One thread: `_init_org`, `PreFlow`, `EvaluateFlows`, then for each step
one of `PassFlowStep`, `PassInSkippedFlow`, `PassSkipped`, `PassUnmet`, `WhenRaises`, or
`PreTask`, `Resolve`, `RunTask`, `PostTask`; and in the end `PostFlow`. `holds` is what
each condition would evaluate to; a task may change the `Volatile` ones. `raised` says
where the exception came from that ends the run. Left out: exceptions that are not an
`Exception`, and a `pre_flow` callback that alters the list.

**ConfigMerge.** `merge_config` over six layers, after `cleanup_old_flow_step_replace_syntax`
compared steps layer by layer: 3 522 worlds of what two layers say of a step, a list and a
dictionary, with `None` and `"None"` kept apart.

**InstallPlan.** `Publish` freezes the steps and posts version, template and plan one
request after another; a request may fail or be answered too late; another publisher may
come between. The second half evaluates preflight checks with the cache of task results.

**DependencyResolution.** `resolve` is the flattening pass by pass up to
`max_iterations`, then `install` goes over the result in order and may fail at each, and
the task is run again. 280 worlds of three repositories and two packages.

### Requests

**PackageInstall.** A Metadata API call with its polls, where each message may find the
session expired, be refused, or be lost together with its answer; and the installation
that retries it, by tooling API or metadata. **PackageVersion.** Creation: dependencies
that must be packaged first, with one `request_id` and one poll for all, and promotion in
the order of dependencies; both may fail at each call and be run again. **PushUpgrade.**
Selection of orgs, batches and their recursion, the run and its report. **ApexTests.** The
classes of the org, or those of a `checkout` that its changes are about, by the names of files;
one job, then each failed method in one of its own, outcomes by method and class, coverage.
Its last section (`BatchSpec`) is the wait for a chain of jobs that start each other,
polled at growing intervals.
**MetadataEdit.** Thirteen kinds of task that retrieve files of some entities, edit them
one after another and deploy all or none. **PackageContents.** The listing of a
directory, the removal of what is not wanted, the transforms of the zip in order, and the
deletion, while names carry tokens for a namespace; in its last section (`revert_...`) the
copy of the sources, the edits in place and the revert, with kills and a person's edits in
between.

### Data

**BulkLoad.** Steps stream rows in batches; the server works on batches by itself;
results come back by position; a rollback deletes and restores. **LoadOrder.** Orders of
written and generated mappings, lookups deferred or not; in its second half
(`field_dict`) the injection and removal of namespaces and permissions. **RecordSelect.** Rows matched
with records by weighted distance against a threshold, or inserted, over the Bulk API or
REST, whose results carry no mark of what was created, and rolled back. **DataExtract.** Queries step by
step while the org changes, and the conversion of lookups; in its second half the tasks
that delete and update records of an org in place. **SchemaCache.** Two processes look
for one file, read it, remove it if it is broken or old, refresh in chunks and save it,
each a step, while the org changes. **DataDictionary.** `walkAt` goes
through the releases of each package as they are listed; `sobjects`, `fields` and
`omit_sobjects` are the task's attributes, and its rows are operators of what they hold at
the end. A project without a namespace is refused by the code (`Package` wants one), and
two packages without one, which would share rows, are not modelled.

### Orgs

**ServiceKeychain.** A command is a list `todo` of writes done one by one, any of which
may be the last; the next command loads what is there. **OrgKeychain.** Files of two
scopes, the file of the default, servers, and two processes that hold what they loaded; a
command that waits for nothing is one step; an import takes any name and any org the CLI
of Salesforce knows. **OAuthFlow.** The web flow with the listener,
the thread that counts down and the one that shuts it down; the device flow with its
polls. **CredentialUpdate**, **Assignments.** Tasks that read, merge or look up, and write
or insert in batches, beside an administrator who does the same. **OrgSession.** The
access token of an org through the tasks of a flow and the answers kept of it, in half
hours, against changes of the org, the app and the CLI.

### Repositories

**BranchMerge.** Builds list branches, choose and merge one by one, while others push. A
conflict becomes a pull request, or nothing where the option is off or the request fails.
**ReleaseBranches.** Identifiers of releases by their formats, predecessors, and the
search of the build of a commit. **SourceTracking.** Commands that list, retrieve and
snapshot revisions. **Publishing.** Tags, releases and commits to another repository or
one directory; in its second half the promotion of packages in the order of what they
need. **ProjectSources.** The cache of other projects, and the commit of a checkout read
while git moves.

## 3. Runs

Every passing run ends within four minutes with two workers. `CHECK_DEADLOCK FALSE` is given
where the system really stops: a queue whose jobs are through, a suite whose subject has
used up the bound of its commands, requests or failures. `load` and `load_live` check
deadlock: a controller that waits for nothing would be one.

| Run | Shows | Bounds and why they are enough |
|---|---|---|
| `queues` (283 743 states) | types; never more workers than configured; one owner per directory; a pipeline that looks finished is settled; the queues implement `JobFlow` | 3 jobs, 2 + 1 workers: a job waits while the second queue is full; every task may raise; two workers may die, one per queue |
| `queue_live` (18 438) | the bound on what is in flight; every job settles | 1 + 1 workers: the third job could exceed the bound of 2. No worker dies: a dead one's directory takes up room for ever |
| `load` (863 363) | nothing is generated beyond the target, the counts of directories can be relied on, the load is short only by failures, done means settled | 5 sets in portions of 2 (so the last is cut, and each may overshoot by 1), 2 generators, 1 loader, a load queue of 1; one generator and one loader may raise, one loader may die. `MaxJobs` never binds, as deadlock is checked |
| `load_live` (40 723) | the load ends | 4 sets, one generator may raise |
| `flows` (144 860) | the list of steps is what the configuration means; what runs is what is due, in order, and nothing after a failure; results, callbacks and references; merged configuration; frozen plans and preflight checks; dependencies | every pair of kinds of steps in `main`, three forms of each nested flow, loops through each, numbers 1, 1.0 and 2 in three orders, two coordinators so that the second sees what the first changed; a run of 8 steps with two conditional sub-flows, names that begin or end with each other, a condition that changes; 3 522 worlds of files; 4 plans, 2 publishers, a fault; 280 worlds of repositories, a run repeated after a failure |
| `requests` (585 531) | requests to an org, and edits of metadata and sources | 2 nested retries with an expired token; 4 packages that need each other, a task run 3 times; 3 subscribers in batches of 2, one bad; 2 classes, an unnamed failure, checkouts with one of 56 files against 3 paths of the package; a chain of 3 jobs; 13 kinds of edit over 2 entities and one other editor; at most 2 of 7 groups of files deployed in 6 ways; 2 files prepared twice within 2 seconds |
| `data` (984 739) | loads, mappings, selection, extracts, deletions, portions, the schema cache, the data dictionary | 2 steps of 2 and 3 rows in batches of 2, so a batch is cut and a lookup crosses batches; 3 objects in two file orders; 3 rows against 2 records at distances of 0 and 10, with no threshold, one of 0 and one of 10, so that a record is at each and one beyond; 3 extract steps of which two are of one object; 2 objects of 2 records that nest; sizes 10 to 13 against a cap of 12; 2 processes that load 3 schemas in chunks of 1, so that one of two can fail, with one change and one fault or kill; 3 releases of a project, each with one of 5 contents, listed in three ways, and 2 of a dependency |
| `orgs` (473 320) | services, orgs, logins, sessions, credentials, assignments | 2 projects, one new alias, 2 commands after the one that migrates or among them, 1 kill; 2 names of orgs of which one is predefined, 2 servers, 4 commands and 2 processes; 3 requests to the listener; a token of 3 half hours, 1 fault, 1 change; lists of at most 2 options and 1 edit by an administrator; at most 3 pairs in batches of 2 |
| `vcs` (923 220) | branches, releases, tracking, publishing, sources, promotion | main, a release, its child and a feature of the next, 2 commits, 2 builds at once; identifiers by number and by sprint, 3 releases; 2 commands over 2 revisions, 1 kill; 2 publishing tasks, 3 commits, 1 kill; 4 packages and 2 promoters; 2 repositories that are sources of each other, 2 runners, a checkout in 5 environments while git moves |

Each suite checks one action or temporal property beside its invariants: `RequestsMoveOn`
(waits end, a push takes no org back, test runs are repeated only as configured),
`DataTasksEnd`, `OrgsMoveOn` (no service is lost on the move to the new layout, a task
starts with a token that works, a login ends and an org whose CLI session ended is reached
again), `OthersWorkStays` (a task that publishes never replaces or deletes a file somebody
pushed after it read the branch). `flows` checks `UpdateEnds`: the passes over repositories
that depend on each other end, by the limit alone.

Bounds that are constants with a smaller value than in the code: the batch sizes and chunk
sizes (200, 10 000 and 25 in the code, 2 here, 1 for the schema), `Look` (5 previous releases, here 2),
`Lifetime` and `Hour` in half hours, numbers of retries. Each is large enough for a full
and a cut one, the first, a later and the last try.

### Disagreements

Three runs find a violation; `PROJECT.json` quotes what the code or a doc says.

- `flows_twice`: a sub-flow whose `when` is false is remembered by its path, so another
  use of it by the same flow is skipped although its own `when` is true.
- `steps_overridden`: a step that names neither task nor flow is taken for a flow; a task
  step in a file below it loses its `when` and its other options. The run shows a `when`
  lost to a file that gives an option and nothing else.
- `sources_reverted`: after `revert_managed_src` the edited files are still edited, as only
  files that are newer in the copy are copied back.

The modules state more of them, in their last section, each with the line of the doc,
docstring or message it quotes. TLC finds each violated when it is put into the suite's
configuration, unless marked (not run):

- *Queues and loads*: `SnowfakeryLoad` `CreatedWhatItSays` (a failure after the last report
  leaves the load short and the task succeeds), `FullMeansWait` (`push` raises "Queue is
  full" after `full` was tested), `WaitsForSomeone` (a killed worker leaves `finish` waiting
  for no one), `PidUnique` (two generators of two channels share a pid).
- *Flows*: `ListIsItsOwn` (expanding a flow writes into the shared configuration, and later
  coordinators see it; `ListsAreSound` does not forbid it),
  `NeverBothKinds`, `OnlyMistakesFail`, `PluginsKeepTheirTasks` (merged files),
  `EveryPlanHasItsSlug`, `EveryFlowEnds` (`post_flow` is not called when refreshing the org
  raises), `NoBetaInPersistentOrg`, `ForcedFlowsRun`, `TagIsUsed`, `IgnoredCannotFail`,
  `UnmanagedIsDeployed` (dependencies against docs/dev.md and the options of
  update_dependencies.py).
- *Requests*: `RetriesAreCounted`, `EmptyRequestCanceled`, `ClassFailuresReported`,
  `ClassRequirementsCount` (coverage required of single classes and of nothing else is not
  looked at, although docs/salesforce/run_tests.md shows that use; `CoverageIsEnforced` is
  about the other runs),
  `BothAreMonitored` and `PackageIsMonitored` (changes outside `force-app` and the last part of
  the package's path are not seen),
  `ReleasedAfterItsOwn` (a promoted version may come before a dependency whose own
  dependency was forced; it takes four runs and was found by the proof),
  `EveryLayoutHasTheFields`, `RecordTypeDefaultAsAsked`, `OverridesAreThere`, `ChangesStay`,
  `NamespacedBundlesAreGone`, `WantedAreKept`, `IncrementalSparesTokens`, `RevertRestores`.
- *Data*: `TablesByPriority`, `TablesAreMentionedBefore`, `QueryNeedsNoPermission`,
  `RollbackIsTotal`, `RollbackRemovesAllInserted` (what a select step inserts over REST is not
  noted for the rollback), `NoFieldThatIsGone`, `NoObjectIsMissing`, `FailsByRequestsOnly` (two
  processes that remove the same cached schema: one fails), `PublicFieldsAreTold` (one
  protected version of an object hides its fields for ever), `DeletedIsNamed` (what the
  current branch deletes is deleted in "100000001.0").
- *Orgs*: `MigratedUnderOwnName` (a service gets the name of the project of the process,
  not of its directory), `DefaultsOutliveKills` (a kill between the writes of a command
  leaves a default of nothing), `RemovesWhatItDeletes`, `DeletedHasNoName` (a scratch org
  imported under a second name is deleted under the first), `DeviceReturnsToken`,
  `AllUpdatesSucceeded`, `AdminEditsStay`, `OneCertificate`, `BareNamesAreBare`,
  `OnlyTheNamed`, `NoSandboxIsRefused`.
- *Repositories*: `ConflictsBecomePulls` (a request for a pull request that fails is logged,
  and the merge passes without one), `FutureReleasesInSync`, `TwoPreviousAreTried`, `NoValueError`,
  `TwoDigitYearsGoBack` (not run), `ResetLosesNothing`, `SnapshotIsReadable`,
  `OnlySnapshotsIfAsked` (not run), `ReleaseIsAtTheCommit`, `OnlyTheDirectory`,
  `AllChangesAreCommitted`, `NoIncompleteCache`, `LoadedOnceForASpec`, `FrozenIsASpec`,
  `PackedIsFound`.

Smaller ones met on the way, which no property states. *Flows*: a product that is not
found raises AttributeError before its message; a plan with a conditional sub-flow cannot
be frozen; the `when` of steps is lost in a frozen plan; the steps of a plan come from the
checkout's configuration, its tasks from the tag. *Requests*: a push passes its
`batch_size` as `lazy`; the patch of a beta version is read from its minor; a result
without a method name resets the count of failures; failures of whole managed classes are
not counted; aborted test runs pass; nested retries come to 441 tries. *Data*: stripping
namespaces loses a column where a mapping has both names; an `after` that names a dropped
step loses a lookup; a dry run or an empty package calls a method of `None`. *Orgs*: a
custom parameter of an identity provider overwrites the first of its type; options of
callouts can only be set to true; a file of defaults that is truncated by a kill breaks
every later command; `org import` overwrites a scratch org that was created;
`org prune` removes scratch orgs never created. *Repositories*: identifiers lose their
padding; a failing run of dependencies skips the post metadata when repeated; a kill
between tag and release leaves a release that cannot be created.

### Fairness

- *Controller* of a load, weak: one thread, which sleeps between rounds and waits for
  nothing but the lock.
- *Workers*, strong: the operating system runs every thread and process, and one that waits
  for the lock gets it while the controller sleeps; weak fairness would let the controller
  have it every time the worker looks.
- *Ticks*, strong, for a client of `WorkerQueue` alone: its loop ticks between any two
  counts made under the lock.
- *Update of dependencies*, *tasks* (`ClientStep`), weak: one thread, and
  every task and call returns or raises. That they do is an assumption: several poll
  without a limit.
- *Servers* (`OrgStep`), the listener, the timer and the clock of `OAuthFlow` and
  `OrgSession`, weak: an org works on what it accepted.

`ClientStep` and `OrgStep` are the steps of all subjects of a suite, with one weak fairness
for each kind. As a behaviour has one subject, this is the fairness of each component. No
fairness is assumed of a failure, a death, a change by somebody else or a command of a user.

## 4. Proofs

TLAPS proves the theorems below for every value of the constants that satisfies the
assumptions of the modules. `PROJECT.json` lists the main ones. Those that say more than the
type and finiteness of a constant: `NeedsAssumption` (the packages a package needs are
distinct and none is the project's own), `PromotionAssumption` (`Needs` is written in the
order of dependencies, as `get_dependencies` returns it), `KeychainAssumption` (names of
projects, aliases and the words `global`, `env` and the like are different; the number of
names is finite), `OrgAssumption` (predefined names are names), `InstallAssumption` (plans,
checks and the tasks of a check are lists, and a check uses a task), `RevertAssumption` (no
preparation removes what stands for a person's edit), `LoadAssumption` (a mapping loads a
table once, and rows have primary keys), `ProjectSourcesAssumption` (what a
spec may ask for: one of the eight ways of `GitHubSource`, of a repository there is, or a
folder). No theorem bounds commands, retries, workers, jobs, orgs or steps.

The theorems about a suite follow from those about its components: each component's part of
`Spec` is a behaviour of its own specification (`SuiteImplements` and the like).

### Queues

- `TypeCorrect`, and `PhasesHold`, the core of the inductive invariant: for every job and
  stage, the state of the worker fits the stage and directory of the job. `Ownership` says
  it for directories in progress only and is not inductive: that a job moves on *with* its
  worker, and that later stages have none yet, is needed to know that a worker started is
  the first of its job there. `OwnershipHolds` follows.
- With `AliveAreListed` (a live worker is in a list, so counting the list counts them all)
  `WorkersBounded`, by the cardinality of what `tick` adds; with `Reports` (a worker beyond
  its report has one, of the status its directory shows) `QuietSettles`.
- `QueuesImplementFlow`: every step of `WorkerQueue` is a step of `JobFlow` or leaves its
  variables alone; `WorkersBounded` is what lets `TickStage` be a `Start`.
- `InFlightIsBounded`: the bound on what is in flight, while no worker dies. A sum over
  stages is a fold over a finite set, about which nothing can be proved by an induction
  theorem with an operator; but the least set for which a formula fails exists
  (`FiniteSets` are well-founded), and with it sums are additive, monotone and bounded
  (`SumIs` to `SumOfNaturals`). The attempt showed that the bound is false before the first
  push where a pipeline has less capacity than stages, hence its premise `InFlight(p) # {}`.
- `LoadsAreSound`, of the whole of `LoadIsSound`, for every number of channels, workers and
  portions and every `Overshoot`, where `load` has one channel. The theorems about the
  queues hold of those of a load through `Q` (`QueuesAreSound`: every step of the load is
  one of theirs). The invariants that follow one another in it: `Calls` and `Names` (who
  ticks; a job not yet made has no directory); `Counts`, that while the controller counts,
  its sum is that of a set of jobs between those it came past that live and all it came
  past, so that jobs that fail in between count or not; `Asked`, that a portion about to be
  pushed is no more than the jobs that live lack, although it was asked for before the
  template was copied; `Ordered`, that there is a size asked for (`base`) of each directory,
  which its name exceeds by at most `Overshoot`; `Uploads`, that the status the loop goes
  by is never more than what is on disk; `Quiets`, that a channel found done stays so while
  the others are tested.
- `PortionsSound`, from `OvershootIsBounded` and `PortionsNeverStall`, which rest on lemmas
  about `next_batch` and `Grown`.

### Flows

- `FlowTypeCorrect`, with `InStep` (the loop has a task in hand where the code has). That a
  reference finds the first match at all needs the least element of a set of naturals
  (`LeastExists`), from the well-foundedness of finite sets.
- `NothingRunsAfterFailure`, from `Progress`: beyond the step at hand the verdicts are those
  the conditions of sub-flows gave, and behind it no failure was fatal.
- `WhatRunsIsDue`: `RunsWhatIsDue` is inductive together with `Decided` (all conditions are
  evaluated, and the set of skipped paths is that of the sub-flows whose condition was
  false). Its hypothesis `PathsTellFlows` is the exact condition under which paths may
  stand for uses of sub-flows: TLC checks it of the list of `flows`
  (`MCPathsTellFlows`), and `flows_twice` shows what happens without it.
- `RunsAreWhole`: the results of a run that succeeds are those of all its steps, callbacks
  come in pairs in the order of the steps, and a reference reads what its path names. Three
  invariants, `ResultsInv`, `CallsInv` and `ReferencesInv`, each kept with `Progress`.
- `PlansAreSoundHolds`, for every list of plans, number of tasks that publish at once, and
  faults. `PublishInv`: the server only gets more (`Grows`), so that what a task found stays
  there (`SoundTask`), and of the plans of its version those it is through are on the server;
  while tasks run one at a time a task also knows all that is there (`AloneInv`), from
  which it follows that nothing is made twice. `PreflightInv`, of the checks: the cache holds
  what the tasks returned, once per project and options, and what an expression found is
  what the cache says of the tasks it came to.

### Requests

- `WaitsAreSoundHolds`. For `PackageInstall` the invariant (`CallInv`, `JobsInv`,
  `TriesInv`) says where the call is, that a job other than the last has ended or was never
  started, and how many tries both retries have left; for the batch jobs (`ChainInv`,
  `IntervalInv`) that the chain has no gap and how long the next interval is.
- `VersionsAreSoundHolds`. `PushInv` ties the status of the push request to the orgs in it;
  `VersionInv` and `TaskInv` tell, for every version of a package, which task made it, from
  which content and after which dependencies. `ReleasedInOrder` was first stated with the
  promoted version's own dependencies and holds so for the three runs TLC makes; its proof
  fails, and from the fourth run on it is false (`ReleasedAfterItsOwn`, section 3).
  `PushesOnlyForward` is an action property.
- `RevertIsSafeHolds`, the half of `SourcesAreSound` about preparations and their revert.
  `RevertInv`: a file is never older than its copy (`TimesInv`), so that a copy replaces no
  file that was written since; until a revert has been through a file, what was taken out of
  it is in the copy (`OriginalInv`).

### Orgs

- `SessionsAreSoundHolds`: `OAuthInv` (which thread may still write the response, how many
  requests are on their way) and `SessInv` (what is kept of the org's answers is true of it
  unless it changed in a way the process is not told of; which ways to log in may have been
  refused). `StartsWithAToken`: a task starts with a token that was just used.
- `ServicesAreSound`. The invariant looks ahead: what is left to do (`todo`) makes every
  default right (`DefaultsWill`: a default names a service that is there, or one a later
  write brings, or one a later reference replaces), what it will write as a default will be
  there (`StepsWill`), and a file that goes is referred to by nothing that stays (`Goes`).
  `DefaultsExist` is the case of an empty `todo`. All of it holds through kills, but for the
  names in `cut`: those whose file a killed command had still to write or move, or whose
  defaults it had still to go over, and of a file of defaults that was cut off itself. That a
  kill breaks no other default, then or later, is what the proof adds to a run with one kill.
  `NewNamesFree` (a rename overwrites nothing) and `FirstOnly` (what is removed is removed
  first) have no such exception. `MigrationKeepsDefaults` needs `Migrating`, the same of the move from
  the old layout. `MovedAreNotLost` is the action property about that move, and holds
  through kills.
- `KeysAreSound`: `OrgKeyInv`. What a process holds and will save is as important as what
  the files say: one name per server among files and processes together, unless it was
  imported while another name had it (`OneName`, `shared`; nothing in `org_import` looks for
  one), a server that no file or process names is free or was given up for a listed reason
  (`AllExplained`), no file names a deleted one but
  under a second name (`NoneDeleted`), a process whose
  configuration differs from what it loaded is alone with its server (`PendingAlone`), and
  a flag for the default is on the name chosen (`FlagsWithin`).
- `KeychainIsSoundHolds` puts the two together for the suite.

### Repositories

- `TrackingIsSoundHolds` (`TrackingInv`: what each command listed, retrieved and hides, and
  at which revision), `PublishingIsSoundHolds` (`PublishInv`: which commit each task holds,
  and that a tag exists in both repositories or is being made by exactly one task;
  `PromotionInv`: the list a promoter goes through, and that what precedes its position
  is promoted). `OthersWorkStaysHolds`: the branch moves only to a commit on the head the task
  has read, so a file that differs from that is not touched, by a task that publishes a tag
  (whose directory is the whole repository) as by one that commits a directory, which also
  touches nothing outside it (`OutsideStays`).

- `BranchesAreSoundHolds`. `MergeInv` says which commits each branch has, seen from the
  build: what it has compared, what is left to merge, which pull requests it opened, and
  which conflicts it left without one (`dropped`: the option is off, or the request failed)
  until all the source has is merged or in a pull request. So no other conflict, branch or
  older build explains a branch that lacks something.
  The attempt found that `QuietMeansInSync` was false of two builds that run at once (the
  second one's merge made up for the first one's failure, which the history variable
  still counted); the variable was corrected and `vcs` now runs two builds.
- `ProjectsAreSoundHolds`. `SourcesInv`: the directory of a project that was given out is
  whole, or others wrote in it, or it is being extracted again; what a command knows of a
  spec is the commit that the spec meant when it asked. `ResolveIsMeant` is the lemma about
  the eight ways to name a commit; that the newest release is one and that no other is
  newer is the greatest element of a finite set (`NewestIsGreatest`). `CheckoutInv`, of
  the checkout: a ref that the reader may still find is one that the branch had, or is
  among those that were packed.

### Data

- `LoadsHold`, for every mapping, dataset and size of a batch, and whatever call, batch or
  row fails. The promises of a load are far from inductive: what it leaves at the end was
  decided by results that came back by position, several steps before. `LoadInv` has eight
  parts. `Typed`; `Aligned`, that the results of a batch are of its own rows, place by place;
  `Right`, that a lookup in the org, or one a rollback will put back, refers to what it
  means; `Known`, what the task knows of the job when it reads the results; `Noted`, that
  each record made is noted for the rollback or still among the results at hand; `Once`, that
  the rows not yet sent, those in batches and those in the org are apart, so that no row is
  inserted twice; `Sending`, that the rows of the step are those in batches and those unsent;
  `Complete`, that each step behind the one at hand has given its rows their ids and
  lookups. A batch posted, a chunk sent over REST and a batch handled by the server are one
  case (`Handles`). Before it stand what `FlattenSeq` returns, which decides where a
  step and a result are (its recursive function is unfolded at the least place where it would
  differ), and what `ElementsAt` takes of a sequence; the model has the latter where it had
  `SelectSeq`, which the provers cannot expand.
  `LoadsMisplaceNothing` assumes nothing of the mapping. Only completeness
  (`DoneIsComplete`) needs `LookupsInOrder`: `_infer_and_validate_lookups` takes an `after`
  that is written as it is, and defers a lookup of one target to its own table's step, also
  where the target is loaded later still, so a mapping out of order is loaded with lookups
  missing. TLC evaluates the condition for the mapping of `data` (`MCLookupsInOrder`).
- `SchemaSound` (last section of `SchemaCache`): `SchemaInv` follows an answer from the
  request to the file. A process has, of each object it asked for and was answered, the
  fields of the answer; a time in a database is that of a description the org had
  (`earlier`), with no field missing; so a process that overwrites another's file may
  make it older, and never wrong. Looking for the file, reading it and removing it are steps
  of their own, between which others come: a process about to remove a file still finds it,
  unless another was faster (`raced`), which with a failed request is all that fails one.

### Only model-checked

- All liveness.
- What reaches a `RECURSIVE` operator: the expansion of flows (`ListsAreSound`), the merge of
  configuration (`ConfigIsSound`), orders of mappings (`MappingsAreSound`), and with them
  theorems about the specifications of the suites `flows` and `data` as a whole.
- What folds over sequences decide: `OrgTasksAreSound` (lists of parameters are edited by
  `FoldLeft`), `ApexIsSound` (outcomes are summed, coverage is recursive),
  `EditsAreSound`, `SelectionIsSound`, `ExtractsAndDeletesAreSound`.
- `ReleasesAreFound`: identifiers of releases are computed by recursion on their numbers,
  and it holds only of formats whose numbers do not wrap (`TwoDigitYearsGoBack`).
- The rest of `SourcesAreSound` (the list of a package is concatenated and filtered)
  and `FrozenAsTheFlow` (in `ListsAreSound`): they say what `SelectSeq` or a recursive function
  returns, which the prover can expand for no input.
- `DependenciesAreSound`: what is needed, in which order, and which strategy finds it first are
  computed by recursive functions over the repositories.

## 5. Not modelled

Metadata helpers, the adapters of version control servers, parallel queries, the command
line, the Robot Framework libraries, release notes, cookies and formatters: conversions, presentation, browser automation or single requests, with no state
over which steps could go wrong but the server's. Of what is modelled, `PROJECT.json` says
of each component what is left out; the most important: the recipe of a Snowfakery load and
the content of its directories; upserts; find and replace, the cleaning of `-meta.xml` and
the collision check of deployments; `DeployBundles` and unpackaged metadata; exceptions that
are not an `Exception`; permissions of files and encryption of the keychain.

## 6. Plan

1. Proofs of the parts of `DependenciesAreSound` about what is installed
   (`FirstRunIsComplete`, `UpToDateStays`, `ForcedRunIsComplete`), and of what the list of
   `SourcesAreSound` contains, by lemmas like those about `FlattenSeq` and `ElementsAt`.
2. The part of `OrgTasksAreSound` about `Assignments`: nothing but what was asked is
   assigned.
3. The division of workers among channels, parallel queries, pages of the adapters.
