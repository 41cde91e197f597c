---------------------------- MODULE PushUpgrade ----------------------------
(***************************************************************************)
(* A push upgrade (cumulusci/tasks/push/tasks.py, push_api.py): orgs are   *)
(* selected by the version they have, a push request is created, the orgs  *)
(* are added to it in batches, each again after an error without the orgs  *)
(* the error names, the request is set to run, and its status polled.      *)
(***************************************************************************)
EXTENDS Integers, Sequences, FiniteSets, SequencesExt, FiniteSetsExt

CONSTANTS
  Subscriber,   \* the orgs that have the package
  Target,       \* the version to push; versions are numbered
  BatchSize,
  MaxBad        \* how often the server answers "Something bad has happened"

ASSUME PushAssumption ==
  /\ IsFiniteSet(Subscriber) /\ Target \in Nat
  /\ BatchSize \in Nat \ {0} /\ MaxBad \in Nat

VARIABLES
  pushPc,
  installed,   \* server: the version each org has
  refusing,    \* server: the orgs it takes no job for
  mode,        \* how the orgs are chosen: a list of them, a range of versions, or all but the newer
  chosen,      \* the orgs chosen
  todo,        \* the orgs not yet in a batch
  batch,       \* the batch at hand
  scheduled,   \* scheduled_orgs
  pushJobs,    \* server: the orgs of the request
  request,     \* server: the status of the request
  seen,        \* the status the report has read
  bad          \* transient errors so far

pushVars == <<pushPc, installed, refusing, mode, chosen, todo, batch, scheduled, pushJobs, request,
              seen, bad>>

Version == 0..(Target + 1)

completed_statuses == {"Succeeded", "Failed", "Canceled"}

PushTypeOK ==
  /\ pushPc \in {"idle", "batches", "adding", "populated", "report",
                 "done", "failed"}
  /\ installed \in [Subscriber -> Version]
  /\ refusing \subseteq Subscriber
  /\ mode \in {"list", "range", "exclusive"}
  /\ chosen \subseteq Subscriber /\ todo \subseteq Subscriber /\ batch \subseteq Subscriber
  /\ scheduled \in 0..Cardinality(Subscriber)
  /\ pushJobs \subseteq Subscriber
  /\ request \in {"none", "Created", "Pending", "InProgress"} \cup completed_statuses
  /\ seen \in {"none", "Created", "Pending", "InProgress"} \cup completed_statuses
  /\ bad \in 0..MaxBad

PushInit ==
  /\ pushPc = "idle"
  /\ installed = [o \in Subscriber |-> 0]
  /\ refusing = {} /\ mode = "list" /\ chosen = {} /\ todo = {} /\ batch = {} /\ scheduled = 0 /\ pushJobs = {}
  /\ request = "none" /\ seen = "none" /\ bad = 0

-----------------------------------------------------------------------------
(* Selection: SchedulePushOrgQuery._get_orgs.                              *)

\* Mutant: only the version itself is excluded.
NewerNone == {}

get_newer_released_version_objs == {v \in Version : v > Target}

get_older_released_version_objs(min_version) ==
  {v \in Version : v < Target /\ v >= min_version}

\* get_subscribers, queried anew for each version of a range.
get_subscribers(versions) == {o \in Subscriber : installed'[o] \in versions}

\* _get_orgs of the list: what the file says, whatever the orgs have.
ListOrgs ==
  /\ pushPc = "idle" /\ mode' = "list"
  /\ chosen' \in SUBSET Subscriber

\* _get_orgs of the query: a range is inclusive, and must not be empty; without one
\* the search is exclusive.
QueryOrgs ==
  /\ pushPc = "idle"
  /\ \/ \E min_version \in Version :
          /\ get_older_released_version_objs(min_version) # {}
          /\ mode' = "range"
          /\ chosen' = UNION {get_subscribers({v}) :
                               v \in get_older_released_version_objs(min_version)}
     \/ /\ mode' = "exclusive"
        /\ chosen' = Subscriber \
                     get_subscribers({Target} \cup get_newer_released_version_objs)

\* The orgs as they are when the task starts, and create_push_request.
SelectOrgs ==
  /\ installed' \in [Subscriber -> Version]
  /\ refusing' \in SUBSET Subscriber
  /\ ListOrgs \/ QueryOrgs
  /\ todo' = chosen' /\ request' = "Created" /\ pushPc' = "batches"
  /\ UNCHANGED <<batch, scheduled, pushJobs, seen, bad>>

-----------------------------------------------------------------------------
(* create_push_request, _add_batch.                                        *)

\* batch_list: full batches, and the rest.
NextBatch ==
  /\ pushPc = "batches" /\ todo # {}
  /\ \E b \in SUBSET todo :
       /\ Cardinality(b) = BatchSize \/ (Cardinality(b) < BatchSize /\ b = todo)
       /\ batch' = b /\ todo' = todo \ b
  /\ pushPc' = "adding"
  /\ UNCHANGED <<installed, refusing, mode, chosen, scheduled, pushJobs, request, seen, bad>>

\* composite/tree adds all records or none.
BatchAdded ==
  /\ pushPc = "adding" /\ batch \cap refusing = {}
  /\ pushJobs' = pushJobs \cup batch
  /\ scheduled' = scheduled + Cardinality(batch)
  /\ pushPc' = "batches"
  /\ UNCHANGED <<installed, refusing, mode, chosen, todo, batch, request, seen, bad>>

\* Mutant: the whole batch is skipped.
BatchRefusedSkipped ==
  /\ pushPc = "adding" /\ batch \cap refusing # {}
  /\ batch' = {} /\ pushPc' = "batches"
  /\ UNCHANGED <<installed, refusing, mode, chosen, todo, scheduled, pushJobs, request, seen, bad>>

\* The error names some of the orgs: again without them, if any are left.
BatchRefused ==
  /\ pushPc = "adding"
  /\ \E named \in SUBSET (batch \cap refusing) \ {{}} : batch' = batch \ named
  /\ pushPc' = IF batch' = {} THEN "batches" ELSE "adding"
  /\ UNCHANGED <<installed, refusing, mode, chosen, todo, scheduled, pushJobs, request, seen, bad>>

\* "Something bad has happened": the batch again.
BatchRetried ==
  /\ pushPc = "adding" /\ bad < MaxBad
  /\ bad' = bad + 1
  /\ UNCHANGED <<pushPc, installed, refusing, mode, chosen, todo, batch, scheduled, pushJobs,
                 request, seen>>

\* Any other error ends the task; so does a lost answer, after which the jobs may
\* have been added.
BatchFails ==
  /\ pushPc = "adding"
  /\ \/ UNCHANGED pushJobs
     \/ batch \cap refusing = {} /\ pushJobs' = pushJobs \cup batch
  /\ pushPc' = "failed"
  /\ UNCHANGED <<installed, refusing, mode, chosen, todo, batch, scheduled, request, seen, bad>>

Populated ==
  /\ pushPc = "batches" /\ todo = {}
  /\ pushPc' = "populated"
  /\ UNCHANGED <<installed, refusing, mode, chosen, todo, batch, scheduled, pushJobs, request, seen, bad>>

-----------------------------------------------------------------------------
(* SchedulePushOrgList._run_task, _report_push_status.                     *)

\* Mutant: the request runs from the first batch on.
RunRequestEarly ==
  /\ pushPc \in {"batches", "populated"} /\ scheduled > 0 /\ request = "Created"
  /\ request' = "Pending"
  /\ pushPc' = IF pushPc = "batches" THEN "batches" ELSE "report"
  /\ UNCHANGED <<installed, refusing, mode, chosen, todo, batch, scheduled, pushJobs, seen, bad>>

\* run_push_request; the status is reported if the start is less than a minute away.
RunRequest ==
  /\ pushPc = "populated" /\ scheduled > 0
  /\ request' = "Pending"
  /\ \E soon \in BOOLEAN : pushPc' = IF soon THEN "report" ELSE "done"
  /\ UNCHANGED <<installed, refusing, mode, chosen, todo, batch, scheduled, pushJobs, seen, bad>>

\* cancel_push_request is named, not called.
NothingScheduled ==
  /\ pushPc = "populated" /\ scheduled = 0
  /\ pushPc' = "done"
  /\ UNCHANGED <<installed, refusing, mode, chosen, todo, batch, scheduled, pushJobs, request, seen, bad>>

\* Mutant: the cache of the first answer is not cleared.
ReadStatusCached ==
  /\ pushPc = "report" /\ seen \notin completed_statuses
  /\ seen' = IF seen = "none" THEN request ELSE seen
  /\ UNCHANGED <<pushPc, installed, refusing, mode, chosen, todo, batch, scheduled, pushJobs, request, bad>>

\* The caches of get_push_requests are cleared before each query.
ReadStatus ==
  /\ pushPc = "report" /\ seen \notin completed_statuses
  /\ seen' = request
  /\ UNCHANGED <<pushPc, installed, refusing, mode, chosen, todo, batch, scheduled, pushJobs, request, bad>>

\* _get_push_request_job_results: the jobs are read after the request is complete.
ReportResults ==
  /\ pushPc = "report" /\ seen \in completed_statuses
  /\ pushPc' = "done"
  /\ UNCHANGED <<installed, refusing, mode, chosen, todo, batch, scheduled, pushJobs, request, seen, bad>>

-----------------------------------------------------------------------------
\* The server runs what is pending; an operator may cancel it before.
ServerPushes ==
  /\ \/ request = "Pending" /\ request' \in {"InProgress", "Canceled"}
     \/ request = "InProgress" /\ request' \in {"Succeeded", "Failed"}
  /\ installed' = IF request' = "Succeeded"
                  THEN [o \in Subscriber |-> IF o \in pushJobs THEN Target ELSE installed[o]]
                  ELSE installed
  /\ UNCHANGED <<pushPc, refusing, mode, chosen, todo, batch, scheduled, pushJobs, seen, bad>>

PushStep ==
  \/ NextBatch \/ BatchAdded \/ BatchRefused \/ Populated
  \/ RunRequest \/ NothingScheduled \/ ReadStatus \/ ReportResults

PushNext == SelectOrgs \/ PushStep \/ BatchRetried \/ BatchFails \/ ServerPushes

PushSpec == PushInit /\ [][PushNext]_pushVars

PushFairness == WF_pushVars(PushStep) /\ WF_pushVars(ServerPushes)

-----------------------------------------------------------------------------
(* Properties.                                                             *)

\* When the request is run, every org chosen is in it but those the server
\* refused, whatever batches were tried again, and the count says how many.
PushedIsChosenLessRefused ==
  request \notin {"none", "Created"} =>
    /\ pushPc \notin {"batches", "adding"}
    /\ pushJobs = chosen \ refusing
    /\ scheduled = Cardinality(pushJobs)

\* Nothing is pushed to some of the orgs because the batch of others failed.
FailedPushesNothing == pushPc = "failed" => request = "Created"

\* No push of orgs found by their versions takes one back to an older version.
NeverBackwards ==
  [][\A o \in Subscriber : pushPc # "idle" /\ mode # "list" =>
       installed'[o] >= installed[o]]_pushVars

\* A report that has begun ends with the status the request ended with.
ReportEnds == pushPc = "report" ~> pushPc = "done" /\ seen = request

\* Does not hold.  "Canceling push request with 0 orgs" (tasks.py:340): a request
\* without orgs is canceled.
EmptyRequestCanceled ==
  pushPc = "done" /\ scheduled = 0 => request = "Canceled"
=============================================================================
