----------------------------- MODULE InstallPlan -----------------------------
(* Installation plans and their checks. A plan is a flow; publishing it freezes *)
(* the flow of one commit into a list of steps, and makes the records of a      *)
(* server that will run them: a version of the product, a template of the plan  *)
(* with its address, and the plan. A request may fail, or be answered too late, *)
(* and the task be run again. Before a plan or a flow is run its checks are      *)
(* evaluated, each an expression that may run tasks of its project.             *)
EXTENDS Integers, Sequences, FiniteSets, SequencesExt, TLC

CONSTANTS
  PlanWorlds,      \* what may be published, see PlanTypeOK
  Publisher,       \* the tasks that publish
  CheckWorlds,     \* what checks there are
  MaxPublishes, MaxPublishFaults

\* Plans, checks and the tasks a check uses come in order; a check uses one at least.
ASSUME InstallAssumption ==
  /\ {MaxPublishes, MaxPublishFaults} \subseteq Nat
  /\ \A w \in PlanWorlds : w.plans \in Seq(Range(w.plans))
  /\ \A c \in CheckWorlds :
       /\ c \in Seq(Range(c))
       /\ \A i \in DOMAIN c : c[i].uses \in Seq(Range(c[i].uses)) \ {<<>>}

VARIABLES
  installation,      \* what is published in this behaviour
  meta,        \* the server: versions, templates, plans
  labelsFile,  \* the English labels, by the text they translate
  publishers, publishes, publishFaults,
  madeBy,      \* by version, the plans of the task that listed it
  finished,    \* the plans of the tasks that have ended well
  overlapped,  \* two tasks have published at a time
  checks,      \* the checks of this behaviour, in order, each of a step of a project
  preflight,   \* how far they are, the cache and what they found
  ran,         \* the tasks that were run, with what they returned
  used         \* by check, the values it has used

installVars == <<installation, meta, labelsFile, publishers, publishes, publishFaults, madeBy, finished, overlapped>>

preflightVars == <<checks, preflight, ran, used>>

NotPublishing == [at |-> "idle"]
Planned == Range(installation.plans)
PlanNames == {plan.name : plan \in Planned}

PlanTypeOK ==
  /\ \A i \in DOMAIN meta.plans : /\ meta.plans[i].name \in PlanNames
                                  /\ meta.plans[i].version \in DOMAIN meta.versions
                                  /\ meta.plans[i].template \in DOMAIN meta.templates
  /\ \A k \in Publisher : publishers[k].at \in
       {"idle", "product", "version", "create version", "labels", "freeze", "template",
        "create template", "slug", "plan", "list"}
  /\ publishes \in 0..MaxPublishes /\ publishFaults \in 0..MaxPublishFaults

InstallInit ==
  /\ installation \in PlanWorlds
  /\ meta = [versions |-> <<>>, templates |-> <<>>, plans |-> <<>>]
  /\ labelsFile = {} /\ publishers = [k \in Publisher |-> NotPublishing]
  /\ publishes = 0 /\ publishFaults = 0 /\ madeBy = <<>> /\ finished = {} /\ overlapped = FALSE

-----------------------------------------------------------------------------
(* Freezing. A step of the flow is one step of the plan, or one for each thing  *)
(* the task would install, or none.                                             *)

FrozenStep(number, kind, what) == [number |-> number, kind |-> kind, what |-> what]

\* One for each dependency, numbered in the order they are installed.
FreezeDependencies(step) ==
  [i \in DOMAIN step.parts |->
     FrozenStep(<<step.number, i>>, IF step.parts[i].managed THEN "managed" ELSE "metadata", step.parts[i].name)]

\* One for each directory; files that lie among them are counted, and left out.
FreezeBundles(step) ==
  SelectSeq([i \in DOMAIN step.parts |->
               FrozenStep(<<step.number, i>>, IF step.parts[i].dir THEN "metadata" ELSE "file", step.parts[i].name)],
            LAMBDA s : s.kind # "file")

freeze(step) ==
  CASE step.kind = "dependencies" -> FreezeDependencies(step)
    [] step.kind = "bundles"      -> FreezeBundles(step)
    [] step.kind = "snapshot"     -> <<>>
    [] step.kind = "package"      -> <<FrozenStep(<<step.number>>, "managed", step.name)>>
    [] step.kind = "deploy"       -> <<FrozenStep(<<step.number>>, "metadata", step.name)>>
    [] step.kind = "task"         -> <<FrozenStep(<<step.number>>, "other", step.name)>>

\* What raises: an interactive task, and a flow with a condition, which is a step without a task.
CannotFreeze(plan) == \E i \in DOMAIN plan.steps : plan.steps[i].kind \in {"interactive", "flow"}

\* A bug: steps that are skipped are frozen too.
FreezeAll(plan) == FlattenSeq([i \in DOMAIN plan.steps |-> freeze(plan.steps[i])])

FreezeSteps(plan) ==
  LET due == SelectSeq(plan.steps, LAMBDA s : ~s.skip) IN FlattenSeq([i \in DOMAIN due |-> freeze(due[i])])

\* The orgs the plan is for: a list that is neither empty nor one of the known raises.
SupportedOrgs(plan) ==
  CASE plan.providers \in {<<>>, <<"user">>} -> "Persistent"
    [] {"user", "devhub"} \subseteq Range(plan.providers) -> "Both"
    [] plan.providers = <<"devhub">> -> "Scratch"
    [] OTHER -> "unbound"

\* The texts of a plan, its steps and its checks.
LabelsOf(plan) ==
  {<<"plan", plan.name>>} \cup {<<"steps", s.what>> : s \in Range(FreezeSteps(plan))}

-----------------------------------------------------------------------------
(* Publishing.                                                                 *)

Doing(k, at) == publishers[k].at = at
\* The task ends, or raises and saves no labels.
Raised(k) == publishers' = [publishers EXCEPT ![k] = NotPublishing]
Goes(k, p) == publishers' = [publishers EXCEPT ![k] = p]

\* A request is answered, or fails before or after what it does is done.
Answered(k, effect, next) ==
  /\ UNCHANGED <<installation, labelsFile, publishes, finished, overlapped>>
  /\ \/ Goes(k, next) /\ meta' = effect /\ UNCHANGED publishFaults
     \/ /\ publishFaults < MaxPublishFaults /\ publishFaults' = publishFaults + 1
        /\ Raised(k) /\ meta' \in {meta, effect}
Request(k, effect, next) == Answered(k, effect, next) /\ UNCHANGED madeBy

\* A bug: each task begins with none.
_load_labelsNot == {}

_load_labels == labelsFile

\* Someone publishes all plans, or one of them, or only prints them. The labels there are
\* are read before anything is asked of the server.
Publish(k, only, dry, list) ==
  /\ Doing(k, "idle") /\ publishes < MaxPublishes /\ publishes' = publishes + 1
  /\ LET chosen == IF only = "all" THEN installation.plans ELSE <<CHOOSE plan \in Planned : plan.name = only>> IN
     Goes(k, [at |-> "product", todo |-> chosen, all |-> chosen, dry |-> dry, list |-> list /\ ~dry,
              labels |-> _load_labels, version |-> 0, template |-> 0, steps |-> <<>>])
  /\ overlapped' = (overlapped \/ \E l \in Publisher \ {k} : ~Doing(l, "idle"))
  /\ UNCHANGED <<installation, meta, labelsFile, publishFaults, madeBy, finished>>

\* A product that is not there is an error before it is noticed: its labels are asked for.
_find_product(k) ==
  /\ Doing(k, "product")
  /\ IF ~installation.product THEN Raised(k) /\ UNCHANGED <<installation, meta, labelsFile, publishes, publishFaults, madeBy, finished, overlapped>>
     ELSE LET p == publishers[k] IN
          Request(k, meta, [p EXCEPT !.at = IF p.dry THEN "freeze" ELSE "version",
                                     !.labels = @ \cup {<<"product", "title">>}])

\* A bug: the version is looked for by what only a listed one has.
FoundVersionListed == {v \in DOMAIN meta.versions : meta.versions[v].listed}

FoundVersion == DOMAIN meta.versions
FoundTemplate(name) == {t \in DOMAIN meta.templates : meta.templates[t].name = name}

_find_version(k) ==
  /\ Doing(k, "version")
  /\ LET p == publishers[k] IN
     IF FoundVersion = {} THEN Request(k, meta, [p EXCEPT !.at = "create version"])
     ELSE Request(k, meta, [p EXCEPT !.at = "labels", !.version = CHOOSE v \in FoundVersion : \A w \in FoundVersion : v <= w])
_create_version(k) ==
  /\ Doing(k, "create version")
  /\ LET p == publishers[k] IN
     Request(k, [meta EXCEPT !.versions = Append(@, [listed |-> FALSE])],
             [p EXCEPT !.at = "labels", !.version = Len(meta.versions) + 1])

\* The translations of other languages; what the server refuses of them is left.
_publish_labels(k) ==
  /\ Doing(k, "labels")
  /\ Request(k, meta, [publishers[k] EXCEPT !.at = "freeze"])

\* The commit is downloaded and the next plan frozen, as it is there. After the last the
\* version is listed if that is wanted, and the labels are saved.
_freeze_steps(k) ==
  /\ Doing(k, "freeze") /\ publishers[k].todo # <<>>
  /\ LET p == publishers[k]
         plan == Head(p.todo)
         seen == [p EXCEPT !.labels = @ \cup LabelsOf(plan), !.steps = FreezeSteps(plan)] IN
     IF CannotFreeze(plan) THEN Raised(k)
     ELSE Goes(k, IF p.dry THEN [seen EXCEPT !.todo = Tail(@)] ELSE [seen EXCEPT !.at = "template"])
  /\ UNCHANGED <<installation, meta, labelsFile, publishes, publishFaults, madeBy, finished, overlapped>>

_find_plan_template(k) ==
  /\ Doing(k, "template")
  /\ LET p == publishers[k]
         found == FoundTemplate(Head(p.todo).name) IN
     IF found = {} THEN Request(k, meta, [p EXCEPT !.at = "create template"])
     ELSE Request(k, meta, [p EXCEPT !.at = "plan", !.template = CHOOSE t \in found : \A u \in found : t <= u])
_create_plan_template(k) ==
  /\ Doing(k, "create template")
  /\ LET p == publishers[k] IN
     Request(k, [meta EXCEPT !.templates = Append(@, [name |-> Head(p.todo).name, slug |-> FALSE])],
             [p EXCEPT !.at = "slug", !.template = Len(meta.templates) + 1])
_create_plan_slug(k) ==
  /\ Doing(k, "slug")
  /\ LET p == publishers[k] IN
     Request(k, [meta EXCEPT !.templates[p.template].slug = TRUE], [p EXCEPT !.at = "plan"])

_publish_plan(k) ==
  /\ Doing(k, "plan")
  /\ LET p == publishers[k]
         plan == Head(p.todo) IN
     IF SupportedOrgs(plan) = "unbound"
     THEN Raised(k) /\ UNCHANGED <<installation, meta, labelsFile, publishes, publishFaults, madeBy, finished, overlapped>>
     ELSE Request(k, [meta EXCEPT !.plans = Append(@, [name |-> plan.name, version |-> p.version, template |-> p.template,
                                                       steps |-> p.steps, orgs |-> SupportedOrgs(plan)])],
                  [p EXCEPT !.at = "freeze", !.todo = Tail(@)])

\* A bug: the version is listed with its first plan.
MayListEarly(p) == TRUE

MayList(p) == p.todo = <<>>
_update_version(k) ==
  /\ Doing(k, "freeze") /\ publishers[k].list /\ MayList(publishers[k])
  /\ LET p == publishers[k]
         listed == [meta EXCEPT !.versions[p.version].listed = TRUE] IN
     /\ Answered(k, listed, [p EXCEPT !.list = FALSE])
     /\ madeBy' = IF meta' = listed THEN madeBy \o <<[version |-> p.version, plans |-> p.all]>> ELSE madeBy

_save_labels(k) ==
  /\ Doing(k, "freeze") /\ publishers[k].todo = <<>> /\ ~publishers[k].list
  /\ labelsFile' = publishers[k].labels /\ Raised(k)
  /\ finished' = finished \cup Range(publishers[k].all)
  /\ UNCHANGED <<installation, meta, publishes, publishFaults, madeBy, overlapped>>

InstallNext ==
  \E k \in Publisher :
    \/ \E only \in PlanNames \cup {"all"}, dry, list \in BOOLEAN : Publish(k, only, dry, list)
    \/ _find_product(k) \/ _find_version(k) \/ _create_version(k) \/ _publish_labels(k)
    \/ _freeze_steps(k) \/ _find_plan_template(k) \/ _create_plan_template(k) \/ _create_plan_slug(k)
    \/ _publish_plan(k) \/ _update_version(k) \/ _save_labels(k)

InstallSpec == InstallInit /\ [][InstallNext]_installVars

-----------------------------------------------------------------------------

PlansOf(version, name) ==
  {i \in DOMAIN meta.plans : meta.plans[i].version = version /\ meta.plans[i].name = name}

\* A version that is listed has each plan it was listed with, also when requests failed and
\* the task was run again.
ListedIsComplete ==
  \A m \in Range(madeBy) : \A i \in DOMAIN m.plans : PlansOf(m.version, m.plans[i].name) # {}

\* The version and each template are made once, whatever fails and however often the task
\* is run, as long as no two run at a time.
MadeOnce ==
  overlapped \/ (/\ Len(meta.versions) <= 1
                 /\ \A t, u \in DOMAIN meta.templates : meta.templates[t].name = meta.templates[u].name => t = u)

\* A plan does what its flow does, in its order: all the flow would install is there, the
\* later after the earlier, and nothing that is skipped.
Earlier(a, b) == a[1] < b[1] \/ (a[1] = b[1] /\ Len(a) = 2 /\ Len(b) = 2 /\ a[2] < b[2])
DuePart(step, part) == step.kind = "dependencies" \/ (step.kind = "bundles" /\ part.dir)
Due(plan) ==
  UNION {IF plan.steps[i].skip THEN {}
         ELSE IF plan.steps[i].kind \in {"dependencies", "bundles"}
         THEN {plan.steps[i].parts[j].name : j \in {n \in DOMAIN plan.steps[i].parts : DuePart(plan.steps[i], plan.steps[i].parts[n])}}
         ELSE IF plan.steps[i].kind = "snapshot" THEN {} ELSE {plan.steps[i].name} : i \in DOMAIN plan.steps}
FrozenAsTheFlow ==
  \A n \in DOMAIN meta.plans :
    LET steps == meta.plans[n].steps
        plan == CHOOSE p \in Planned : p.name = meta.plans[n].name IN
    /\ \A i, j \in DOMAIN steps : i < j => Earlier(steps[i].number, steps[j].number)
    /\ {steps[i].what : i \in DOMAIN steps} = Due(plan)

\* What tasks that ended have published can be translated: a task keeps what others wrote
\* before it began.
PublishedIsLabelled == overlapped \/ \A plan \in finished : LabelsOf(plan) \subseteq labelsFile

-----------------------------------------------------------------------------
(* Checks. The flow's come first, then those of each step, with the tasks of   *)
(* the step's project. An expression stops at the first task whose value is no. *)

NotChecking == [at |-> "start", check |-> 1, use |-> 1, cache |-> <<>>, results |-> {}, calls |-> <<>>]
Check == checks[preflight.check]
Use == Check.uses[preflight.use]

PreflightTypeOK ==
  /\ preflight.at \in {"start", "org", "checks", "task", "over"}
  /\ preflight.check \in 1..(Len(checks) + 1)
  /\ \A r \in preflight.results : r \in DOMAIN checks

PreflightInit == checks \in CheckWorlds /\ preflight = NotChecking /\ ran = <<>> /\ used = {}

Tells(p, call) == [p EXCEPT !.calls = Append(@, call)]
Checks(p) == preflight' = p /\ UNCHANGED <<checks, ran, used>>

\* The callbacks are told before the token of the org is refreshed; if that raises, no more.
BeginChecks == preflight.at = "start" /\ Checks(Tells([preflight EXCEPT !.at = "org"], "pre_flow"))
RefreshForChecks(works) == preflight.at = "org" /\ Checks([preflight EXCEPT !.at = IF works THEN "checks" ELSE "over"])

\* A bug: one cache for the tasks of all projects.
CacheKeyOfAll(check, use) == <<"root", use.task, use.options>>

CacheKey(check, use) == <<check.project, use.task, use.options>>

Cached_(cache, key, value) == [k \in DOMAIN cache \cup {key} |-> IF k = key THEN value ELSE cache[k]]
\* A bug: what failed is not kept.
CachedIfGood(cache, key, value) == IF value = "no" THEN cache ELSE Cached_(cache, key, value)

Cached(cache, key, value) == Cached_(cache, key, value)

\* The value of a task decides whether the expression goes on.
Evaluated(p, value) ==
  LET more == value = "yes" /\ p.use < Len(Check.uses)
      holds_ == value = "yes" /\ p.use = Len(Check.uses) IN
  [p EXCEPT !.at = "checks", !.use = IF more THEN @ + 1 ELSE 1,
            !.check = IF more THEN @ ELSE @ + 1,
            !.results = IF holds_ THEN @ \cup {p.check} ELSE @]

Using(value) == used' = used \cup {[check |-> preflight.check, use |-> preflight.use, value |-> value]}

\* A task whose result is in the cache is not run again,
CachedTaskRunner ==
  /\ preflight.at = "checks" /\ preflight.check <= Len(checks)
  /\ LET key == CacheKey(Check, Use) IN
     IF key \in DOMAIN preflight.cache
     THEN /\ preflight' = Evaluated(preflight, preflight.cache[key])
          /\ Using(preflight.cache[key]) /\ UNCHANGED <<checks, ran>>
     ELSE Checks(Tells([preflight EXCEPT !.at = "task"], "pre_task"))

\* others are; one that raises has no value and is kept too.
RunCheckTask(value) ==
  /\ preflight.at = "task"
  /\ preflight' = Evaluated(Tells([preflight EXCEPT !.cache = Cached(@, CacheKey(Check, Use), value)], "post_task"), value)
  /\ ran' = Append(ran, [project |-> Check.project, task |-> Use.task, options |-> Use.options, value |-> value])
  /\ Using(value) /\ UNCHANGED checks

\* A task that cannot be made with its options raises, and the checks are over.
TaskCannotBeMade ==
  preflight.at = "task" /\ Checks(Tells([preflight EXCEPT !.at = "over"], "post_flow"))

EndChecks ==
  /\ preflight.at = "checks" /\ preflight.check > Len(checks)
  /\ Checks(Tells([preflight EXCEPT !.at = "over"], "post_flow"))

PreflightStep ==
  BeginChecks \/ CachedTaskRunner \/ TaskCannotBeMade \/ EndChecks
    \/ (\E works \in BOOLEAN : RefreshForChecks(works)) \/ \E value \in {"yes", "no"} : RunCheckTask(value)
PreflightNext == PreflightStep

PreflightSpec == PreflightInit /\ [][PreflightNext]_preflightVars

\* A task is run once with the same options in a project, however many checks ask for it and
\* whether it succeeds.
RunOncePerOptions ==
  \A i, j \in DOMAIN ran :
    ran[i].project = ran[j].project /\ ran[i].task = ran[j].task /\ ran[i].options = ran[j].options => i = j

\* A check sees what the tasks of its own step's project returned, although steps of several
\* projects are checked by tasks of the same name.
ChecksSeeTheirProject ==
  \A u \in used : \E i \in DOMAIN ran :
    LET c == checks[u.check] IN
    /\ ran[i].project = c.project /\ ran[i].value = u.value
    /\ ran[i].task = c.uses[u.use].task /\ ran[i].options = c.uses[u.use].options

\* Checks that ask the same of one project agree.
EqualChecksAgree ==
  preflight.at = "over" /\ preflight.check > Len(checks) =>
    \A i, j \in DOMAIN checks :
      (checks[i].project = checks[j].project /\ checks[i].uses = checks[j].uses)
        => (i \in preflight.results <=> j \in preflight.results)

PlansAreSound ==
  /\ PlanTypeOK /\ PreflightTypeOK
  /\ ListedIsComplete /\ MadeOnce /\ PublishedIsLabelled
  /\ RunOncePerOptions /\ ChecksSeeTheirProject /\ EqualChecksAgree

-----------------------------------------------------------------------------
(* What is said of plans and checks and does not hold.                         *)

\* metadeploy.py: a product that is not found is said so; but its labels are asked for first.
\* Whether a template has an address is decided by the run that made it.
EveryPlanHasItsSlug ==
  \A i \in DOMAIN meta.plans : meta.templates[meta.plans[i].template].slug

\* Who is told that a flow begins is told that it ends.
EveryFlowEnds == preflight.at = "over" => preflight.calls[Len(preflight.calls)] = "post_flow"
=============================================================================
