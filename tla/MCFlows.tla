------------------------------- MODULE MCFlows -------------------------------
(***************************************************************************)
(* The plans and the runs of small flows, the merges of the files they     *)
(* come from, their publication and checks, and the dependencies a flow    *)
(* starts with.  A behaviour is one of     *)
(* these.                                                                  *)
(***************************************************************************)
EXTENDS FlowRunner, FlowPlanning, ConfigMerge, InstallPlan, DependencyResolution

VARIABLE subject   \* "plan": coordinators are created; "run": a flow is run;
                   \* "merge": files are merged; "publish": plans are published;
                   \* "checks": checks are evaluated; "dependencies": they are
                   \* resolved and installed

Main == <<"main">>
Other == <<"other">>
A == <<"a">>
B == <<"b">>
T == <<"t">>
U == <<"u">>
W == <<"w">>     \* on the list of tasks to skip
MCNone == <<"None">>

Opt(name, value) == name :> <<value>>
Task(n, name) == [number |-> n, task |-> name]
TaskWith(n, name, opts) == [number |-> n, task |-> name, options |-> opts]
Sub(n, name) == [number |-> n, flow |-> name]
SubWith(n, name, opts) == [number |-> n, flow |-> name, options |-> opts]
When(step, c) == step @@ [when |-> c]
Ignoring(step) == step @@ [ignore_failure |-> TRUE]
Reading(step, path) == step @@ [options |-> "o" :> (<<"^^">> \o path)]

-----------------------------------------------------------------------------
(* Plans: a flow `main' and another root, and two flows they may use.        *)

MCTaskOptions == (T :> Opt("x", "default")) @@ (U :> EmptyDict)
MCRuntimeOptions == U :> Opt("y", "runtime")
MCSkip == {W}

Project(main, other, a, b) == (Main :> main) @@ (Other :> other) @@ (A :> a) @@ (B :> b)

\* What a step of `main' may be: every kind there is.
MainStep(n) ==
  {Task(n, T), TaskWith(n, U, Opt("y", "step")), Task(n, MCNone), Sub(n, A), When(Sub(n, A), "c"),
   TaskWith(n, W, EmptyDict), SubWith(n, A, T :> Opt("x", "main")), Sub(n, MCNone), Sub(n, B)}

\* Numbers 1 and 1.0, or 1 and 2 in an order of the dictionary that is not theirs.
MainFlows ==
  UNION {{<<s, t>> : s \in MainStep(m[1]), t \in MainStep(m[2])} :
         m \in {<<<<1>>, <<1, 0>>>>, <<<<2>>, <<1>>>>}}
AFlows ==
  {<<TaskWith(<<2>>, T, Opt("x", "a")), Sub(<<1>>, B)>>, <<When(Sub(<<1>>, B), "c"), Task(<<2>>, T)>>,
   <<Task(<<1>>, T), Task(<<3>>, U)>>}
BFlows == {<<Task(<<1>>, U), Task(<<0>>, T)>>, <<Task(<<1>>, T), Sub(<<2>>, A)>>, <<Sub(<<1>>, Main)>>}

MCProjects ==
  {Project(m, <<SubWith(<<1>>, A, T :> Opt("x", "other"))>>, a, b) :
     m \in MainFlows, a \in AFlows, b \in BFlows}
MCRoots == {Main, Other}

-----------------------------------------------------------------------------
(* Runs, their lists of steps computed by FlowPlanning.                      *)

X == INSTANCE FlowPlanning WITH
  TaskOptions    <- [t \in {<<"pre_", "deploy">>, <<"deploy">>, <<"update">>, <<"report">>}
                       |-> <<>>],
  RuntimeOptions <- <<>>,
  Skip           <- {},
  Unconditional  <- NoWhen

\* The coordinator's list, with of the options only what they refer to.
Listed(main) ==
  LET list == X!Sorted(X!VisitAll(main, Main).steps)
  IN [n \in DOMAIN list |->
       [step_num |-> list[n].step_num, flow |-> list[n].flow, path |-> list[n].path,
        skip |-> list[n].skip, when |-> list[n].when,
        allow_failure |-> list[n].allow_failure,
        refs |-> {Tail(list[n].options[o]) : o \in DOMAIN list[n].options}]]

Dependencies == <<"dep", "endencies">>
Dep == <<"dep">>
Deploy == <<"deploy">>

\* Every sub-flow once; the name of one begins with the other's, the name of one
\* task ends with the other's.
MCFlow ==
  (Main :>
     <<When(Task(<<1>>, <<"pre_", "deploy">>), "c2"),
       When(Sub(<<3>>, Dep), "c1"),
       When(Sub(<<2>>, Dependencies), "c3"),
       Task(<<4>>, NoneName),
       Ignoring(Reading(Task(<<5>>, <<"report">>), Deploy))>>) @@
  (Dependencies :>
     <<When(Task(<<1>>, <<"update">>), "c2"),
       Ignoring(Reading(Task(<<2>>, Deploy), Deploy))>>) @@
  (Dep :> <<Task(<<1>>, Deploy)>>)

Entry(number, isFlow, path, skip, when, ignore, refs) ==
  [step_num |-> number, flow |-> isFlow, path |-> path, skip |-> skip,
   when |-> when, allow_failure |-> ignore, refs |-> refs]

\* The list of the flow above, spelled out so that TLC computes it once.
MCSteps ==
  <<Entry(<<1>>, FALSE, <<"pre_", "deploy">>, FALSE, "c2", FALSE, {}),
    Entry(<<2>>, TRUE, Dependencies, FALSE, "c3", FALSE, {}),
    Entry(<<2, -1, 1>>, FALSE, Dependencies \o <<".", "update">>, FALSE, "c2", FALSE, {}),
    Entry(<<2, -1, 2>>, FALSE, Dependencies \o <<".", "deploy">>, FALSE, NoWhen, TRUE,
          {Deploy}),
    Entry(<<3>>, TRUE, Dep, FALSE, "c1", FALSE, {}),
    Entry(<<3, -1, 1>>, FALSE, Dep \o <<".", "deploy">>, FALSE, NoWhen, FALSE, {}),
    Entry(<<4>>, FALSE, NoneName, TRUE, NoWhen, FALSE, {}),
    Entry(<<5>>, FALSE, <<"report">>, FALSE, NoWhen, TRUE, {Deploy})>>

ASSUME MCStepsAreListed == MCSteps = Listed(MCFlow)

ASSUME MCPathsTellFlows == PathsTellFlows(MCSteps)

\* One sub-flow, used when c1 and, a step later, whatever c1.
MCTwice == Listed(
  (Main :> <<When(Sub(<<1>>, Dep), "c1"), Sub(<<2>>, Dep)>>) @@
  (Dep :> <<Task(<<1>>, Deploy)>>))

-----------------------------------------------------------------------------
(* Files: those of CumulusCI, of the project and of the user for it, with a step *)
(* of one flow, or with a task; or two plugins.                                  *)

Entry0(S) == {None} \cup S
StepDict(task, flow, when, o) ==
  LET all == [task |-> task, flow |-> flow, when |-> when,
              options |-> IF o = None THEN None ELSE Dict([o |-> o])]
  IN Dict([k \in {q \in DOMAIN all : all[q] # None} |-> all[k]])
FlowFile(step) == Dict([flows |-> Dict([f |-> Dict([steps |-> Dict([n \in {"1"} |-> step])])])])
Described == Dict([flows |-> Dict([f |-> Dict([description |-> Scalar("d")])])])

UniversalFiles ==
  {FlowFile(StepDict(k[1], k[2], w, o)) :
     k \in {<<Scalar("tu"), None>>, <<None, Scalar("fu")>>},
     w \in Entry0({Scalar("wu")}), o \in Entry0({Scalar("ou")})} \cup {Dict([flows |-> Empty])}

StepFiles(l) ==
  {FlowFile(StepDict(t, f, None, v)) :
     t \in Entry0({Scalar("t" \o l), Word}), f \in Entry0({Scalar("f" \o l), Word}),
     v \in Entry0({Scalar("o" \o l)})}

TaskFile(t) == Dict([tasks |-> Dict([t |-> t])])
OptionValues(l) == {None, Scalar(l), List(<<Scalar(l \o "1"), Scalar(l \o "2")>>), Dict([k |-> Scalar(l)])}
OptionsOf(v) == Dict(IF v = None THEN <<>> ELSE [o |-> v])
TaskFiles(l) ==
  {TaskFile(None), TaskFile(Empty)} \cup
  {TaskFile(Dict([options |-> OptionsOf(v)])) : v \in OptionValues(l) \ {None}}
WithClass(v) == TaskFile(Dict([class_path |-> Scalar("c"), options |-> OptionsOf(v)]))

Plugins ==
  <<TaskFile(Dict([class_path |-> Scalar("a")])),
    Dict([tasks |-> Dict([s |-> Dict([class_path |-> Scalar("b")])])])>>

Three(u, p, l) ==
  [plugins |-> <<>>,
   layers |-> [universal_config |-> u, project_config |-> p, project_local_config |-> l]]

MCMergeWorlds ==
  {Three(u, p, l) : u \in UniversalFiles, p \in StepFiles("p") \cup {Described, Empty},
                    l \in StepFiles("l") \cup {Empty}} \cup
  {Three(WithClass(v), p, l) : v \in OptionValues("u"), p \in TaskFiles("p"), l \in TaskFiles("l")} \cup
  {[plugins |-> Plugins, layers |-> <<>>]}

-----------------------------------------------------------------------------
(* Installation plans: two, with each kind of step; one that cannot be frozen after *)
(* one that can; one for orgs that are none; one of a product that is not there.    *)

PStep(n, kind, name) == [number |-> n, kind |-> kind, name |-> name, skip |-> FALSE, parts |-> <<>>]
Part(name, managed, dir) == [name |-> name, managed |-> managed, dir |-> dir]
NeedsPackages == [PStep(1, "dependencies", "d") EXCEPT !.parts = <<Part("base", TRUE, FALSE), Part("src", FALSE, FALSE)>>]
Bundled == [PStep(2, "bundles", "b") EXCEPT
  !.parts = <<Part("pre", FALSE, TRUE), Part("README", FALSE, FALSE), Part("post", FALSE, TRUE)>>]
PPlan(name, work, providers) == [name |-> name, steps |-> work, providers |-> providers]
Installed(product, plans) == [product |-> product, plans |-> plans]
TwoPlans == Installed(TRUE,
  <<PPlan("p", <<NeedsPackages, Bundled, PStep(3, "deploy", "u")>>, <<>>),
    PPlan("q", <<PStep(1, "package", "pkg"), [PStep(2, "task", "t") EXCEPT !.skip = TRUE],
                 PStep(3, "snapshot", "s"), PStep(4, "task", "v")>>, <<"devhub", "user">>)>>)
MCPlanWorlds ==
  {TwoPlans,
   Installed(TRUE, <<PPlan("p", <<NeedsPackages>>, <<"devhub">>), PPlan("q", <<PStep(1, "flow", "f")>>, <<"user">>)>>),
   Installed(TRUE, <<PPlan("q", <<PStep(1, "task", "t")>>, <<"user", "user">>)>>),
   Installed(FALSE, <<PPlan("q", <<PStep(1, "task", "t")>>, <<"user">>)>>)}

Asks(task, opts) == [task |-> task, options |-> opts]
CheckOf(project, uses) == [project |-> project, uses |-> uses]
TwoProjects ==
  <<CheckOf("root", <<Asks("a", 1)>>), CheckOf("other", <<Asks("a", 1), Asks("b", 1)>>),
    CheckOf("root", <<Asks("a", 2), Asks("b", 1)>>), CheckOf("other", <<Asks("a", 1), Asks("b", 1)>>)>>
MCCheckWorlds == {TwoProjects, <<CheckOf("root", <<Asks("a", 1)>>), CheckOf("root", <<Asks("a", 1)>>)>>}

-----------------------------------------------------------------------------
(* Dependencies: chains, a cycle and a fork of three repositories; of B there  *)
(* is a managed package, of A only source, and of C one of three things. *)

MCRepo == {"A", "B", "C"}
Rep(r) == [kind |-> "repo", repo |-> r, at |-> "", tag |-> NoTag, ref |-> NoRef, pkg |-> NoPackage, unmanaged |-> FALSE, skip |-> {}]
Pkg(r, by, v) == [Rep(r) EXCEPT !.kind = "package", !.pkg = [repo |-> r, by |-> by, version |-> v]]
MCVersion == [s \in Strategy \cup {"v1", "v2"} |->
  CASE s = "v1" -> 1 [] s \in {"v2", "latest_release"} -> 2 [] s = "latest_beta" -> 3 [] s \in CommitStatus -> 4 [] OTHER -> 0]

NothingFound == [s \in Strategy |-> "nothing"]
ManagedPackage == [NothingFound EXCEPT !["latest_release"] = "namespace", !["latest_beta"] = "namespace",
                      !["tag"] = "namespace", !["unmanaged"] = "source"]
SecondGeneration == [NothingFound EXCEPT !["latest_release"] = "namespace", !["commit_status_default_branch"] = "id",
                     !["commit_status_exact_branch"] = "error", !["tag"] = "error", !["unmanaged"] = "source"]
OnlySource == [NothingFound EXCEPT !["unmanaged"] = "source"]
LostCommit == [NothingFound EXCEPT !["commit_status_release_branch"] = "missing"]
MCStack == <<"tag", "commit_status_exact_branch", "commit_status_release_branch",
           "commit_status_default_branch", "latest_beta", "latest_release", "unmanaged">>

RepoOf(ds, namespaced, around, folders) ==
  [deps |-> ds, namespaced |-> namespaced, flows |-> around, folders |-> folders]
Chain == [r \in MCRepo |->
  CASE r = "A" -> RepoOf(<<Rep("B")>>, FALSE, {}, {"pre"}) [] r = "B" -> RepoOf(<<Rep("C")>>, TRUE, {"post"}, {"pre"})
    [] r = "C" -> RepoOf(<<>>, TRUE, {"pre"}, {"post"})]
Cycle == [Chain EXCEPT !["C"].deps = <<Rep("B")>>]
Fork == [Chain EXCEPT !["A"].deps = <<Rep("C"), Rep("B")>>, !["B"].deps = <<Pkg("C", "namespace", 1)>>]
Wanteds == {<<Rep("A")>>, <<Rep("C"), Rep("A")>>, <<Rep("B"), [Rep("A") EXCEPT !.skip = {"pre"}]>>,
            <<[Rep("A") EXCEPT !.tag = "v1"], Pkg("C", "id", 1)>>, <<[Rep("C") EXCEPT !.unmanaged = TRUE]>>}
DepWorld(repos, wanted, c, scratch, force, ignored, packages, pinned) ==
  [repos |-> repos, wanted |-> wanted, found |-> ("A" :> OnlySource) @@ ("B" :> ManagedPackage) @@ ("C" :> c),
   stack |-> MCStack, beta |-> IF scratch THEN "no" ELSE "unset", prefer2gp |-> "unset", scratch |-> scratch,
   onRelease |-> TRUE, force |-> force, ignored |-> ignored, ignoredPackages |-> packages,
   pins |-> [r \in MCRepo |-> IF r = "B" THEN pinned ELSE NoTag]]
FirstDepWorld == DepWorld(Chain, <<Rep("A")>>, ManagedPackage, TRUE, FALSE, {}, {}, NoTag)
\* A commit is lost in chains only, and something is ignored or the installation forced.
RepoChoices == ({Chain, Cycle, Fork} \X {ManagedPackage, SecondGeneration}) \cup {<<Chain, LostCommit>>}
OptionChoices == {<<FALSE, {}, {}, NoTag>>, <<FALSE, {"C"}, {}, "v2">>, <<FALSE, {}, {"C"}, NoTag>>, <<TRUE, {}, {}, NoTag>>}
MCDepWorlds ==
  {DepWorld(r[1], w, r[2], scratch, o[1], o[2], o[3], o[4]) :
     r \in RepoChoices, w \in Wanteds, o \in OptionChoices, scratch \in BOOLEAN}

\* The list of steps that a flow stands for, and the steps that a published plan freezes, are
\* those the configuration means, in its order: flowrunner.py, metadeploy.py.
ListsAreSound == ListIsSound /\ FrozenAsTheFlow

\* What is installed is all that is needed, each thing once, chosen by the first
\* strategy that finds it, after what it needs, and again after a failure.
DependenciesAreSound ==
  /\ DepTypeOK
  /\ NeededComeFirst /\ OnlyCyclesExceedTheLimit /\ IgnoredStayAway /\ ChosenOnceByTheFirst
  /\ FirstRunIsComplete /\ UpToDateStays /\ ForcedRunIsComplete

-----------------------------------------------------------------------------

FlowsInit ==
  /\ subject \in {"plan", "run", "merge", "publish", "checks", "dependencies"}
  /\ Init
  /\ PlanInit
  /\ subject = "run" \/ holds = [c \in Condition |-> "true"]
  /\ subject = "plan" \/ declared = CHOOSE p \in MCProjects : TRUE
  /\ IF subject = "merge" THEN MergeConfigInit ELSE Load([plugins |-> <<>>, layers |-> <<>>])
  /\ InstallInit /\ PreflightInit
  /\ subject = "publish" \/ installation = TwoPlans
  /\ subject = "checks" \/ checks = TwoProjects
  /\ IF subject = "dependencies" THEN DepInit ELSE DepInitOf({FirstDepWorld})

NotPlanned == UNCHANGED <<installVars, preflightVars, depVars>>
FlowsNext ==
  \/ subject = "plan" /\ PlanNext /\ UNCHANGED <<subject, vars, mergeVars>> /\ NotPlanned
  \/ subject = "run" /\ Next /\ UNCHANGED <<subject, planVars, mergeVars>> /\ NotPlanned
  \/ subject = "merge" /\ MergeConfigNext /\ UNCHANGED <<subject, vars, planVars>> /\ NotPlanned
  \/ subject = "publish" /\ InstallNext /\ UNCHANGED <<subject, vars, planVars, mergeVars, preflightVars, depVars>>
  \/ subject = "checks" /\ PreflightNext /\ UNCHANGED <<subject, vars, planVars, mergeVars, installVars, depVars>>
  \/ subject = "dependencies" /\ DepNext
     /\ UNCHANGED <<subject, vars, planVars, mergeVars, installVars, preflightVars>>

FlowsSpec == FlowsInit /\ [][FlowsNext]_<<subject, vars, planVars, mergeVars, installVars, preflightVars, depVars>>

\* One thread resolves and installs, and every request returns or raises.
FairFlowsSpec == FlowsSpec /\ WF_depVars(subject = "dependencies" /\ DepStep)
=============================================================================
