---------------------------- MODULE MCRequests ----------------------------
(***************************************************************************)
(* The components that make requests to an org and wait for the answers.   *)
(* A behaviour is one of one component.                                    *)
(***************************************************************************)
EXTENDS PackageInstall, PackageVersion, PushUpgrade, ApexTests, MetadataEdit,
  PackageContents

VARIABLE subject   \* the component this behaviour is about

\* Nothing is asked for while what was asked for before may still happen, what
\* returned has happened once, and no link of a chain of jobs is missed: the two
\* components that wait by BaseTask._retry and BaseTask._poll.
WaitsAreSound ==
  /\ InstallTypeOK /\ BatchTypeOK
  /\ OneRequestAtATime /\ ReturnedMeansInstalledOnce /\ AttemptsBounded
  /\ PassedWithTheWholeChain /\ IntervalFollowsCount

\* A package version is its project's, is made once for its content, and comes
\* after what it depends on, when it is created and when it is released; a push
\* reaches the orgs chosen less those refused, or none.
VersionsAreSound ==
  /\ VersionTypeOK /\ PushTypeOK
  /\ VersionIsOwn /\ DependenciesComeFirst /\ OncePerContent /\ ReleasedInOrder
  /\ PushedIsChosenLessRefused /\ FailedPushesNothing

\* The outcome of an Apex test run is that of the last run of each method, and of
\* the coverage of each class; a run of what has changed is of that.
ApexIsSound ==
  /\ ApexTypeOK
  /\ PassedWithoutFailures /\ LastOutcomeCounts /\ CoverageIsEnforced
  /\ ChangesAreTested

\* Every wait ends (CallEnds, ReportEnds, ApexEnds and WaitEnds at once: where one is about,
\* the others' components are idle); no push takes an org back, and no run of tests is repeated
\* that should not be.
RequestsMoveOn ==
  /\ NeverBackwards /\ RetriedOnlyIfAllMatch
  /\ (callPc # "idle" \/ pushPc = "report" \/ apexPc # "idle" \/ batchPc # "idle")
       ~> (\/ callPc = "ended" \/ (pushPc = "done" /\ seen = request)
           \/ apexPc \in {"passed", "failed"} \/ batchPc \in {"passed", "failed"})

\* Where the edits start in the behaviours of another component.
EditAtRest ==
  /\ editKind = "action" /\ editOption = [name |-> "x", first |-> TRUE] /\ editNames = {"A"}
  /\ orgFiles = [e \in {"A"} |-> <<>>]

\* What a deployment sends is what its list says, what is deleted is not what is
\* kept, and what a preparation takes out of the sources is not lost before the revert.
SourcesAreSound == ContentsAreSound /\ RevertIsSafe

\* Groups of files of one directory: a class with any token in its name, objects and their
\* fields with and without a namespace, reports in folders, a component of Lightning, and what a
\* managed package only may have.
MCGroups == {
  {{File("classes", t \o <<"A">>, "", {})} : t \in {<<>>, <<"N">>, <<"O">>, <<"S">>, <<"M">>}},
  {{File("objects", <<"Obj">>, "", {Component("CustomField", <<"f">>), Component("RecordType", <<"n", "r">>)})}},
  {{File("objects", <<"N", "P">>, "", {Component("CustomField", <<"n", "g">>)})},
   {File("objects", <<"P">>, "", {Component("CustomField", <<"g">>)})}},
  {{File("objects", <<o>>, "", {Component("CustomField", <<"h">>)})} : o \in {"Account", "CodeSet"}},
  {{File("reports", <<"S", "F">>, "r", {})}, {File("reports", <<"F">>, "r", {}), File("reports", <<"F">>, Meta, {})}},
  {{File("lwc", <<"c">>, "js", {}), File("lwc", <<"c">>, "__tests__", {}), File("lwc", <<"__mocks__">>, "js", {})}},
  {{File("featureParameters", <<"p">>, "", {}), File("classes", <<"N", "B">>, "", {})}}}
How(namespace, managed, namespaced_org, package_type, static_resources) ==
  [namespace |-> namespace, managed |-> managed, namespaced_org |-> namespaced_org,
   package_type |-> package_type, static_resources |-> static_resources]
MCHows == {How(TRUE, TRUE, FALSE, "Managed", "with meta"), How(TRUE, TRUE, TRUE, "Managed", "none"),
           How(TRUE, FALSE, TRUE, "Unlocked", "with meta"), How(TRUE, FALSE, FALSE, "Unlocked", "none"),
           How(FALSE, FALSE, FALSE, "Managed", "with meta"), How(TRUE, FALSE, FALSE, "Managed", "without meta")}

\* Where the deployments start in the behaviours of another component.
ContentsAtRest ==
  /\ how = (CHOOSE h \in MCHows : ~h.namespace) /\ sources = {File("classes", <<"A">>, "", {})}
  /\ stripping = "none" /\ wanted = {}

MCPrepared == [managed |-> [class |-> {"token"}, object |-> {}],
               ee |-> [class |-> {}, object |-> {"element"}]]

MCNeeds ==
  <<[kind |-> "id", package |-> "i"], [kind |-> "unmanaged", package |-> "u"],
    [kind |-> "flow", package |-> "f"], [kind |-> "local", package |-> "l"]>>

MCClassOrder == <<"A", "B">>
MCMethods == [A |-> {"m1"}, B |-> {"m1"}]
MCClassName == [A |-> <<"x", "y", "test">>, B |-> <<"test", "x", "_", "y">>]

\* A file as it is on the parent and the main branch, at HEAD and in the working tree; one that is
\* not tracked; and checkouts with one file.
Content(parent, main, head, work) == [base |-> [parent |-> parent, main |-> main], head |-> head, work |-> work]
Contents ==
  {Content(1, 1, 1, 1), Content(1, 1, 2, 2), Content(1, 1, 2, 1), Content(1, 1, 1, 2), Content(2, 1, 2, 2),
   Content(0, 0, 0, 1)}
SourceFile(dir, words, ext, content) ==
  [dir |-> dir, words |-> words, ext |-> ext, base |-> content.base, head |-> content.head, work |-> content.work,
   tracked |-> content.head # 0]
CheckedOut ==
  {SourceFile(dir, words, "cls", content) : dir \in {<<"force-app", "main">>, <<"src">>, <<"packages", "core">>},
     words \in {<<"x", "_", "y">>, <<"x", "y", "test">>, <<"x">>}, content \in Contents}
    \cup {SourceFile(<<"force-app">>, <<"x">>, ext, Content(1, 1, 1, 2)) : ext \in {"trigger", "cls-meta.xml"}}
MCCheckouts ==
  {[filter |-> filter, default_package_path |-> dir, repo |-> TRUE, candidates |-> <<"parent">>,
    branches |-> branches, refs |-> refs, files |-> {f}] :
     filter \in {"package_only", "delta_changes"}, dir \in {<<"force-app">>, <<"src">>, <<"packages", "core">>},
     branches \in {{"main"}, {"main", "parent"}}, refs \in {{"main"}, {"main", "parent"}}, f \in CheckedOut}
    \cup {[filter |-> "delta_changes", default_package_path |-> <<"src">>, repo |-> FALSE, candidates |-> <<>>,
           branches |-> {}, refs |-> {}, files |-> {}]}

Init ==
  /\ subject \in {"install", "version", "push", "apex", "batch", "edit", "contents",
      "revert"}
  /\ InstallInit
  /\ VersionInit
  /\ PushInit
  /\ ApexInit
  /\ BatchInit
  /\ (subject = "edit" \/ (EditAtRest))
  /\ EditInit
  /\ (subject = "contents" \/ (ContentsAtRest))
  /\ ContentsInit
  /\ (subject = "revert" \/ (preparing = "ee"))
  /\ RevertInit

Next ==
  \/ /\ subject = "install" /\ InstallNext
     /\ UNCHANGED <<subject, versionVars, pushVars, apexVars, batchVars, editVars,
                     contentVars, revertVars>>
  \/ /\ subject = "version" /\ VersionNext
     /\ UNCHANGED <<subject, installVars, pushVars, apexVars, batchVars, editVars,
                     contentVars, revertVars>>
  \/ /\ subject = "push" /\ PushNext
     /\ UNCHANGED <<subject, installVars, versionVars, apexVars, batchVars, editVars,
                     contentVars, revertVars>>
  \/ /\ subject = "apex" /\ ApexNext
     /\ UNCHANGED <<subject, installVars, versionVars, pushVars, batchVars, editVars,
                     contentVars, revertVars>>
  \/ /\ subject = "batch" /\ BatchNext
     /\ UNCHANGED <<subject, installVars, versionVars, pushVars, apexVars, editVars,
                     contentVars, revertVars>>
  \/ /\ subject = "edit" /\ EditNext
     /\ UNCHANGED <<subject, installVars, versionVars, pushVars, apexVars, batchVars,
                     contentVars, revertVars>>
  \/ /\ subject = "contents" /\ ContentsNext
     /\ UNCHANGED <<subject, installVars, versionVars, pushVars, apexVars, batchVars,
                     editVars, revertVars>>
  \/ /\ subject = "revert" /\ RevertNext
     /\ UNCHANGED <<subject, installVars, versionVars, pushVars, apexVars, batchVars,
                     editVars, contentVars>>

Spec == Init /\ [][Next]_<<subject, installVars, versionVars, pushVars, apexVars,
          batchVars, editVars, contentVars, revertVars>>

\* As there is one subject, a step of each kind is a step of its.
ClientStep ==
  \/ subject = "install" /\ CallStep /\ UNCHANGED <<pushVars, apexVars, batchVars>>
  \/ subject = "push" /\ PushStep /\ UNCHANGED <<installVars, apexVars, batchVars>>
  \/ subject = "apex" /\ TaskStep /\ UNCHANGED <<installVars, pushVars, batchVars>>
  \/ subject = "batch" /\ WaitStep /\ UNCHANGED <<installVars, pushVars, apexVars>>
OrgStep ==
  \/ subject = "install" /\ ServerStep /\ UNCHANGED <<pushVars, apexVars, batchVars>>
  \/ subject = "push" /\ ServerPushes /\ UNCHANGED <<installVars, apexVars, batchVars>>
  \/ subject = "apex" /\ ServerRuns /\ UNCHANGED <<installVars, pushVars, batchVars>>
  \/ subject = "batch" /\ JobEnds /\ UNCHANGED <<installVars, pushVars, apexVars>>

FairSpec ==
  /\ Spec
  /\ WF_<<installVars, pushVars, apexVars, batchVars>>(ClientStep)
  /\ WF_<<installVars, pushVars, apexVars, batchVars>>(OrgStep)
=============================================================================
