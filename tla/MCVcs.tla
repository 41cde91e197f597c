------------------------------- MODULE MCVcs -------------------------------
(***************************************************************************)
(* Branches, versions and what is published between repositories. A behaviour *)
(* is one of one component.                                                *)
(***************************************************************************)
EXTENDS BranchMerge, ReleaseBranches, SourceTracking, Publishing, ProjectSources

VARIABLE subject   \* the component this behaviour is about

-----------------------------------------------------------------------------
(* Branches: main, a release with a child, a feature of the next. *)

Br(kind, p) == [kind |-> kind, path |-> p]
MCBranch == {Main, Br("release", <<"1">>), Br("release", <<"1", "a">>), Br("feature", <<"2">>)}
MCNumber == ("1" :> 1) @@ ("2" :> 2)
MCOptions == {[skip |-> b, future |-> TRUE, sprint |-> b, pull |-> p] : b \in BOOLEAN, p \in BOOLEAN}

-----------------------------------------------------------------------------
(* Release branches. *)

Token0 == [t \in Token |-> 0]
Id(values, width) == [prefixed |-> FALSE, value |-> values, width |-> width]
ByNumber == [type |-> "integer", pattern |-> <<"n">>, prefix |-> FALSE, sprints |-> 1,
             first |-> Id([Token0 EXCEPT !["n"] = 9], Token0)]
BySprint == [type |-> "date", pattern |-> <<"yy", "q", "n">>, prefix |-> TRUE, sprints |-> 2,
             first |-> [Id([Token0 EXCEPT !["yy"] = 26, !["q"] = 4, !["n"] = 1],
                           [t \in Token |-> Written(t)]) EXCEPT !.prefixed = TRUE]]
ByMonth == [type |-> "date", pattern |-> <<"yyyy", "mm">>, prefix |-> FALSE, sprints |-> 1,
            first |-> Id([Token0 EXCEPT !["yyyy"] = 2025, !["mm"] = 11], [t \in Token |-> Written(t)])]
MCFormats == {ByNumber, BySprint}
MCPaths == {<<>>, <<"a">>, <<"a", "b">>}

-----------------------------------------------------------------------------
(* What is published, and promoted. *)

File(dir, name, dot) == [dir |-> dir, name |-> name, dot |-> dot]
MCPath == {File("d", "a", FALSE), File("e", "a", FALSE)}
MCStartsWith == "d" :> {"d", "dx"}
MCExcludes == {{}}
MCNeeds == ("base" :> <<>>) @@ ("old" :> <<"base">>) @@ ("mid" :> <<"base">>) @@ ("top" :> <<"base", "old", "mid">>)

-----------------------------------------------------------------------------
(* Sources: A, of which B and a folder are sources, and B, which both use. *)

Sp(repo, by, code) == [repo |-> repo, by |-> by, what |-> 0, code |-> code]
MCSourcesOf == ("root" :> {Sp("A", "previous", FALSE), Sp("B", "branch", TRUE)})
  @@ ("A" :> {Sp("B", "branch", TRUE), Sp("F", "folder", TRUE)}) @@ ("B" :> {}) @@ ("F" :> {})
Here == [detect |-> FALSE, heroku |-> FALSE, testBranch |-> "none", testCommit |-> 0,
          branch |-> "none", commit |-> 0, url |-> FALSE, worktree |-> FALSE]
Built == [Here EXCEPT !.detect = TRUE, !.heroku = TRUE, !.testBranch = "main", !.url = TRUE]
MCEnvirons == {Here, [Here EXCEPT !.worktree = TRUE], Built, [Built EXCEPT !.testCommit = 2],
               [Here EXCEPT !.detect = TRUE, !.branch = "f"]}

\* Commits go downstream only, and once nothing is left to build every branch has
\* all its parent has, a pull request waits to bring it, or the parent's last build
\* failed, or its last merge met a conflict that left no pull request.
BranchesAreSound == MergeTypeOK /\ OnlyDownstream /\ QuietMeansInSync

\* Going back by names leads to the releases before, and the package of a commit is
\* that of the nearest branch by those names.
ReleasesAreFound == ReleaseTypeOK /\ PreviousIsTheOneBefore /\ FindsNearest

\* Tags agree between the repositories, and packages are promoted in order.
PublishingIsSound ==
  /\ PublishTypeOK /\ PromotionTypeOK
  /\ TagsAgree /\ DependenciesPromotedFirst

Init ==
  /\ subject \in {"merge", "releases", "tracking", "publishing", "sources", "checkout",
      "promotion"}
  /\ MergeInit
  /\ (subject = "merge" \/ (mergeOption = [skip |-> TRUE, future |-> TRUE, sprint |-> TRUE, pull |-> TRUE]))
  /\ ReleaseInit
  /\ (subject = "releases" \/ (format = ByNumber /\ path = <<>>))
  /\ TrackingInit
  /\ PublishInit
  /\ SourcesInit
  /\ CheckoutInit
  /\ (subject = "checkout" \/ (reader.env.worktree = FALSE /\ reader.env.detect = FALSE /\ git.head = "main" /\ git.hasPacked))
  /\ PromotionInit

Next ==
  \/ /\ subject = "merge" /\ MergeNext
     /\ UNCHANGED <<subject, releaseVars, trackingVars, pubVars, sourceVars, checkoutVars,
                     promotionVars>>
  \/ /\ subject = "releases" /\ ReleaseNext
     /\ UNCHANGED <<subject, branchVars, trackingVars, pubVars, sourceVars, checkoutVars,
                     promotionVars>>
  \/ /\ subject = "tracking" /\ TrackingNext
     /\ UNCHANGED <<subject, branchVars, releaseVars, pubVars, sourceVars, checkoutVars,
                     promotionVars>>
  \/ /\ subject = "publishing" /\ PublishNext
     /\ UNCHANGED <<subject, branchVars, releaseVars, trackingVars, sourceVars, checkoutVars,
                     promotionVars>>
  \/ /\ subject = "sources" /\ SourcesNext
     /\ UNCHANGED <<subject, branchVars, releaseVars, trackingVars, pubVars, checkoutVars,
                     promotionVars>>
  \/ /\ subject = "checkout" /\ CheckoutNext
     /\ UNCHANGED <<subject, branchVars, releaseVars, trackingVars, pubVars, sourceVars,
                     promotionVars>>
  \/ /\ subject = "promotion" /\ PromotionNext
     /\ UNCHANGED <<subject, branchVars, releaseVars, trackingVars, pubVars, sourceVars,
                     checkoutVars>>

Spec == Init /\ [][Next]_<<subject, branchVars, releaseVars, trackingVars, pubVars,
          sourceVars, checkoutVars, promotionVars>>
=============================================================================
