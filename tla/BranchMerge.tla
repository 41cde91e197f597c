---------------------------- MODULE BranchMerge ----------------------------
(* The automatic merging of branches. A build of a branch that passes ends    *)
(* with the merge task: it lists the branches, chooses those that follow its  *)
(* own and merges its commit into them one by one; each merge is a commit,    *)
(* and so a build, of its own. A merge that conflicts becomes a pull request, *)
(* or nothing: if the project wants none, or the request for it fails.        *)
(* People push, open branches, finish them and merge pull requests meanwhile. *)
EXTENDS Integers, Sequences, FiniteSets

CONSTANTS
  Branch,     \* records of a kind, the prefix, and a path: what the name is split into at "__"
  Number,     \* the order of the first parts that are release identifiers; 0 for others
  Build,      \* builds that run at once
  MergeOptions, \* how projects set the options of the merge tasks
  MaxCommits

Main == [kind |-> "main", path |-> <<>>]

ASSUME BranchAssumption ==
  /\ MergeOptions \subseteq [skip : BOOLEAN, future : BOOLEAN, sprint : BOOLEAN, pull : BOOLEAN]
  /\ Main \in Branch /\ MaxCommits \in Nat
  /\ \A b \in Branch \ {Main} : b.kind \in {"feature", "release"} /\ b.path # <<>>
  /\ \A b \in Branch \ {Main} : Number[b.path[1]] \in Nat

VARIABLES
  mergeOption,  \* the options of the merge tasks
  commits,      \* the commits of each branch
  alive,        \* the branches there are
  waiting,      \* the branches with a commit not built yet
  building,     \* the builds that run: their branch, its commits, the branches left to merge into
  pulls,        \* the open pull requests, as base and head
  dropped,      \* history: conflicts that left nothing, as base and head, until all the head has
                \* is merged or in a pull request
  pushed,       \* history: where each commit was pushed
  lifted,       \* history: commits taken along when a branch was finished
  unmerged      \* history: branches with a build that failed, and no later one that merged all they have

branchVars == <<mergeOption, commits, alive, waiting, building, pulls, dropped, pushed, lifted, unmerged>>

NoBuild == [source |-> Main, commit |-> {}, left |-> {}, runs |-> FALSE]
Commit == 1..MaxCommits

MergeTypeOK ==
  /\ mergeOption \in MergeOptions
  /\ commits \in [Branch -> SUBSET Commit] /\ alive \subseteq Branch /\ waiting \subseteq alive
  /\ building \in [Build -> [source : Branch, commit : SUBSET Commit, left : SUBSET Branch, runs : BOOLEAN]]
  /\ pulls \subseteq Branch \X Branch /\ dropped \subseteq Branch \X Branch
  /\ pushed \in Seq(Branch) /\ lifted \subseteq Commit /\ unmerged \subseteq Branch

MergeInit ==
  /\ mergeOption \in MergeOptions
  /\ commits = [b \in Branch |-> {}] /\ alive = Branch /\ waiting = {}
  /\ building = [w \in Build |-> NoBuild] /\ pulls = {} /\ dropped = {} /\ pushed = <<>>
  /\ lifted = {} /\ unmerged = {}

-----------------------------------------------------------------------------
(* Which branches follow a branch.                                             *)

IsChild(b, s) == b.kind = s.kind /\ Len(b.path) = Len(s.path) + 1 /\ SubSeq(b.path, 1, Len(s.path)) = s.path

NumberOf(b) == Number[b.path[1]]

\* The release branches with a prefix.
_is_release_branch(b, kind) == b.kind = kind /\ Len(b.path) = 1 /\ NumberOf(b) # 0
Releases(kind) == {b \in alive : _is_release_branch(b, kind)}

Lowest(S) == {b \in S : \A c \in S : NumberOf(b) <= NumberOf(c)}

_update_future_releases(s) == mergeOption.future /\ s \in Lowest(Releases(s.kind))

_is_future_release_branch(b, s, kind) == b \in Releases(kind) \ (Lowest(Releases(kind)) \cup {s})

\* From main: branches that are no children, of the releases the lowest only if so asked.
Followers(s) ==
  IF s = Main
  THEN {b \in alive : /\ b.kind = "feature" /\ Len(b.path) = 1
                      /\ ~(mergeOption.skip /\ _is_future_release_branch(b, s, "feature"))}
  ELSE {b \in alive : IsChild(b, s)}

NextRelease(s) ==
  IF _update_future_releases(s)
  THEN Lowest({b \in alive : _is_future_release_branch(b, s, s.kind)}) ELSE {}

\* The task of the release branches only.
NextSprintOfAny(s) ==
  IF mergeOption.sprint /\ s.kind = "release" THEN Lowest(Releases("feature")) ELSE {}
NextSprint(s) ==
  IF mergeOption.sprint /\ s.kind = "release" /\ s \in Releases("release")
  THEN Lowest(Releases("feature")) ELSE {}

_get_branches_to_merge(s) == Followers(s) \cup NextRelease(s) \cup NextSprint(s)

-----------------------------------------------------------------------------
(* Builds.                                                                     *)

StartBuild(w, b) ==
  /\ ~building[w].runs /\ b \in waiting /\ waiting' = waiting \ {b}
  /\ building' = [building EXCEPT ![w] = [NoBuild EXCEPT !.source = b, !.commit = commits[b], !.runs = TRUE]]
  /\ UNCHANGED <<mergeOption, commits, alive, pulls, dropped, pushed, lifted, unmerged>>

\* A build whose tests do not pass merges nothing.
BuildFails(w) ==
  /\ building[w].runs /\ building[w].left = {}
  /\ building' = [building EXCEPT ![w] = NoBuild] /\ unmerged' = unmerged \cup {building[w].source}
  /\ UNCHANGED <<mergeOption, commits, alive, waiting, pulls, dropped, pushed, lifted>>

\* A source branch deleted since fails the task.
RunMergeBranch(w) ==
  LET s == building[w].source  to == _get_branches_to_merge(s) IN
  /\ building[w].runs /\ building[w].left = {} /\ s \in alive
  /\ building' = [building EXCEPT ![w] = IF to = {} THEN NoBuild ELSE [@ EXCEPT !.left = to]]
  /\ unmerged' = IF commits[s] \subseteq building[w].commit THEN unmerged \ {s} ELSE unmerged
  /\ UNCHANGED <<mergeOption, commits, alive, waiting, pulls, dropped, pushed, lifted>>

\* An open pull request from the branch is enough.
_get_existing_prsOfAny(b, s) == \E p \in pulls : p[1] = b
_get_existing_prs(b, s) == <<b, s>> \in pulls

\* An error of the request for a pull request is logged and goes no further.
_create_conflict_pull_request(b, s) ==
  \/ /\ pulls' = IF _get_existing_prs(b, s) THEN pulls ELSE pulls \cup {<<b, s>>}
     /\ dropped' = dropped \ {<<b, s>>}
  \/ ~_get_existing_prs(b, s) /\ UNCHANGED pulls /\ dropped' = dropped \cup {<<b, s>>}

Conflict(b, s) == commits[b] \ commits[s] # {}

MergeConflicts(b, s) ==
  /\ Conflict(b, s) /\ UNCHANGED <<commits, waiting>>
  /\ IF mergeOption.pull THEN _create_conflict_pull_request(b, s)
     ELSE UNCHANGED pulls /\ dropped' = dropped \cup {<<b, s>>}

\* A merge into a branch deleted since ends the task with its other merges undone.
_merge(w, b) ==
  LET u == building[w]  rest == u.left \ {b}
      settled == IF commits[u.source] \subseteq u.commit THEN dropped \ {<<b, u.source>>} ELSE dropped IN
  /\ u.runs /\ b \in u.left
  /\ building' = [building EXCEPT ![w] = IF rest = {} \/ b \notin alive THEN NoBuild
                                         ELSE [@ EXCEPT !.left = rest]]
  /\ unmerged' = IF b \in alive THEN unmerged ELSE unmerged \cup {u.source}
  /\ \/ b \notin alive /\ UNCHANGED <<commits, waiting, pulls, dropped>>
     \/ /\ b \in alive /\ u.commit \subseteq commits[b] /\ dropped' = settled
        /\ UNCHANGED <<commits, waiting, pulls>>
     \/ /\ b \in alive /\ ~(u.commit \subseteq commits[b])
        /\ \/ /\ commits' = [commits EXCEPT ![b] = @ \cup u.commit]
              /\ waiting' = waiting \cup {b} /\ dropped' = settled /\ UNCHANGED pulls
           \/ MergeConflicts(b, u.source)
  /\ UNCHANGED <<mergeOption, alive, pushed, lifted>>

-----------------------------------------------------------------------------
(* People.                                                                     *)

PushCommit(b) ==
  /\ b \in alive /\ Len(pushed) < MaxCommits
  /\ pushed' = Append(pushed, b)
  /\ commits' = [commits EXCEPT ![b] = @ \cup {Len(pushed) + 1}] /\ waiting' = waiting \cup {b}
  /\ UNCHANGED <<mergeOption, alive, building, pulls, dropped, lifted, unmerged>>

ParentsOf(b) == IF Len(b.path) = 1 THEN {Main} ELSE {p \in alive \ {Main} : IsChild(b, p)}

Close(b, S) == {p \in S : b \notin {p[1], p[2]}}

\* A branch is merged into its parent and deleted.
FinishBranch(b) ==
  /\ b \in alive \ {Main}
  /\ \E p \in ParentsOf(b) :
       /\ commits' = [commits EXCEPT ![p] = @ \cup commits[b], ![b] = {}]
       /\ waiting' = (waiting \cup {p}) \ {b}
  /\ alive' = alive \ {b} /\ pulls' = Close(b, pulls) /\ dropped' = Close(b, dropped)
  /\ lifted' = lifted \cup commits[b]
  /\ unmerged' = unmerged \ {b}
  /\ UNCHANGED <<mergeOption, building, pushed>>

\* A pull request that conflicted is resolved and merged.
MergePull(p) ==
  /\ p \in pulls /\ pulls' = pulls \ {p} /\ dropped' = dropped \ {p}
  /\ commits' = [commits EXCEPT ![p[1]] = @ \cup commits[p[2]]] /\ waiting' = waiting \cup {p[1]}
  /\ UNCHANGED <<mergeOption, alive, building, pushed, lifted, unmerged>>

MergeNext ==
  \/ \E w \in Build : \/ BuildFails(w) \/ RunMergeBranch(w)
                      \/ \E b \in Branch : StartBuild(w, b) \/ _merge(w, b)
  \/ \E b \in Branch : PushCommit(b) \/ FinishBranch(b)
  \/ \E p \in pulls : MergePull(p)

MergeSpec == MergeInit /\ [][MergeNext]_branchVars

-----------------------------------------------------------------------------
(* Properties.                                                                 *)

\* What may follow what, by the names alone.
Follows(s, b) ==
  \/ s = Main /\ b.kind = "feature" /\ Len(b.path) = 1
  \/ s # Main /\ IsChild(b, s)
  \/ /\ s # Main /\ b # Main /\ Len(s.path) = 1 /\ Len(b.path) = 1
     /\ NumberOf(s) # 0 /\ NumberOf(b) # 0
     /\ \/ s.kind = b.kind /\ NumberOf(s) < NumberOf(b)
        \/ s.kind = "release" /\ b.kind = "feature"
\* A branch and all that follow it, directly or not: the least set that is closed.
Closed(S) == \A s \in S, b \in Branch : Follows(s, b) => b \in S
Downstream == [s \in Branch |-> {b \in Branch : \A S \in SUBSET Branch : s \in S /\ Closed(S) => b \in S}]

\* "Commits never propagate in the opposite direction": what was pushed to a branch is
\* only in branches that follow it, directly or not, until people finish a branch.
OnlyDownstream ==
  \A b \in alive : \A c \in commits[b] \ lifted : b \in Downstream[pushed[c]]

\* When nothing is left to build, every branch has all its parent has, unless the parent's
\* last build did not get to merge, an open pull request waits to bring it, or the last merge
\* of all the parent has met a conflict for which there is none: an older build, an earlier
\* conflict, a pull request of another branch or a branch that is gone are no excuse.
QuietMeansInSync ==
  (waiting = {} /\ \A w \in Build : ~building[w].runs) =>
    \A s \in alive \ unmerged : \A b \in Followers(s) :
      commits[s] \subseteq commits[b] \/ <<b, s>> \in pulls \cup dropped

\* Does not hold.  "If true, then create a pull request when a merge conflict arises"
\* (merge.py:48): a request that fails is logged by the adapter (adapter.py:462), the task
\* passes, and nothing brings the commits before the next push to the branch.
ConflictsBecomePulls == mergeOption.pull => dropped = {}

\* docs/cumulusci-flow.md:346: with update_future_releases "all release branches propagate
\* commits they receive to other existing release branches that correspond to future releases".
FutureReleasesInSync ==
  (mergeOption.future /\ waiting = {} /\ pulls \cup dropped = {} /\ unmerged = {} /\
   \A w \in Build : ~building[w].runs) =>
    \A s \in Releases("feature") : \A b \in Releases("feature") :
      NumberOf(s) < NumberOf(b) => commits[s] \subseteq commits[b]
=============================================================================
