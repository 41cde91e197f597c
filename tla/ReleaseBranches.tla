-------------------------- MODULE ReleaseBranches --------------------------
(* How a build of a child branch finds the package of a dependency. A release *)
(* branch is named by an identifier, a number or parts of a date, and its     *)
(* children add parts of their own. The dependency has release branches of    *)
(* the same names; a build there writes the package into the status of a      *)
(* commit. The strategies look at the branch of the same name, the parents,   *)
(* the release and previous releases, each up to Look commits back.           *)
EXTENDS Integers, Sequences, FiniteSets, SequencesExt

CONSTANTS
  Formats,     \* the formats of identifiers, each with its first identifier; see BranchFormatAssumption
  Paths,       \* what child branches add
  Look,        \* the commits looked at: 5
  MaxReleases, MaxPushes

Token == {"yyyy", "yy", "mm", "q", "n"}

\* An identifier: the value of each token and the digits it is written with, 0
\* for as many as it takes.
Identifier == [prefixed : BOOLEAN, value : [Token -> Int], width : [Token -> {0, 2, 4}]]

ASSUME BranchFormatAssumption ==
  /\ {Look, MaxReleases, MaxPushes} \subseteq Nat \ {0}
  /\ \A f \in Formats :
       /\ f.type \in {"integer", "sequential", "date"} /\ f.prefix \in BOOLEAN
       /\ Range(f.pattern) \subseteq Token /\ f.sprints \in 1..10
       /\ f.first \in Identifier /\ f.first.prefixed = f.prefix
       /\ f.type = "integer" => ~f.prefix
  /\ <<>> \in Paths

VARIABLES
  format, path,  \* of the project, and of the branch that is built
  released,      \* the releases so far; the branch is a child of the last
  remote,        \* the dependency's branches, by release and path: the commits, newest first
  found          \* what the last resolution took: a branch and a commit of it, or none, or an error

releaseVars == <<format, path, released, remote, found>>

NoFind == [at |-> <<0, <<>>>>, commit |-> 0]
NotThere == [NoFind EXCEPT !.at[1] = -1]
ValueError == [NoFind EXCEPT !.at[1] = -2]
Nothing == {NoFind, NotThere, ValueError}

ReleaseTypeOK ==
  /\ format \in Formats /\ path \in Paths /\ released \in 1..MaxReleases
  /\ DOMAIN remote \subseteq (1..MaxReleases) \X Paths
  /\ \A b \in DOMAIN remote : remote[b] \in Seq({"open", "built"})
  /\ found \in Nothing \cup [at : (1..MaxReleases) \X Paths, commit : 1..Look]

-----------------------------------------------------------------------------
(* Identifiers.                                                                *)

Bounds(f, t) ==
  CASE t = "yyyy" -> <<0, 99>> [] t = "yy" -> <<0, 9999>> [] t = "mm" -> <<1, 12>> [] t = "q" -> <<1, 4>>
    [] t = "n" -> IF f.type = "date" /\ Contains(f.pattern, "q") THEN <<1, f.sprints>> ELSE <<0, 9999>>

\* The last of the tokens that does not wrap carries the step; those after it wrap.
Fast == <<"n", "q", "mm", "yy", "yyyy">>
Order(f) == SelectSeq(Fast, LAMBDA t : Contains(f.pattern, t))
Wraps(f, id, t, down) == id.value[t] = Bounds(f, t)[IF down THEN 1 ELSE 2]
Carrying(f, id, down) ==
  LET ord == Order(f)
      stop == {i \in DOMAIN ord : ~Wraps(f, id, ord[i], down) /\ \A j \in 1..(i - 1) : Wraps(f, id, ord[j], down)} IN
  [t \in Token |->
    LET i == {j \in DOMAIN ord : ord[j] = t} IN
    IF i = {} \/ (\E j \in i, k \in stop : j > k) THEN id.value[t]
    ELSE IF \E j \in i, k \in stop : j < k THEN Bounds(f, t)[IF down THEN 2 ELSE 1]
    ELSE IF down THEN id.value[t] - 1 ELSE id.value[t] + 1]

\* What the identifier is written with once it is computed.
Written(t) == CASE t = "yyyy" -> 4 [] t \in {"mm", "yy"} -> 2 [] OTHER -> 0

_previous_decrement_without_carry(f, id) ==
  [id EXCEPT !.value[Order(f)[1]] = @ - 1, !.width = [t \in Token |-> Written(t)]]
_previous_decrement_with_carry(f, id) ==
  [id EXCEPT !.value = Carrying(f, id, TRUE), !.width = [t \in Token |-> Written(t)]]

\* How the project itself names its next release.
NextIdentifier(f, id) == [id EXCEPT !.value = Carrying(f, id, FALSE)]
Identifiers(f) == LET ids[k \in 1..MaxReleases] == IF k = 1 THEN f.first ELSE NextIdentifier(f, ids[k - 1]) IN ids

\* The prefix is taken off when the identifier is read from a branch.
get_release_identifier(f, id) == [id EXCEPT !.prefixed = FALSE]
construct_release_branch_name(f, id) == [id EXCEPT !.prefixed = f.prefix]

Refuses(f, n) == n > 0 /\ f.type = "sequential" /\ f.prefix

\* A date goes back by one whatever n is.
get_previous_identifier(f, id, n) ==
  IF n = 0 THEN id
  ELSE IF f.type = "date" THEN _previous_decrement_with_carry(f, id)
  ELSE [id EXCEPT !.value["n"] = @ - n, !.width["n"] = 0]

_release_identifier_sort_key(f, id) == [i \in DOMAIN f.pattern |-> id.value[f.pattern[i]]]
Before(f, a, b) ==
  LET x == _release_identifier_sort_key(f, a)  y == _release_identifier_sort_key(f, b) IN
  \E i \in DOMAIN x : x[i] < y[i] /\ \A j \in 1..(i - 1) : x[j] = y[j]

-----------------------------------------------------------------------------
(* Branches and packages.                                                      *)

ReleaseInit ==
  /\ format \in Formats /\ path \in Paths
  /\ released = 1 /\ remote = <<>> /\ found = NoFind

Name(k) == Identifiers(format)[k]

ReleaseAfter ==
  /\ released < MaxReleases /\ released' = released + 1 /\ found' = NoFind
  /\ UNCHANGED <<format, path, remote>>

Pushed == FoldFunction(LAMBDA s, n : Len(s) + n, 0, remote)

CutBranch(b) ==
  /\ b \notin DOMAIN remote /\ Pushed < MaxPushes /\ b[1] <= released
  /\ remote' = [c \in DOMAIN remote \cup {b} |-> IF c = b THEN <<"open">> ELSE remote[c]] /\ found' = NoFind
  /\ UNCHANGED <<format, path, released>>

PushToRemote(b) ==
  /\ b \in DOMAIN remote /\ Pushed < MaxPushes
  /\ remote' = [remote EXCEPT ![b] = <<"open">> \o @] /\ found' = NoFind
  /\ UNCHANGED <<format, path, released>>

\* Builds finish in any order.
FinishBuild(b, i) ==
  /\ b \in DOMAIN remote /\ i \in DOMAIN remote[b] /\ remote[b][i] = "open"
  /\ remote' = [remote EXCEPT ![b][i] = "built"] /\ found' = NoFind
  /\ UNCHANGED <<format, path, released>>

locate_commit_status_package_idAnywhere(b) == {i \in DOMAIN remote[b] : remote[b][i] = "built"}
locate_commit_status_package_id(b) ==
  {i \in DOMAIN remote[b] : i <= Look /\ remote[b][i] = "built" /\ \A j \in 1..(i - 1) : remote[b][j] = "open"}

\* The branches a name leads to.
BranchOf(id, p) == {b \in DOMAIN remote : Name(b[1]) = id /\ b[2] = p}

\* The parents of a child of a child; the release itself is not among them.
get_parent_branch_candidates(p) ==
  IF Len(p) < 2 THEN <<>> ELSE [k \in 1..(Len(p) - 1) |-> BranchOf(Name(released), SubSeq(p, 1, Len(p) - k))]

AtRelease(n) ==
  BranchOf(construct_release_branch_name(format,
             get_previous_identifier(format, get_release_identifier(format, Name(released)), n)), <<>>)

\* The branches that are there, in the order in which they are looked at: by
\* the exact match, by the release, and by the previous releases.
get_branches ==
  <<BranchOf(Name(released), path)>>
  \o get_parent_branch_candidates(path)
  \o <<AtRelease(0), AtRelease(1), AtRelease(2)>>

\* The previous releases are computed only if nothing was found before.
Resolve_ ==
  LET has(i) == \E b \in get_branches[i] : locate_commit_status_package_id(b) # {}
      near == {i \in 1..(Len(get_branches) - 2) : has(i)}
      all == {i \in DOMAIN get_branches : has(i)} IN
  /\ found = NoFind
  /\ \/ near = {} /\ Refuses(format, 1) /\ found' = ValueError
     \/ /\ near # {} \/ ~Refuses(format, 1)
        /\ IF all = {} THEN found' = NotThere
           ELSE LET i == CHOOSE j \in all : \A k \in all : j <= k IN
                \E b \in get_branches[i] : \E c \in locate_commit_status_package_id(b) :
                  found' = [at |-> b, commit |-> c]
  /\ UNCHANGED <<format, path, released, remote>>

ReleaseNext ==
  \/ ReleaseAfter \/ Resolve_
  \/ \E b \in (1..MaxReleases) \X Paths :
       CutBranch(b) \/ PushToRemote(b) \/ \E i \in 1..MaxPushes : FinishBuild(b, i)

ReleaseSpec == ReleaseInit /\ [][ReleaseNext]_releaseVars

-----------------------------------------------------------------------------
(* What is claimed. Branches are written by release, counted from the first,   *)
(* and not by name.                                                            *)

\* Going back from a release by name leads to the release before it, which is
\* also the one sorted next to it.
PreviousIsTheOneBefore ==
  \A k \in 2..released : ~Refuses(format, 1) =>
    /\ construct_release_branch_name(format,
         get_previous_identifier(format, get_release_identifier(format, Name(k)), 1)) = Name(k - 1)
    /\ \A j \in 1..(k - 1) : Before(format, Name(j), Name(k))

Usable(b) == b \in DOMAIN remote /\ \E i \in 1..Look : i \in DOMAIN remote[b] /\ remote[b][i] = "built"
Ancestors == {<<released, SubSeq(path, 1, k)>> : k \in 0..Len(path)}

\* The package is that of the newest build on the nearest branch that has one:
\* the branch of the same name, its parents from the nearest on, the release
\* or an earlier release, never one of a sibling or of a later release; and
\* only if neither those nor the release before have one is there none.
FindsNearest ==
  /\ found = NotThere => ~\E a \in Ancestors \cup {<<released - 1, <<>>>>} : Usable(a)
  /\ found \notin Nothing =>
    LET b == found.at IN
    /\ b[1] \in (released - 2)..released
    /\ IF b[1] = released THEN b \in Ancestors /\ \A a \in Ancestors : Len(a[2]) > Len(b[2]) => ~Usable(a)
       ELSE b[2] = <<>> /\ (\A a \in Ancestors : ~Usable(a)) /\ \A k \in (b[1] + 1)..(released - 1) : ~Usable(<<k, <<>>>>)
    /\ remote[b][found.commit] = "built" /\ \A i \in 1..(found.commit - 1) : remote[b][i] = "open"

\* "locate a branch for either of the two previous releases": what is there is found.
TwoPreviousAreTried ==
  found = NotThere => ~\E k \in {released - 1, released - 2} : Usable(<<k, <<>>>>)

\* A prefix of sequential identifiers does not end the resolution.
NoValueError == found # ValueError

\* "Date formats accept 2- or 4-digit years (e.g. 26 or 2026)."
TwoDigitYearsGoBack ==
  \A k \in 2..released : format.type = "date" =>
    construct_release_branch_name(format,
      get_previous_identifier(format, get_release_identifier(format, Name(k)), 1)) = Name(k - 1)
=============================================================================
