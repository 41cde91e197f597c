------------------------------ MODULE Assignments ------------------------------
(* The tasks that give people access: permission sets to users and to groups of  *)
(* permission sets, members to public groups, profiles to the network of a site; *)
(* and the one that updates records. Each looks up names, some what is assigned  *)
(* already, makes the rows that are missing and sends them in batches, of which  *)
(* some rows may fail, while others assign as well.                              *)
EXTENDS Integers, Sequences, FiniteSets, SequencesExt

CONSTANTS
  BatchSize,       \* rows of a request: 200 in the code
  MaxOthers        \* bound on the assignments others make meanwhile

ASSUME AssignmentAssumption == BatchSize \in Nat \ {0} /\ MaxOthers \in Nat

VARIABLES
  asgPc,        \* the stage the task is in
  asgKind,      \* "psg", "user", "group", "network" or "update"
  asgAsked,     \* the pairs of names the options give, in order
  failOnError,
  orgLefts,     \* external: the records to assign to, by namespace and name
  orgRights,    \* external: the records to assign
  orgPairs,     \* external: what is assigned
  asgIds,       \* what the names were found to be: [left, right]
  asgExisting,  \* what was assigned when the task looked
  asgRows,      \* the rows still to send
  asgErrors,    \* the rows of earlier requests that failed
  asgMade,      \* history: what the task assigned
  asgOthers     \* how often others did

asgVars == <<asgPc, asgKind, asgAsked, failOnError, orgLefts, orgRights, orgPairs, asgIds,
             asgExisting, asgRows, asgErrors, asgMade, asgOthers>>
asgOrg == <<orgLefts, orgRights>>
asgGiven == <<asgKind, asgAsked, failOnError>>

\* A name is <<namespace, name>>, "-" for none, whether of a record or asked for.
Rights == {<<"-", "x">>, <<"p", "x">>, <<"-", "y">>}
Lefts == {<<"-", "a">>, <<"-", "b">>}
Nothing == <<>>

\* The stages of each task, in the order of its queries.
Stages ==
  [psg |-> <<"left", "right", "build">>, user |-> <<"existing", "right", "build">>,
   group |-> <<"left", "right", "existing", "build">>,
   network |-> <<"left", "existing", "right", "build">>, update |-> <<"right", "build">>]
Next1(pc) ==
  LET s == Stages[asgKind] IN s[SelectInSeq(s, LAMBDA x : x = pc) + 1]

AssignTypeOK ==
  /\ asgPc \in {"left", "right", "existing", "build", "send", "done", "failed"}
  /\ asgKind \in DOMAIN Stages /\ failOnError \in BOOLEAN
  /\ orgLefts \subseteq Lefts /\ orgRights \subseteq Rights
  /\ \A s \in {orgPairs, asgExisting, asgErrors, asgMade} : s \subseteq Lefts \X Rights
  /\ ToSet(asgRows) \subseteq Lefts \X (Rights \cup {Nothing}) /\ asgOthers \in 0..MaxOthers

AssignInit ==
  /\ asgKind \in DOMAIN Stages /\ asgPc = Stages[asgKind][1]
  /\ failOnError \in BOOLEAN /\ (failOnError \/ asgKind \in {"psg", "update"})
  /\ \E n \in 1..3 :
       asgAsked \in [1..n -> (IF n = 3 \/ asgKind \in {"network", "update"} THEN {<<"-", "a">>} ELSE Lefts)
                               \X (IF n = 3 THEN Rights \ {<<"-", "y">>} ELSE Rights)]
  /\ orgLefts \in {Lefts, {<<"-", "a">>}} 
  /\ orgRights \in {{}, {<<"-", "x">>}, {<<"p", "x">>, <<"-", "y">>}, Rights}
  /\ orgPairs \in {{}, orgLefts \X (orgRights \ {<<"-", "y">>})}
  /\ asgIds = [left |-> Nothing, right |-> Nothing] /\ asgExisting = {} /\ asgRows = <<>>
  /\ asgErrors = {} /\ asgMade = {} /\ asgOthers = 0

AskedLefts == {p[1] : p \in ToSet(asgAsked)}
AskedRights == {p[2] : p \in ToSet(asgAsked)}

Fail ==
  /\ asgPc' = "failed"
  /\ UNCHANGED <<asgGiven, asgOrg, orgPairs, asgIds, asgExisting, asgRows, asgErrors, asgMade, asgOthers>>

-----------------------------------------------------------------------------
(* Names and what they are found to be.                                        *)

\* A query by name: a name without a namespace matches the records of every namespace.
build_name_conditions(names, records) ==
  {r \in records : \E n \in names : n[2] = r[2] /\ n[1] \in {"-", r[1]}}

\* The name a record was found by: its own if it is asked for, else the bare one.
NameOf(names, record) == IF record \in names THEN record ELSE <<"-", record[2]>>

\* Every name with the record that came last of those it was found by.
Lookups(names, records) ==
  LET found == build_name_conditions(names, records)
      of(n) == {r \in found : NameOf(names, r) = n}
  IN  {f \in [names -> found \cup {Nothing}] : \A n \in names : IF of(n) = {} THEN f[n] = Nothing ELSE f[n] \in of(n)}

\* Names of groups, of users and of a network are found or not.
Exactly(names, records) == [n \in names |-> IF n \in records THEN n ELSE Nothing]
Missing(f) == {n \in DOMAIN f : f[n] = Nothing}

Found(left, right) ==
  /\ asgPc' = Next1(asgPc) /\ asgIds' = [left |-> left, right |-> right]
  /\ UNCHANGED <<asgGiven, asgOrg, orgPairs, asgRows, asgErrors, asgMade, asgOthers>>

\* Groups of permission sets, unless errors are accepted, and public groups must be there;
\* so must the one network.
_query_lefts ==
  /\ asgPc = "left"
  /\ \/ Fail
     \/ LET f == Exactly(AskedLefts, orgLefts)
        IN  IF Missing(f) # {} /\ failOnError THEN Fail
            ELSE Found(f, asgIds.right) /\ UNCHANGED asgExisting

\* Permission sets for a group: without those that are missing if errors are accepted.
_get_permission_set_ids ==
  /\ asgKind = "psg" /\ asgPc = "right"
  /\ \/ Fail /\ failOnError
     \/ ~failOnError /\ Found(asgIds.left, [n \in AskedRights |-> Nothing]) /\ UNCHANGED asgExisting
     \/ \E f \in Lookups(AskedRights, orgRights) :
          IF Missing(f) # {} /\ failOnError THEN Fail
          ELSE Found(asgIds.left, f) /\ UNCHANGED asgExisting

\* Permission sets for users: every record a name finds, provided each name is one of them.
_get_perm_ids ==
  /\ asgKind = "user" /\ asgPc = "right"
  /\ \/ Fail
     \/ LET found == build_name_conditions(AskedRights, orgRights)
        IN  IF AskedRights \subseteq found
            THEN Found(asgIds.left, [r \in found |-> r]) /\ UNCHANGED asgExisting
            ELSE Fail

\* Roles, users and groups that are not found are left out; profiles that are not found
\* are refused one by one, later.
_resolve_role_groups ==
  /\ asgKind = "group" /\ asgPc = "right"
  /\ Fail \/ (Found(asgIds.left, Exactly(AskedRights, orgRights)) /\ UNCHANGED asgExisting)
_get_parent_ids_by_name ==
  /\ asgKind = "network" /\ asgPc = "right"
  /\ Fail \/ (Found(asgIds.left, Exactly(AskedRights, orgRights)) /\ UNCHANGED asgExisting)

\* The records to update: all that match.
_update_by_query ==
  /\ asgKind = "update" /\ asgPc = "right"
  /\ \/ Fail
     \/ /\ Found([n \in AskedLefts |-> n],
                 [r \in build_name_conditions(AskedRights, orgRights) |-> r])
        /\ UNCHANGED asgExisting

\* What is assigned already. Users come with what they have, and one of them is enough.
_query_existing_members ==
  /\ asgPc = "existing" /\ asgKind \in {"group", "network"}
  /\ \/ Fail
     \/ /\ Found(asgIds.left, asgIds.right)
        /\ asgExisting' = {p \in orgPairs : p[1] \in {asgIds.left[n] : n \in DOMAIN asgIds.left}}
_query_existing_assignments ==
  /\ asgPc = "existing" /\ asgKind = "user"
  /\ \/ Fail
     \/ LET f == Exactly(AskedLefts, orgLefts)
        IN  IF Missing(f) = DOMAIN f THEN Fail
            ELSE Found(f, asgIds.right) /\ asgExisting' = {p \in orgPairs : p[1] \in orgLefts \cap AskedLefts}

-----------------------------------------------------------------------------
(* The rows, and their requests.                                               *)

Ids(pair) == <<asgIds.left[pair[1]], asgIds.right[pair[2]]>>
AskedIds == [i \in DOMAIN asgAsked |-> Ids(asgAsked[i])]
IsFound(row) == row[1] # Nothing /\ row[2] # Nothing

\* Every user with every permission set that is not assigned yet.
_get_assignments ==
  SetToSeq(({asgIds.left[n] : n \in DOMAIN asgIds.left} \ {Nothing})
             \X {asgIds.right[n] : n \in DOMAIN asgIds.right} \ asgExisting)

\* Members once each, and not those that were there.
NewMembers ==
  FoldLeft(LAMBDA rows, row :
             IF IsFound(row) /\ row \notin asgExisting \cup ToSet(rows) THEN Append(rows, row) ELSE rows,
           <<>>, AskedIds)

\* The names of a network are a dictionary; those that were not found have no record.
NetworkRows ==
  FoldLeft(LAMBDA rows, row :
             IF row \notin asgExisting /\ (row \notin ToSet(rows) \/ ~IsFound(row)) THEN Append(rows, row) ELSE rows,
           <<>>, AskedIds)

Rows ==
  CASE asgKind = "psg" -> SelectSeq(AskedIds, IsFound)
    [] asgKind = "group" -> NewMembers
    [] asgKind = "network" -> NetworkRows
    [] OTHER -> _get_assignments

_build_rows ==
  /\ asgPc = "build" /\ asgRows' = Rows /\ asgPc' = IF Rows = <<>> THEN "done" ELSE "send"
  /\ UNCHANGED <<asgGiven, asgOrg, orgPairs, asgIds, asgExisting, asgErrors, asgMade, asgOthers>>

\* How many rows go in one request.
RowsOf ==
  CASE asgKind = "network" -> 1
    [] asgKind \in {"group", "update"} -> Len(asgRows)
    [] OTHER -> IF Len(asgRows) < BatchSize THEN Len(asgRows) ELSE BatchSize
Batch == SubSeq(asgRows, 1, RowsOf)
Rest == SubSeq(asgRows, RowsOf + 1, Len(asgRows))

\* Rows that the org refuses because they are there, or are twice in the request.
Duplicates ==
  IF asgKind = "update" THEN {}
  ELSE {r \in ToSet(Batch) : r \in orgPairs \/ Cardinality({i \in DOMAIN Batch : Batch[i] = r}) > 1}
\* A duplicate is no error to the task that did not look.
Errors(bad) == bad \cup (IF asgKind = "psg" THEN {} ELSE Duplicates)

\* Errors that end the task at once, and those that end it when all is sent.
StopsAtOnce(errors) == errors # {} /\ (asgKind \in {"group", "network"} \/ (asgKind = "psg" /\ failOnError))
EndsFailed(errors) == errors # {} /\ asgKind \in {"user", "update"} /\ failOnError

\* A mutant: the errors of the last request.
ErrorsOfLast(errors) == errors
\* The errors the task looks at in the end: of all requests.
ErrorsSoFar(errors) == asgErrors \cup errors

\* A request: some rows fail, the others are made. A name of a network that was not found
\* ends the task there.
_create_records ==
  /\ asgPc = "send" /\ \A r \in ToSet(Batch) : IsFound(r)
  /\ \E bad \in SUBSET (ToSet(Batch) \ orgPairs) :
       LET made == ToSet(Batch) \ (bad \cup orgPairs)
           errors == ErrorsSoFar(Errors(bad))
       IN  /\ orgPairs' = orgPairs \cup made /\ asgMade' = asgMade \cup made
           /\ asgErrors' = errors /\ asgRows' = Rest
           /\ asgPc' = IF StopsAtOnce(Errors(bad)) THEN "failed"
                       ELSE IF Rest # <<>> THEN "send"
                       ELSE IF EndsFailed(errors) THEN "failed" ELSE "done"
  /\ UNCHANGED <<asgGiven, asgOrg, asgIds, asgExisting, asgOthers>>

_not_found == asgPc = "send" /\ (\E r \in ToSet(Batch) : ~IsFound(r)) /\ Fail

\* The request itself fails: where errors are accepted the task goes on.
_request_fails ==
  /\ asgPc = "send"
  /\ IF failOnError THEN Fail
     ELSE /\ asgRows' = Rest /\ asgPc' = IF Rest = <<>> THEN "done" ELSE "send"
          /\ UNCHANGED <<asgGiven, asgOrg, orgPairs, asgIds, asgExisting, asgErrors, asgMade, asgOthers>>

\* Somebody else assigns a permission set meanwhile.
OthersAssign ==
  /\ asgOthers < MaxOthers /\ asgOthers' = asgOthers + 1 /\ asgPc \notin {"done", "failed"}
  /\ \E p \in (orgLefts \X orgRights) \ orgPairs : orgPairs' = orgPairs \cup {p}
  /\ UNCHANGED <<asgPc, asgGiven, asgOrg, asgIds, asgExisting, asgRows, asgErrors, asgMade>>

AssignNext ==
  \/ _query_lefts \/ _get_permission_set_ids \/ _get_perm_ids \/ _resolve_role_groups
  \/ _get_parent_ids_by_name \/ _update_by_query \/ _query_existing_members
  \/ _query_existing_assignments \/ _build_rows \/ _create_records \/ _not_found \/ _request_fails
  \/ OthersAssign
AssignSpec == AssignInit /\ [][AssignNext]_asgVars

-----------------------------------------------------------------------------
(* Properties.                                                                 *)

\* A task that ends well, and does not accept errors, leaves everything assigned that it was
\* asked for, by whatever record a name was found: over batches of which any may have failed,
\* rows others made first, and names left out as missing where the task allows it.
DoneMeansAssigned ==
  asgPc = "done" /\ failOnError =>
    CASE asgKind = "user" ->
           \A l \in AskedLefts \cap orgLefts, r \in AskedRights : <<l, r>> \in orgPairs
      [] asgKind = "update" -> {<<l, r>> : l \in AskedLefts, r \in DOMAIN asgIds.right} \subseteq orgPairs
      [] asgKind = "group" -> \A i \in DOMAIN asgAsked : asgAsked[i][2] \in orgRights => asgAsked[i] \in orgPairs
      [] OTHER -> \A i \in DOMAIN asgAsked : Ids(asgAsked[i]) \in orgPairs

\* What the task assigned it was asked for, by name at least, of somebody it was asked for.
OnlyWhatWasAsked ==
  \A p \in asgMade :
    p[1] \in AskedLefts /\ \E n \in AskedRights : n[2] = p[2][2] /\ n[1] \in {"-", p[2][1]}

\* The comment at assign_ps_psg.py:330: "Fallback: match by name only if namespace_prefix is
\* None". A bare name is met by a record with a namespace too, the last of the answer.
BareNamesAreBare ==
  asgKind = "psg" /\ asgPc = "done" => \A p \in asgMade : p[2] \in AskedRights

\* users/permsets.py:17: "Assigns Permission Sets whose Names are in api_names". A bare name
\* also assigns those of packages with the same name.
OnlyTheNamed == asgKind = "user" => \A p \in asgMade : p[2] \in AskedRights

AssignmentsAreSound == AssignTypeOK /\ DoneMeansAssigned /\ OnlyWhatWasAsked
=============================================================================
