---------------------------- MODULE DataExtract ----------------------------
(***************************************************************************)
(* The extraction of a dataset (cumulusci/tasks/bulkdata/extract.py): one  *)
(* query after another, while others go on changing the org, and then the  *)
(* ids of the org replaced by local ones in every lookup.                  *)
(***************************************************************************)
EXTENDS Integers, Sequences, FiniteSets, SequencesExt, FiniteSetsExt

CONSTANTS
  ExtractSteps,  \* the tables of the mapping, in order
  ObjectOf,      \* the object each table is extracted from
  Selected,      \* the records the filter of each table lets through
  LookupTables,  \* the tables the lookup of each table mentions; {} without a lookup
  SfRecord,      \* the records the org may have
  NoRecord,
  MaxChanges     \* bound on the changes others make

ExtractTable == ToSet(ExtractSteps)

ASSUME ExtractAssumption ==
  /\ IsInjective(ExtractSteps)
  /\ \A t \in ExtractTable : Selected[t] \subseteq SfRecord /\ LookupTables[t] \subseteq ExtractTable
  /\ NoRecord \notin SfRecord /\ MaxChanges \in Nat

VARIABLES
  extractPc,
  extractAt,   \* the step at hand
  orgRef,      \* the records of the org, each with the record its lookup refers to
  changes,
  extracted,   \* the rows of each table: local id, record, lookup as queried, lookup now
  counter      \* ids given out for each object

extractVars == <<extractPc, extractAt, orgRef, changes, extracted, counter>>

ExtractObject == {ObjectOf[t] : t \in ExtractTable}

\* A local id; its table does not enter it, but its object does.
LocalId == [object : ExtractObject, number : Nat]

ExtractTypeOK ==
  /\ extractPc \in {"idle", "query", "map", "done", "failed", "refused"}
  /\ extractAt \in 1..(Len(ExtractSteps) + 1)
  /\ DOMAIN orgRef \subseteq SfRecord
  /\ \A r \in DOMAIN orgRef : orgRef[r] \in DOMAIN orgRef \cup {NoRecord}
  /\ changes \in 0..MaxChanges
  /\ \A t \in ExtractTable : \A i \in DOMAIN extracted[t] :
       /\ extracted[t][i].id \in LocalId
       /\ extracted[t][i].record \in SfRecord
       /\ extracted[t][i].ref \in SfRecord \cup {NoRecord}
       /\ extracted[t][i].local \in LocalId \cup {<<>>}
  /\ counter \in [ExtractObject -> Nat]

ExtractInit ==
  /\ extractPc = "idle" /\ extractAt = 1 /\ changes = 0
  /\ orgRef = <<>>
  /\ extracted = [t \in ExtractTable |-> <<>>]
  /\ counter = [o \in ExtractObject |-> 0]

BeginExtract ==
  /\ extractPc = "idle" /\ extractPc' = "query"
  /\ orgRef' \in {f \in [SfRecord -> SfRecord \cup {NoRecord}] : \A r \in SfRecord : f[r] # r}
  /\ UNCHANGED <<extractAt, changes, extracted, counter>>

\* Others delete a record, which clears the lookups to it, or change a lookup.
OrgChanges ==
  /\ extractPc = "query" /\ changes < MaxChanges /\ changes' = changes + 1
  /\ \E r \in DOMAIN orgRef :
       \/ orgRef' = [q \in DOMAIN orgRef \ {r} |->
                       IF orgRef[q] = r THEN NoRecord ELSE orgRef[q]]
       \/ \E s \in (DOMAIN orgRef \cup {NoRecord}) \ {r} : orgRef' = [orgRef EXCEPT ![r] = s]
  /\ UNCHANGED <<extractPc, extractAt, extracted, counter>>

-----------------------------------------------------------------------------
(* _run_query, _import_results.                                            *)

ThisTable == ExtractSteps[extractAt]

\* The records the query of the step returns.
Answer == Selected[ThisTable] \cap DOMAIN orgRef

\* Mutant: every table counts from one.
_id_generator_for_objectAnew(n) == [object |-> ObjectOf[ThisTable], number |-> n]

_id_generator_for_object(n) ==
  [object |-> ObjectOf[ThisTable], number |-> counter[ObjectOf[ThisTable]] + n]

\* Mutant: a query without records is not over.
RunQueryEmpty ==
  /\ extractPc = "query" /\ extractAt \in DOMAIN ExtractSteps
  /\ Answer # {}
  /\ LET found == SetToSeq(Answer) IN
     extracted' = [extracted EXCEPT ![ThisTable] =
                     [i \in DOMAIN found |->
                        [id |-> _id_generator_for_object(i), record |-> found[i],
                         ref |-> NoRecord, local |-> <<>>]]]
  /\ extractAt' = extractAt + 1
  /\ UNCHANGED <<extractPc, orgRef, changes, counter>>

RunQuery ==
  /\ extractPc = "query" /\ extractAt \in DOMAIN ExtractSteps
  /\ LET found == SetToSeq(Answer) IN
     /\ extracted' = [extracted EXCEPT ![ThisTable] =
                        [i \in DOMAIN found |->
                           [id |-> _id_generator_for_object(i), record |-> found[i],
                            ref |-> IF LookupTables[ThisTable] = {} THEN NoRecord ELSE orgRef[found[i]],
                            local |-> <<>>]]]
     /\ counter' = [counter EXCEPT ![ObjectOf[ThisTable]] = @ + Len(found)]
  /\ extractAt' = extractAt + 1
  /\ UNCHANGED <<extractPc, orgRef, changes>>

QueryFails ==
  /\ extractPc = "query" /\ extractAt \in DOMAIN ExtractSteps
  /\ extractPc' = "failed"
  /\ UNCHANGED <<extractAt, orgRef, changes, extracted, counter>>

ExtractedIds ==
  /\ extractPc = "query" /\ extractAt \notin DOMAIN ExtractSteps
  /\ extractPc' = "map" /\ extractAt' = 1
  /\ UNCHANGED <<orgRef, changes, extracted, counter>>

-----------------------------------------------------------------------------
(* _map_autopks, _convert_lookups_to_id.                                   *)

\* The first of the tables, in the order of the mapping, that has the record gives its
\* local id; the next do not find the record any more.
LookupMappings == SelectSeq(ExtractSteps, LAMBDA t : t \in LookupTables[ThisTable])

LocalOf(r) ==
  LET has == SelectSeq(LookupMappings, LAMBDA t : \E i \in DOMAIN extracted[t] : extracted[t][i].record = r)
  IN IF has = <<>> THEN <<>>
     ELSE LET rows == extracted[Head(has)]
          IN rows[CHOOSE i \in DOMAIN rows : rows[i].record = r].id

Mapped == {i \in DOMAIN extracted[ThisTable] : LocalOf(extracted[ThisTable][i].ref) # <<>>}

\* Mutant: rows with an empty lookup are counted.
TotalRowsAll == DOMAIN extracted[ThisTable]

TotalRows == {i \in DOMAIN extracted[ThisTable] : extracted[ThisTable][i].ref # NoRecord}

\* Mutant: some row that was mapped is enough.
AllMappedSome == TotalRows # {} => Mapped # {}

AllMapped == Cardinality(Mapped) = Cardinality(TotalRows)

ConvertLookups ==
  /\ extractPc = "map" /\ extractAt \in DOMAIN ExtractSteps
  /\ IF LookupTables[ThisTable] = {} \/ AllMapped
     THEN /\ extracted' = [extracted EXCEPT ![ThisTable] =
                             [i \in DOMAIN @ |->
                                [@[i] EXCEPT !.local = LocalOf(extracted[ThisTable][i].ref)]]]
          /\ extractAt' = extractAt + 1
          /\ UNCHANGED extractPc
     ELSE extractPc' = "refused" /\ UNCHANGED <<extracted, extractAt>>
  /\ UNCHANGED <<orgRef, changes, counter>>

Dump ==
  /\ extractPc = "map" /\ extractAt \notin DOMAIN ExtractSteps
  /\ extractPc' = "done"
  /\ UNCHANGED <<extractAt, orgRef, changes, extracted, counter>>

ExtractStep == RunQuery \/ ExtractedIds \/ ConvertLookups \/ Dump

ExtractNext == BeginExtract \/ ExtractStep \/ QueryFails \/ OrgChanges

ExtractSpec == ExtractInit /\ [][ExtractNext]_extractVars

-----------------------------------------------------------------------------
(* Properties.                                                             *)

Rows == {<<t, i>> : t \in ExtractTable, i \in 1..Cardinality(SfRecord)}

ExtractedRows == {p \in Rows : p[2] \in DOMAIN extracted[p[1]]}

At(p) == extracted[p[1]][p[2]]

\* A finished extract is closed: every lookup that had a value when it was queried refers
\* to the row of that very record, whatever changed in the org in between.
ExtractIsClosed ==
  extractPc = "done" => \A p \in ExtractedRows :
    At(p).ref # NoRecord =>
      \E q \in ExtractedRows : q[1] \in LookupTables[p[1]] /\ At(q).id = At(p).local /\ At(q).record = At(p).ref

\* All the tables of a dataset are loaded into one table of ids, so no two rows may have
\* the same one, of two tables of one object either.
LocalIdsAreUnique ==
  \A p, q \in ExtractedRows : p # q => At(p).id # At(q).id

\* An extract is refused only for a lookup to a record that no query brought.
RefusedForAReason ==
  extractPc = "refused" => \E p \in ExtractedRows :
    /\ At(p).ref # NoRecord
    /\ \A q \in ExtractedRows : q[1] \in LookupTables[p[1]] => At(q).record # At(p).ref

\* An extract ends.
ExtractEnds == extractPc # "idle" ~> extractPc \in {"done", "failed", "refused"}

-----------------------------------------------------------------------------
(***************************************************************************)
(* The tasks that delete and update records of an org in place (cumulusci/ *)
(* tasks/bulkdata/delete.py, update_data.py): they query the records that  *)
(* match, and work on those ids, while others go on changing the org.      *)
(***************************************************************************)

CONSTANTS
  DeleteObjects,   \* the objects of delete_data, in order
  RecordsOf,       \* the records each has
  Parent,          \* the record the deletion of which deletes a record, or Nobody
  Nobody

ChangeRecord == UNION {RecordsOf[o] : o \in ToSet(DeleteObjects)}

ASSUME ChangeAssumption ==
  /\ IsInjective(DeleteObjects)
  /\ \A o, p \in ToSet(DeleteObjects) : o # p => RecordsOf[o] \cap RecordsOf[p] = {}
  /\ Parent \in [ChangeRecord -> ChangeRecord \cup {Nobody}] /\ Nobody \notin ChangeRecord

VARIABLES
  changePc,
  changeOption,  \* the task, whether it has a where clause, ignore_row_errors
  objectAt,      \* the object at hand
  present,       \* the records of the org
  matching,      \* those that match the where clause
  found,         \* the records the query of the object returned
  touched,       \* the records the task deleted or updated
  jobOutcome,    \* status of the job of the object
  rowErrors      \* the records that could not be changed

changeVars == <<changePc, changeOption, objectAt, present, matching, found, touched,
                jobOutcome, rowErrors>>

ChangeTypeOK ==
  /\ changePc \in {"idle", "query", "job", "check", "done", "failed"}
  /\ changeOption \in [task : {"delete", "update"}, where : BOOLEAN, ignore : BOOLEAN]
  /\ objectAt \in 1..(Len(DeleteObjects) + 1)
  /\ present \subseteq ChangeRecord /\ matching \subseteq ChangeRecord
  /\ found \subseteq ChangeRecord /\ touched \subseteq ChangeRecord
  /\ jobOutcome \in {"none", "Success", "Row failure", "Job failure", "Aborted"}
  /\ rowErrors \subseteq found

ChangeInit ==
  /\ changePc = "idle"
  /\ changeOption = [task |-> "delete", where |-> FALSE, ignore |-> FALSE]
  /\ objectAt = 1 /\ present = {} /\ matching = {} /\ found = {} /\ touched = {}
  /\ jobOutcome = "none" /\ rowErrors = {}

\* A where clause goes with one object only; an update is of one object.
BeginChange ==
  /\ changePc = "idle" /\ changePc' = "query"
  /\ changeOption' \in [task : {"delete", "update"}, where : BOOLEAN, ignore : BOOLEAN]
  /\ objectAt' = IF changeOption'.where \/ changeOption'.task = "update" THEN Len(DeleteObjects) ELSE 1
  /\ present' = ChangeRecord
  /\ matching' \in SUBSET ChangeRecord
  /\ UNCHANGED <<found, touched, jobOutcome, rowErrors>>

\* A record and those that go with it.
Cascade(S, all) ==
  LET gone[n \in 0..Cardinality(ChangeRecord)] ==
        IF n = 0 THEN S \cap all
        ELSE gone[n - 1] \cup {r \in all : Parent[r] \in gone[n - 1]}
  IN gone[Cardinality(ChangeRecord)]

\* Others delete a record, or make it match or not.
OthersChange ==
  /\ changePc = "job"
  /\ \E r \in present :
       \/ present' = present \ Cascade({r}, present) /\ UNCHANGED matching
       \/ r \in matching /\ matching' = matching \ {r} /\ UNCHANGED present
  /\ UNCHANGED <<changePc, changeOption, objectAt, found, touched, jobOutcome, rowErrors>>

-----------------------------------------------------------------------------

CurrentObject == DeleteObjects[objectAt]

\* Mutant: an object without records is not left.
QueryStays ==
  /\ changePc = "query" /\ objectAt \in DOMAIN DeleteObjects
  /\ found' = {r \in RecordsOf[CurrentObject] \cap present :
                 changeOption.where => r \in matching}
  /\ jobOutcome' = "none" /\ rowErrors' = {}
  /\ changePc' = IF found' = {} THEN "query" ELSE "job"
  /\ UNCHANGED <<changeOption, objectAt, present, matching, touched>>

Query ==
  /\ changePc = "query" /\ objectAt \in DOMAIN DeleteObjects
  /\ found' = {r \in RecordsOf[CurrentObject] \cap present :
                 changeOption.where => r \in matching}
  /\ jobOutcome' = "none" /\ rowErrors' = {}
  /\ IF found' = {} THEN objectAt' = objectAt + 1 /\ UNCHANGED changePc
                    ELSE changePc' = "job" /\ UNCHANGED objectAt
  /\ UNCHANGED <<changeOption, present, matching, touched>>

\* A batch of the records, sent to the org: any of them may fail, those that are gone do.
Job ==
  /\ changePc = "job"
  /\ \E good \in SUBSET (found \cap present) :
       /\ touched' = touched \cup good
       /\ rowErrors' = found \ good
       /\ present' = IF changeOption.task = "update" THEN present
                     ELSE present \ Cascade(good, present)
       /\ \/ jobOutcome' = IF good = found THEN "Success" ELSE "Row failure"
          \/ jobOutcome' \in {"Job failure", "Aborted"} /\ good # found
  /\ changePc' = "check"
  /\ UNCHANGED <<changeOption, objectAt, matching, found>>

\* Mutant: only the status of the job is looked at.
CheckStatusOnly ==
  /\ changePc = "check"
  /\ IF jobOutcome \in {"Success", "Row failure"}
     THEN /\ objectAt' = objectAt + 1 /\ changePc' = "query"
     ELSE changePc' = "failed" /\ UNCHANGED objectAt
  /\ UNCHANGED <<changeOption, present, matching, found, touched, jobOutcome, rowErrors>>

Check ==
  /\ changePc = "check"
  /\ IF jobOutcome \in {"Success", "Row failure"} /\ (rowErrors = {} \/ changeOption.ignore)
     THEN /\ objectAt' = objectAt + 1 /\ changePc' = "query"
     ELSE changePc' = "failed" /\ UNCHANGED objectAt
  /\ UNCHANGED <<changeOption, present, matching, found, touched, jobOutcome, rowErrors>>

Finish ==
  /\ changePc = "query" /\ objectAt \notin DOMAIN DeleteObjects
  /\ changePc' = "done"
  /\ UNCHANGED <<changeOption, objectAt, present, matching, found, touched, jobOutcome, rowErrors>>

ChangeFails ==
  /\ changePc \in {"query", "job"} /\ changePc' = "failed"
  /\ UNCHANGED <<changeOption, objectAt, present, matching, found, touched, jobOutcome, rowErrors>>

ChangeStep == Query \/ Job \/ Check \/ Finish

ChangeNext == BeginChange \/ ChangeStep \/ OthersChange \/ ChangeFails

ChangeSpec == ChangeInit /\ [][ChangeNext]_changeVars

-----------------------------------------------------------------------------
(* Properties.                                                             *)

\* A deletion that succeeds, without errors ignored, leaves no record of the objects
\* that were to be emptied, the children of the deleted ones neither.
DeletedIsGone ==
  changePc = "done" /\ changeOption.task = "delete" /\ ~changeOption.ignore /\ ~changeOption.where =>
    present = {}

\* A deletion or an update ends, whatever others do meanwhile.
ChangeEnds == changePc # "idle" ~> changePc \in {"done", "failed"}
=============================================================================
