------------------------------ MODULE BulkLoad ------------------------------
(***************************************************************************)
(* The load of a dataset into an org: the task (cumulusci/tasks/bulkdata/  *)
(* load.py), its steps over the Bulk or the REST API (step.py), and the    *)
(* server.  A step streams the rows of a table in batches; the results     *)
(* come back by position, and the table of ids they make resolves the      *)
(* lookups of the steps that follow.                                       *)
(***************************************************************************)
EXTENDS Integers, Sequences, FiniteSets, SequencesExt, FiniteSetsExt

CONSTANTS
  Tables,      \* the tables, in the order of the mapping
  RowsOf,      \* the rows of each
  Ref,         \* the row each row's lookup refers to, or NoRow
  After,       \* the table after whose step a table's lookup is loaded, or ""
  NoRow,
  BatchRows    \* batch_size

Table == ToSet(Tables)
Row == UNION {ToSet(RowsOf[t]) : t \in Table}

ASSUME LoadAssumption ==
  /\ Tables \in Seq(Table) /\ IsInjective(Tables) /\ RowsOf \in [Table -> Seq(Row)]
  /\ Ref \in [Row -> Row \cup {NoRow}] /\ NoRow \notin Row
  /\ After \in [Table -> Table \cup {""}] /\ "" \notin Table /\ BatchRows \in Nat \ {0}
  \* Rows are told apart by the primary keys of their tables.
  /\ \A t, u \in Table : \A i \in DOMAIN RowsOf[t], j \in DOMAIN RowsOf[u] :
       RowsOf[t][i] = RowsOf[u][j] => t = u /\ i = j

\* What validation leaves to the writer of a mapping: a lookup is loaded when what it refers
\* to has been, in the step of its own table or after a later one.
LookupsInOrder ==
  \A i, j \in DOMAIN Tables : \A r \in ToSet(RowsOf[Tables[i]]), q \in ToSet(RowsOf[Tables[j]]) :
    Ref[r] = q =>
      IF After[Tables[i]] = "" THEN j < i
      ELSE \E k \in DOMAIN Tables : Tables[k] = After[Tables[i]] /\ i <= k /\ j <= k

VARIABLES
  bulkPc,
  dataOption,   \* ignore_row_errors, enable_rollback
  stepAt,       \* the step at hand
  dataApi,      \* the API of the step
  batches,      \* the batches of the step, each with its state and its results
  unsent,       \* the rows of the step not yet sent
  org,          \* server: the records the load made, in order
  idTable,      \* the record of each row, 0 for none
  insertTable,  \* the insert_rollback tables: records made
  upsertTable,  \* the upsert_rollback tables: records with their old lookup
  jobStatus,    \* job_result.status of the step
  rolledBack    \* whether a rollback has been done

bulkVars == <<bulkPc, dataOption, stepAt, dataApi, batches, unsent, org, idTable,
              insertTable, upsertTable, jobStatus, rolledBack>>

-----------------------------------------------------------------------------
(* The steps.                                                              *)

\* The elements of s at the positions P, in their order.
ElementsAt(s, P) == [k \in 1..Cardinality(P) |-> s[CHOOSE i \in P : Cardinality({j \in P : j <= i}) = k]]

\* _expand_mapping: after the step of a table, the updates deferred to it.
UpdatesAfter(t) == ElementsAt(Tables, {i \in DOMAIN Tables : After[Tables[i]] = t})

StepsOf(t) ==
  <<[action |-> "insert", table |-> t]>> \o
  [i \in DOMAIN UpdatesAfter(t) |-> [action |-> "update", table |-> UpdatesAfter(t)[i]]]

Steps == FlattenSeq([i \in DOMAIN Tables |-> StepsOf(Tables[i])])

Step == Steps[stepAt]

\* The id the query joins in for a row's lookup.
LookupId(r) == IF Ref[r] = NoRow THEN 0 ELSE idTable[Ref[r]]

\* _stream_queried_data: an update without a value is left out.
QueriedRows ==
  IF Step.action = "insert" THEN RowsOf[Step.table]
  ELSE ElementsAt(RowsOf[Step.table], {i \in DOMAIN RowsOf[Step.table] : LookupId(RowsOf[Step.table][i]) # 0})

BulkTypeOK ==
  /\ bulkPc \in {"idle", "step", "sending", "wait", "results", "rollback", "done", "failed"}
  /\ dataOption \in [ignore : BOOLEAN, rollback : BOOLEAN]
  /\ stepAt \in 1..(Len(Steps) + 1)
  /\ dataApi \in {"bulk", "rest"}
  /\ \A i \in DOMAIN batches :
       /\ batches[i].rows \in Seq(Row) /\ Len(batches[i].rows) <= BatchRows
       /\ batches[i].state \in {"Queued", "Completed", "Failed", "Not Processed"}
       /\ batches[i].results \in Seq(0..Len(org))
  /\ unsent \in Seq(Row)
  /\ \A i \in DOMAIN org : org[i].row \in Row /\ org[i].ref \in 0..Len(org) /\ org[i].alive \in BOOLEAN
  /\ idTable \in [Row -> 0..Len(org)]
  /\ insertTable \subseteq DOMAIN org
  /\ \A u \in upsertTable : u.id \in DOMAIN org /\ u.ref \in 0..Len(org)
  /\ jobStatus \in {"none", "Success", "Row failure", "Job failure", "Aborted"}
  /\ rolledBack \in BOOLEAN

BulkInit ==
  /\ bulkPc = "idle"
  /\ dataOption = [ignore |-> FALSE, rollback |-> FALSE]
  /\ stepAt = 1 /\ dataApi = "bulk" /\ batches = <<>> /\ unsent = <<>>
  /\ org = <<>> /\ idTable = [r \in Row |-> 0]
  /\ insertTable = {} /\ upsertTable = {} /\ jobStatus = "none" /\ rolledBack = FALSE

StartLoad ==
  /\ bulkPc = "idle" /\ bulkPc' = "step"
  /\ dataOption' \in [ignore : BOOLEAN, rollback : BOOLEAN]
  /\ UNCHANGED <<stepAt, dataApi, batches, unsent, org, idTable, insertTable, upsertTable,
                 jobStatus, rolledBack>>

\* get_prev_record_values: what the records have now.
OldValues ==
  {[id |-> idTable[r], ref |-> org[idTable[r]].ref] :
     r \in {r \in ToSet(QueriedRows) : idTable[r] # 0}}

\* configure_step (the volume decides on the API), UpdateRollback.prepare_for_rollback.
BeginStep ==
  /\ bulkPc = "step" /\ stepAt \in DOMAIN Steps
  /\ dataApi' \in {"bulk", "rest"}
  /\ batches' = <<>> /\ unsent' = QueriedRows /\ jobStatus' = "none"
  /\ upsertTable' = IF Step.action = "update" /\ dataOption.rollback
                    THEN upsertTable \cup OldValues ELSE upsertTable
  /\ bulkPc' = "sending"
  /\ UNCHANGED <<dataOption, stepAt, org, idTable, insertTable, rolledBack>>

-----------------------------------------------------------------------------
(* The server.  A row with nothing to update fails; any other may.         *)

\* Whether each row of a batch succeeds.
Success(rows) ==
  {s \in [DOMAIN rows -> BOOLEAN] :
     \A i \in DOMAIN rows : s[i] => Step.action = "insert" \/ idTable[rows[i]] # 0}

\* The successful rows up to the i-th.
Made(s, i) == Cardinality({j \in 1..i : s[j]})

Results(rows, s) ==
  [i \in DOMAIN rows |->
     IF ~s[i] THEN 0
     ELSE IF Step.action = "insert" THEN Len(org) + Made(s, i) ELSE idTable[rows[i]]]

Applied(rows, s) ==
  IF Step.action = "insert"
  THEN LET new == ElementsAt(rows, {i \in DOMAIN rows : s[i]})
       IN org \o [i \in DOMAIN new |->
                    [row |-> new[i], alive |-> TRUE, ref |-> IF After[Step.table] = "" THEN LookupId(new[i]) ELSE 0]]
  ELSE [k \in DOMAIN org |->
          IF \E i \in DOMAIN rows : s[i] /\ idTable[rows[i]] = k
          THEN [org[k] EXCEPT !.ref = LookupId(org[k].row)] ELSE org[k]]

\* A queued batch is processed, fails as a whole, or is dropped when somebody aborts
\* the job.
ServerBatch(i) ==
  /\ bulkPc \in {"sending", "wait"} /\ batches[i].state = "Queued"
  /\ \/ \E s \in Success(batches[i].rows) :
          /\ org' = Applied(batches[i].rows, s)
          /\ batches' = [batches EXCEPT ![i].state = "Completed",
                                        ![i].results = Results(batches[i].rows, s)]
     \/ \E state \in {"Failed", "Not Processed"} :
          batches' = [batches EXCEPT ![i].state = state] /\ UNCHANGED org
  /\ UNCHANGED <<bulkPc, dataOption, stepAt, dataApi, unsent, idTable, insertTable,
                 upsertTable, jobStatus, rolledBack>>

ServerBatches == \E i \in DOMAIN batches : ServerBatch(i)

-----------------------------------------------------------------------------
(* load_records.                                                           *)

NextRows == SubSeq(unsent, 1, IF Len(unsent) < BatchRows THEN Len(unsent) ELSE BatchRows)

\* Mutant: the row that fills the batch is lost.
RestLosing == SubSeq(unsent, Len(NextRows) + 2, Len(unsent))

Rest == SubSeq(unsent, Len(NextRows) + 1, Len(unsent))

\* BulkApiDmlOperation: post_batch.
PostBatch ==
  /\ bulkPc = "sending" /\ dataApi = "bulk" /\ unsent # <<>>
  /\ batches' = Append(batches, [rows |-> NextRows, state |-> "Queued", results |-> <<>>])
  /\ unsent' = Rest
  /\ UNCHANGED <<bulkPc, dataOption, stepAt, dataApi, org, idTable, insertTable,
                 upsertTable, jobStatus, rolledBack>>

\* RestApiDmlOperation: the answer to a chunk has its results.
SendChunk ==
  /\ bulkPc = "sending" /\ dataApi = "rest" /\ unsent # <<>>
  /\ \E s \in Success(NextRows) :
       /\ org' = Applied(NextRows, s)
       /\ batches' = Append(batches, [rows |-> NextRows, state |-> "Completed",
                                      results |-> Results(NextRows, s)])
  /\ unsent' = Rest
  /\ UNCHANGED <<bulkPc, dataOption, stepAt, dataApi, idTable, insertTable, upsertTable,
                 jobStatus, rolledBack>>

\* end()
Sent ==
  /\ bulkPc = "sending" /\ unsent = <<>>
  /\ bulkPc' = "wait"
  /\ UNCHANGED <<dataOption, stepAt, dataApi, batches, unsent, org, idTable, insertTable,
                 upsertTable, jobStatus, rolledBack>>

\* A call fails: the task ends, and nothing is rolled back.
CallFails ==
  /\ bulkPc \in {"sending", "wait"}
  /\ bulkPc' = "failed"
  /\ UNCHANGED <<dataOption, stepAt, dataApi, batches, unsent, org, idTable, insertTable,
                 upsertTable, jobStatus, rolledBack>>

States == {batches[i].state : i \in DOMAIN batches}

\* Mutant: a batch that failed ends the wait for the others.
_parse_job_stateAny ==
  IF "Not Processed" \in States THEN "Aborted"
  ELSE IF "Failed" \in States THEN "Job failure"
  ELSE IF "Queued" \in States THEN "In progress"
  ELSE IF \E i \in DOMAIN batches : 0 \in ToSet(batches[i].results) THEN "Row failure"
  ELSE "Success"

\* Mutant: an aborted job is not known as such.
_parse_job_stateNoAbort ==
  IF States \cap {"Queued", "Not Processed"} # {} THEN "In progress"
  ELSE IF "Failed" \in States THEN "Job failure"
  ELSE IF \E i \in DOMAIN batches : 0 \in ToSet(batches[i].results) THEN "Row failure"
  ELSE "Success"

\* The status of the job, by that of its batches.
_parse_job_state ==
  IF "Not Processed" \in States THEN "Aborted"
  ELSE IF "Queued" \in States THEN "In progress"
  ELSE IF "Failed" \in States THEN "Job failure"
  ELSE IF \E i \in DOMAIN batches : 0 \in ToSet(batches[i].results) THEN "Row failure"
  ELSE "Success"

\* _wait_for_job, and what _execute_step does with a job that failed.
JobEnded ==
  /\ bulkPc = "wait" /\ _parse_job_state # "In progress"
  /\ jobStatus' = _parse_job_state
  /\ bulkPc' = IF jobStatus' # "Job failure" THEN "results"
               ELSE IF dataOption.rollback THEN "rollback" ELSE "failed"
  /\ UNCHANGED <<dataOption, stepAt, dataApi, batches, unsent, org, idTable, insertTable,
                 upsertTable, rolledBack>>

-----------------------------------------------------------------------------
(* _process_job_results, _generate_results_id_map.                         *)

AllResults == FlattenSeq([i \in DOMAIN batches |-> batches[i].results])

LocalIds == FlattenSeq([i \in DOMAIN batches |-> batches[i].rows])

\* Mutant: failed rows are left out before the results meet the local ids.
ResultOfSkipping(n) ==
  LET good == SelectSeq(AllResults, LAMBDA id : id # 0)
  IN IF n \in DOMAIN good THEN good[n] ELSE 0

\* The n-th result is that of the n-th local id.
ResultOf(n) == AllResults[n]

Failures == {n \in DOMAIN LocalIds : ResultOf(n) = 0}

\* The result of a batch that was not processed cannot be downloaded.
NoDownload ==
  /\ bulkPc = "results" /\ jobStatus = "Aborted"
  /\ bulkPc' = "failed"
  /\ UNCHANGED <<dataOption, stepAt, dataApi, batches, unsent, org, idTable, insertTable,
                 upsertTable, jobStatus, rolledBack>>

\* Mutant: the records made are noted after the check of the rows.
ProcessResultsLate ==
  /\ bulkPc = "results" /\ jobStatus # "Aborted"
  /\ LET fatal == Failures # {} /\ ~dataOption.ignore IN
     /\ insertTable' = IF dataOption.rollback /\ Step.action = "insert" /\ ~fatal
                       THEN insertTable \cup {ResultOf(n) : n \in DOMAIN LocalIds \ Failures}
                       ELSE insertTable
     /\ IF fatal
        THEN /\ bulkPc' = IF dataOption.rollback THEN "rollback" ELSE "failed"
             /\ UNCHANGED <<idTable, stepAt>>
        ELSE /\ idTable' = IF Step.action # "insert" THEN idTable
                           ELSE [r \in Row |->
                                   IF \E n \in DOMAIN LocalIds : LocalIds[n] = r
                                   THEN ResultOf(CHOOSE n \in DOMAIN LocalIds : LocalIds[n] = r)
                                   ELSE idTable[r]]
             /\ stepAt' = stepAt + 1 /\ bulkPc' = "step"
  /\ UNCHANGED <<dataOption, dataApi, batches, unsent, org, upsertTable, jobStatus, rolledBack>>

ProcessResults ==
  /\ bulkPc = "results" /\ jobStatus # "Aborted"
  /\ insertTable' = IF dataOption.rollback /\ Step.action = "insert"
                    THEN insertTable \cup {ResultOf(n) : n \in DOMAIN LocalIds \ Failures}
                    ELSE insertTable
  /\ IF Failures # {} /\ ~dataOption.ignore
     THEN /\ bulkPc' = IF dataOption.rollback THEN "rollback" ELSE "failed"
          /\ UNCHANGED <<idTable, stepAt>>
     ELSE /\ idTable' = IF Step.action # "insert" THEN idTable
                        ELSE [r \in Row |->
                                IF \E n \in DOMAIN LocalIds : LocalIds[n] = r
                                THEN ResultOf(CHOOSE n \in DOMAIN LocalIds : LocalIds[n] = r)
                                ELSE idTable[r]]
          /\ stepAt' = stepAt + 1 /\ bulkPc' = "step"
  /\ UNCHANGED <<dataOption, dataApi, batches, unsent, org, upsertTable, jobStatus, rolledBack>>

EndLoad ==
  /\ bulkPc = "step" /\ stepAt \notin DOMAIN Steps
  /\ bulkPc' = "done"
  /\ UNCHANGED <<dataOption, stepAt, dataApi, batches, unsent, org, idTable, insertTable,
                 upsertTable, jobStatus, rolledBack>>

\* Rollback._perform_rollback: old values are put back and what was made is deleted.
PerformRollback ==
  /\ bulkPc = "rollback"
  /\ org' = [k \in DOMAIN org |->
               [org[k] EXCEPT
                  !.alive = k \notin insertTable,
                  !.ref = IF \E u \in upsertTable : u.id = k
                          THEN (CHOOSE u \in upsertTable : u.id = k).ref ELSE org[k].ref]]
  /\ rolledBack' = TRUE /\ bulkPc' = "failed"
  /\ UNCHANGED <<dataOption, stepAt, dataApi, batches, unsent, idTable, insertTable,
                 upsertTable, jobStatus>>

TaskStepOfLoad ==
  \/ BeginStep \/ PostBatch \/ SendChunk \/ Sent \/ JobEnded \/ NoDownload \/ ProcessResults
  \/ EndLoad \/ PerformRollback

BulkNext == StartLoad \/ TaskStepOfLoad \/ ServerBatches \/ CallFails

BulkSpec == BulkInit /\ [][BulkNext]_bulkVars

BulkFairness == WF_bulkVars(TaskStepOfLoad) /\ WF_bulkVars(ServerBatches)

-----------------------------------------------------------------------------
(* Properties.                                                             *)

\* The id noted for a row is that of the record made of it, and a lookup refers to the
\* record of the row it is meant for, wherever rows failed before it.
LookupsAreRight ==
  /\ \A r \in Row : idTable[r] # 0 => org[idTable[r]].row = r
  /\ \A k \in DOMAIN org : org[k].ref # 0 => org[org[k].ref].row = Ref[org[k].row]

\* A load that succeeds has every row in the org, once, with its lookup; one that
\* ignores row errors misses only rows that failed.
DoneIsComplete ==
  bulkPc = "done" =>
    /\ \A r \in Row : Cardinality({k \in DOMAIN org : org[k].row = r}) <= 1
    /\ ~dataOption.ignore => \A r \in Row :
         \E k \in DOMAIN org : org[k].row = r /\ (Ref[r] # NoRow => org[k].ref # 0)

\* A load that fails for the errors of its rows leaves nothing behind, if it is to
\* be rolled back.
RowErrorsLeaveNothing ==
  rolledBack /\ jobStatus = "Row failure" => \A k \in DOMAIN org : ~org[k].alive

\* No batch of a step is still to be processed when the task goes on from it.
NothingStillRuns ==
  bulkPc \in {"step", "rollback", "done"} => "Queued" \notin States

\* What a load promises, wherever its calls and its rows fail.
LoadsAreSound ==
  /\ BulkTypeOK
  /\ LookupsAreRight /\ DoneIsComplete /\ RowErrorsLeaveNothing /\ NothingStillRuns

\* A load ends, and so does each of its jobs.
LoadEnds == bulkPc # "idle" ~> bulkPc \in {"done", "failed"}

\* Does not hold.  "Perform total rollback" (load.py:1083): not of the batches that
\* were processed when another of the same job failed.
RollbackIsTotal == rolledBack => \A k \in DOMAIN org : ~org[k].alive
=============================================================================
