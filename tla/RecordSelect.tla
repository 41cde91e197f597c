---------------------------- MODULE RecordSelect ----------------------------
(***************************************************************************)
(* The select action of a data mapping (cumulusci/tasks/bulkdata): the     *)
(* rows of a table are matched with records the org already has            *)
(* (select_utils.py), a row without a match is inserted (step.py), and the *)
(* results meet the rows by position (load.py).                            *)
(***************************************************************************)
EXTENDS Integers, Sequences, FiniteSets, SequencesExt, FiniteSetsExt

CONSTANTS
  Values,       \* the values of the field that is compared, each a sequence of letters
  MaxRows,      \* bound on the rows to load
  MaxExisting,  \* bound on the records of the org
  Thresholds    \* the thresholds, in twentieths; -1 is none

ASSUME SelectAssumption ==
  /\ \A v \in Values : Len(v) \in {0, 1, 2}
  /\ MaxRows \in Nat /\ MaxExisting \in Nat
  /\ Thresholds \subseteq -1..20

VARIABLES
  selectPc,
  selectOption,  \* strategy, threshold, algorithm, api, ignore_row_errors, enable_rollback
  rows,          \* the values of the rows
  existing,      \* the values of the records of the org; the id of a record is its place
  queried,       \* how many of them the query returned
  matches,       \* the record for each row, 0 where one is to be inserted
  inserted,      \* the rows inserted, in order, each with whether it succeeded
  results,       \* the results: ids, and whether the record was created
  selectIds,     \* the id noted for each row, 0 for none
  removed        \* the ids deleted by the rollback

selectVars == <<selectPc, selectOption, rows, existing, queried, matches, inserted, results,
                selectIds, removed>>

Strategy == {"standard", "similarity", "random"}

SelectTypeOK ==
  /\ selectPc \in {"idle", "query", "post", "insert", "results", "done", "failed"}
  /\ selectOption \in [strategy : Strategy, threshold : Thresholds, annoy : BOOLEAN,
                       api : {"bulk", "rest"}, ignore : BOOLEAN, rollback : BOOLEAN]
  /\ rows \in Seq(Values) /\ existing \in Seq(Values)
  /\ queried \in 0..Len(existing)
  /\ matches \in Seq(0..Len(existing))
  /\ \A i \in DOMAIN inserted : inserted[i].row \in DOMAIN rows /\ inserted[i].success \in BOOLEAN
  /\ \A n \in DOMAIN results :
       results[n].id \in 0..(Len(existing) + Len(rows)) /\ results[n].created \in BOOLEAN
  /\ \A n \in DOMAIN selectIds : selectIds[n] \in 0..(Len(existing) + Len(rows))

SelectInit ==
  /\ selectPc = "idle"
  /\ selectOption \in [strategy : {"standard"}, threshold : {-1} \cap Thresholds,
                       annoy : {FALSE}, api : {"bulk"}, ignore : {FALSE}, rollback : {FALSE}]
  /\ rows = <<>> /\ existing = <<>> /\ queried = 0
  /\ matches = <<>> /\ inserted = <<>> /\ results = <<>> /\ selectIds = <<>> /\ removed = {}

\* A threshold goes with the similarity strategy only; annoy serves large volumes.  Without a
\* threshold nothing is inserted, and the API makes no difference.
BeginSelect ==
  /\ selectPc = "idle" /\ selectPc' = "query"
  /\ selectOption' \in
       {o \in [strategy : Strategy, threshold : Thresholds, annoy : BOOLEAN,
               api : {"bulk", "rest"}, ignore : BOOLEAN, rollback : BOOLEAN] :
          /\ o.strategy # "similarity" => o.threshold = -1 /\ ~o.annoy
          /\ o.threshold = -1 => o.api = "bulk"}
  /\ rows' \in BoundedSeq(Values, MaxRows)
  /\ existing' \in BoundedSeq(Values, MaxExisting)
  /\ UNCHANGED <<queried, matches, inserted, results, selectIds, removed>>

\* Without rows there is nothing to ask.  Similarity retrieves all the records, the
\* others as many as there are rows.
QueryRecords ==
  /\ selectPc = "query"
  /\ queried' = IF selectOption.strategy = "similarity" \/ Len(existing) < Len(rows)
                THEN Len(existing) ELSE Len(rows)
  /\ selectPc' = IF rows = <<>> THEN "results" ELSE "post"
  /\ UNCHANGED <<selectOption, rows, existing, matches, inserted, results, selectIds, removed>>

-----------------------------------------------------------------------------
(* The distance of two values.                                             *)

Smallest(S) == Min(S)

\* Mutant: a deletion costs nothing at the start.
levenshtein_distanceFree(s, t) ==
  LET dp[i \in 0..Len(s), j \in 0..Len(t)] ==
        IF i = 0 THEN j ELSE IF j = 0 THEN 0
        ELSE Smallest({dp[i - 1, j] + 1, dp[i, j - 1] + 1,
                    dp[i - 1, j - 1] + (IF s[i] = t[j] THEN 0 ELSE 1)})
  IN dp[Len(s), Len(t)]

levenshtein_distance(s, t) ==
  LET dp[i \in 0..Len(s), j \in 0..Len(t)] ==
        IF i = 0 THEN j ELSE IF j = 0 THEN i
        ELSE Smallest({dp[i - 1, j] + 1, dp[i, j - 1] + 1,
                    dp[i - 1, j - 1] + (IF s[i] = t[j] THEN 0 ELSE 1)})
  IN dp[Len(s), Len(t)]

\* calculate_levenshtein_distance, in twentieths: a blank against a value counts 0.05.
Distance(s, t) ==
  IF s = <<>> /\ t = <<>> THEN 0
  ELSE IF s = <<>> \/ t = <<>> THEN 1
  ELSE (20 * levenshtein_distance(s, t)) \div Max({Len(s), Len(t)})

-----------------------------------------------------------------------------
(* select_post_process.                                                    *)

Queried == 1..queried

\* Mutant: with fewer records than rows, only the first is repeated.
StandardMatchesFirst == {[n \in DOMAIN rows |-> IF queried = Len(rows) THEN n ELSE 1]}

\* The records are repeated as often as it takes.
StandardMatches == {[n \in DOMAIN rows |-> ((n - 1) % queried) + 1]}

\* find_closest_record takes the first of the closest.
Closest(n) ==
  CHOOSE k \in Queried :
    /\ \A j \in Queried : Distance(rows[n], existing[k]) <= Distance(rows[n], existing[j])
    /\ \A j \in 1..(k - 1) : Distance(rows[n], existing[k]) < Distance(rows[n], existing[j])

\* Mutant: a threshold of 0 is taken for none.
TooFarTruthy(n) ==
  /\ selectOption.threshold > 0
  /\ Distance(rows[n], existing[Closest(n)]) > selectOption.threshold

TooFar(n) ==
  /\ selectOption.threshold # -1
  /\ Distance(rows[n], existing[Closest(n)]) > selectOption.threshold

LevenshteinMatches ==
  {[n \in DOMAIN rows |-> IF queried = 0 \/ TooFar(n) THEN 0 ELSE Closest(n)]}

\* The neighbours of annoy are approximate; records with the same values are known by
\* the last of them.
LastAlike(k) == Max({j \in Queried : existing[j] = existing[k]})

AnnoyMatches ==
  IF queried = 0 THEN {[n \in DOMAIN rows |-> 0]}
  ELSE [DOMAIN rows -> {LastAlike(k) : k \in Queried} \cup
                       (IF selectOption.threshold = -1 THEN {} ELSE {0})]

Matches ==
  CASE selectOption.strategy = "standard" -> StandardMatches
    [] selectOption.strategy = "random" -> [DOMAIN rows -> Queried]
    [] selectOption.strategy = "similarity" ->
         IF selectOption.annoy THEN AnnoyMatches ELSE LevenshteinMatches

\* Without records there is nothing to select, unless rows may be inserted.
NothingToSelect ==
  /\ selectPc = "post" /\ queried = 0 /\ selectOption.threshold = -1
  /\ selectPc' = "failed"
  /\ UNCHANGED <<selectOption, rows, existing, queried, matches, inserted, results, selectIds,
                 removed>>

PostProcess ==
  /\ selectPc = "post" /\ ~(queried = 0 /\ selectOption.threshold = -1)
  /\ matches' \in Matches
  /\ selectPc' = "insert"
  /\ UNCHANGED <<selectOption, rows, existing, queried, inserted, results, selectIds, removed>>

-----------------------------------------------------------------------------
(* _process_insert_records.                                                *)

ToInsert == SelectSeq([n \in DOMAIN rows |-> n], LAMBDA n : matches[n] = 0)

\* The id of the i-th record inserted.
InsertedId(ins, i) ==
  IF ins[i].success THEN Len(existing) + Cardinality({j \in 1..i : ins[j].success}) ELSE 0

\* Mutant: the results of the rows that failed are left out.
PlacedSkipping(ins, n) ==
  LET good == SelectSeq(ins, LAMBDA x : x.success)
      i == Cardinality({m \in 1..n : matches[m] = 0})
  IN IF i \in DOMAIN good THEN Len(existing) + i ELSE 0

\* The next result goes to the next row that has none.
Placed(ins, n) == InsertedId(ins, Cardinality({m \in 1..n : matches[m] = 0}))

\* What is inserted over REST comes back without a mark that it was created.
InsertRecords ==
  /\ selectPc = "insert"
  /\ \E success \in [DOMAIN ToInsert -> BOOLEAN] :
       LET ins == [i \in DOMAIN ToInsert |-> [row |-> ToInsert[i], success |-> success[i]]]
       IN /\ inserted' = ins
          /\ results' = [n \in DOMAIN rows |->
                           IF matches[n] # 0 THEN [id |-> matches[n], created |-> FALSE]
                           ELSE [id |-> Placed(ins, n),
                                 created |-> selectOption.api = "bulk" /\ Placed(ins, n) # 0]]
  /\ selectPc' = "results"
  /\ UNCHANGED <<selectOption, rows, existing, queried, matches, selectIds, removed>>

\* The request, or the download of what a batch did, fails.
InsertFails ==
  /\ selectPc \in {"query", "insert"} /\ rows # <<>> /\ selectPc' = "failed"
  /\ UNCHANGED <<selectOption, rows, existing, queried, matches, inserted, results, selectIds,
                 removed>>

-----------------------------------------------------------------------------
(* _generate_results_id_map.                                               *)

Succeeded == {n \in DOMAIN results : results[n].id # 0}

\* Mutant: what was selected is noted as created too.
CreatedResultsAll == {results[n].id : n \in Succeeded}

CreatedResults == {results[n].id : n \in {n \in Succeeded : results[n].created}}

ProcessSelected ==
  /\ selectPc = "results"
  /\ IF Succeeded # DOMAIN results /\ ~selectOption.ignore
     THEN /\ selectPc' = "failed"
          /\ removed' = IF selectOption.rollback THEN CreatedResults ELSE {}
          /\ UNCHANGED selectIds
     ELSE /\ selectPc' = "done"
          /\ selectIds' = [n \in DOMAIN results |-> results[n].id]
          /\ UNCHANGED removed
  /\ UNCHANGED <<selectOption, rows, existing, queried, matches, inserted, results>>

\* A later step fails, and everything is rolled back.
LaterStepFails ==
  /\ selectPc = "done" /\ selectOption.rollback
  /\ selectPc' = "failed" /\ removed' = CreatedResults
  /\ UNCHANGED <<selectOption, rows, existing, queried, matches, inserted, results, selectIds>>

SelectNext ==
  \/ BeginSelect \/ QueryRecords \/ NothingToSelect \/ PostProcess \/ InsertRecords
  \/ InsertFails \/ ProcessSelected \/ LaterStepFails

SelectSpec == SelectInit /\ [][SelectNext]_selectVars

-----------------------------------------------------------------------------
(* Properties.                                                             *)

\* Every row gets the record it asked for: the one inserted for it, though others before
\* it failed, if all of the org are further than the threshold, or one of the org no further
\* than the threshold and than any other.
RowsGetTheirRecords ==
  selectPc = "done" => \A n \in DOMAIN rows :
    LET id == selectIds[n] IN
      \/ id = 0 /\ selectOption.ignore
      \/ id > Len(existing) /\ matches[n] = 0 /\ selectOption.threshold # -1
           /\ \E i \in DOMAIN inserted : inserted[i].row = n /\ InsertedId(inserted, i) = id
           /\ ~selectOption.annoy =>
                \A j \in Queried : Distance(rows[n], existing[j]) > selectOption.threshold
      \/ id \in Queried /\
           (selectOption.strategy = "similarity" /\ ~selectOption.annoy =>
              /\ selectOption.threshold # -1 => Distance(rows[n], existing[id]) <= selectOption.threshold
              /\ \A j \in Queried : Distance(rows[n], existing[id]) <= Distance(rows[n], existing[j]))

\* The standard strategy uses the records it retrieved evenly.
SelectedEvenly ==
  selectOption.strategy = "standard" /\ matches # <<>> =>
    \A j, k \in Queried :
      Cardinality({n \in DOMAIN matches : matches[n] = j}) <=
        Cardinality({n \in DOMAIN matches : matches[n] = k}) + 1

\* A rollback deletes no record that was there before.
RollbackSparesTheSelected == removed \cap DOMAIN existing = {}

\* It deletes all that Bulk inserted, once the results are there.
InsertedIds == {InsertedId(inserted, i) : i \in {i \in DOMAIN inserted : inserted[i].success}}
RollbackRemovesTheInserted ==
  selectPc = "failed" /\ results # <<>> /\ selectOption.rollback /\ selectOption.api = "bulk"
    => InsertedIds \subseteq removed

\* The distance that decides is one: symmetric, zero for equal values only, and never
\* longer directly than by way of a third.
DistanceIsAMetric ==
  selectPc = "post" => \A s, t \in ToSet(rows) \cup ToSet(existing) :
    /\ levenshtein_distance(s, t) = levenshtein_distance(t, s)
    /\ levenshtein_distance(s, t) = 0 <=> s = t
    /\ \A u \in ToSet(rows) \cup ToSet(existing) :
         levenshtein_distance(s, t) <= levenshtein_distance(s, u) + levenshtein_distance(u, t)

-----------------------------------------------------------------------------
(* What is said of the selection and does not hold.                        *)

\* _generate_results_id_map: "Adds created records into insert_rollback Table"; but a select
\* step over REST takes the results of its insert without a mark (step.py:1050), and what it
\* inserted outlives the rollback.
RollbackRemovesAllInserted ==
  selectPc = "failed" /\ results # <<>> /\ selectOption.rollback => InsertedIds \subseteq removed
=============================================================================
