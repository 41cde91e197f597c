------------------------------ MODULE SchemaCache ------------------------------
(* The description of an org's objects, kept as a compressed database in a file   *)
(* that every process of a user shares: a process loads it, asks the org for the  *)
(* objects that changed since, by composite requests in parallel, some of which   *)
(* time out and are asked again one by one, writes what came over what it has,    *)
(* and saves it, while others do the same and the org changes.  Between looking   *)
(* for the file, reading it and removing it, others come in.                      *)
EXTENDS Integers, Sequences, FiniteSets, SequencesExt, TLAPS

CONSTANTS
  ObjectNames,       \* as the org lists them
  FieldsAtFirst,     \* fields of each object in the beginning
  SchemaProcs,
  Asks,              \* what is asked for: [objects, counts, force]
  ChunkSize,         \* requests in a composite request
  MaxSchemaRuns,     \* bound: schemas asked for, by all processes
  MaxSchemaChanges,  \* bound: changes of the org
  MaxSchemaFaults    \* bound: requests that fail, and processes killed

ASSUME SchemaAssumption ==
  /\ ChunkSize \in Nat \ {0} /\ {MaxSchemaRuns, MaxSchemaChanges, MaxSchemaFaults} \subseteq Nat
  /\ Asks \subseteq [objects : SUBSET ToSet(ObjectNames), counts : BOOLEAN, force : BOOLEAN]

VARIABLES
  described,  \* external: fields of each object in the org, none if it is not there, and when it changed
  earlier,    \* history: what each object was, by the time it changed
  cacheFile,  \* the file: "none", "ok", "old" format or "broken", its database, and whether several wrote it at a time
  writing,    \* processes that are writing the file there is, and not one that was removed
  schemas,    \* by process: how far it is, its database, and what it has asked and got
  schemaRuns, schemaChanges, schemaFaults

schemaVars == <<described, earlier, cacheFile, writing, schemas, schemaRuns, schemaChanges, schemaFaults>>

SObjects == ToSet(ObjectNames)
AnyField == UNION {FieldsAtFirst[o] : o \in SObjects}
EmptyDb == [o \in {} |-> 0]
NoFile == [state |-> "none", db |-> EmptyDb, mixed |-> FALSE]
Broken == [state |-> "broken", db |-> EmptyDb, mixed |-> FALSE]
\* raced is history: another process removed the file when this one was about to.
Idle == [at |-> "idle", db |-> EmptyDb, counts |-> FALSE, names |-> {}, chunks |-> {}, single |-> {},
         changes |-> EmptyDb, answered |-> EmptyDb, faulty |-> FALSE, included |-> {}, raced |-> FALSE]
Stages == {"idle", "force", "look", "read", "unlink", "list", "ask", "store", "count", "save", "saving",
           "yielded", "failed"}

SchemaTypeOK ==
  /\ \A o \in SObjects : described[o].fields \subseteq AnyField /\ described[o].modified \in 1..(MaxSchemaChanges + 1)
  /\ cacheFile.state \in {"none", "ok", "old", "broken"} /\ DOMAIN cacheFile.db \subseteq SObjects
  /\ writing \subseteq SchemaProcs /\ \A p \in SchemaProcs : schemas[p].at \in Stages
  /\ schemaRuns \in 0..MaxSchemaRuns /\ schemaChanges \in 0..MaxSchemaChanges
  /\ schemaFaults \in 0..MaxSchemaFaults

SchemaInit ==
  /\ described = [o \in SObjects |-> [fields |-> FieldsAtFirst[o], modified |-> 1]]
  /\ earlier = {[object |-> o, modified |-> 1, fields |-> FieldsAtFirst[o]] : o \in SObjects}
  /\ \E state \in {"none", "old"} : cacheFile = [NoFile EXCEPT !.state = state]
  /\ writing = {} /\ schemas = [p \in SchemaProcs |-> Idle]
  /\ schemaRuns = 0 /\ schemaChanges = 0 /\ schemaFaults = 0

To(p, s) == schemas' = [schemas EXCEPT ![p] = s]

\* iterate_in_chunks over the names in the order of the org.
Chunks(names) ==
  LET asked == {i \in DOMAIN ObjectNames : ObjectNames[i] \in names}
      ChunkOf(i) == Cardinality({j \in asked : j < i}) \div ChunkSize
  IN  {{ObjectNames[j] : j \in {j \in asked : ChunkOf(j) = ChunkOf(i)}} : i \in asked}

\* With force_recache, a file that is there is removed first.
get_org_schema(p, a) ==
  /\ schemas[p].at = "idle" /\ schemaRuns < MaxSchemaRuns /\ schemaRuns' = schemaRuns + 1
  /\ To(p, [Idle EXCEPT !.at = IF a.force /\ cacheFile.state # "none" THEN "force" ELSE "look",
                        !.counts = a.counts, !.names = a.objects])
  /\ UNCHANGED <<described, earlier, cacheFile, writing, schemaChanges, schemaFaults>>
schema_path_exists(p) ==
  /\ schemas[p].at = "look"
  /\ To(p, [schemas[p] EXCEPT !.at = IF cacheFile.state = "none" THEN "list" ELSE "read"])
  /\ UNCHANGED <<described, earlier, cacheFile, writing, schemaRuns, schemaChanges, schemaFaults>>

\* One with no tables, of another format or without an object is to be removed; one that is
\* not there any more or cannot be unzipped stays as it is until it is written over.
AfterReading ==
  LET usable == cacheFile.state = "ok" /\ cacheFile.db # EmptyDb
  IN  IF usable \/ cacheFile.state = "none" THEN {"list"}
      ELSE IF cacheFile.state = "broken" THEN {"list", "unlink"} ELSE {"unlink"}
\* A mutant: a file that cannot be unzipped is an error.
AfterReadingStrict == IF cacheFile.state = "broken" THEN {"failed", "unlink"} ELSE AfterReading
unzip_database(p) ==
  /\ schemas[p].at = "read"
  /\ \E at \in AfterReading : To(p, [schemas[p] EXCEPT !.at = at, !.db = IF at = "list" THEN cacheFile.db ELSE EmptyDb])
  /\ UNCHANGED <<described, earlier, cacheFile, writing, schemaRuns, schemaChanges, schemaFaults>>

\* Whatever is in the file by now, and whoever is writing it; without one, the error is raised.
unlink(p) ==
  /\ schemas[p].at \in {"force", "unlink"}
  /\ LET there == cacheFile.state # "none"
         next  == IF ~there THEN "failed" ELSE IF schemas[p].at = "force" THEN "look" ELSE "list"
     IN  schemas' = [q \in SchemaProcs |->
                      IF q = p THEN [schemas[p] EXCEPT !.at = next]
                      ELSE IF there /\ schemas[q].at \in {"force", "unlink"} THEN [schemas[q] EXCEPT !.raced = TRUE]
                      ELSE schemas[q]]
  /\ cacheFile' = NoFile /\ writing' = {}
  /\ UNCHANGED <<described, earlier, schemaRuns, schemaChanges, schemaFaults>>

\* The org lists its objects.
populate_cache(p) ==
  /\ schemas[p].at = "list"
  /\ LET names == {o \in schemas[p].names : described[o].fields # {}}
     IN  To(p, [schemas[p] EXCEPT !.at = "ask", !.names = names, !.chunks = Chunks(names)])
  /\ UNCHANGED <<described, earlier, cacheFile, writing, schemaRuns, schemaChanges, schemaFaults>>

\* External: an org answers with an object that changed since the time given; 304 has no body.
Since(db, o) == IF o \in DOMAIN db THEN db[o].modified ELSE 0
DescribeAnswer(db, o) == IF described[o].fields = {} THEN 404 ELSE IF described[o].modified > Since(db, o) THEN 200 ELSE 304
Put(f, o, v) == [x \in DOMAIN f \cup {o} |-> IF x = o THEN v ELSE f[x]]
Got(s, S) ==
  LET new == {o \in S : DescribeAnswer(s.db, o) = 200}
  IN  [s EXCEPT !.changes = [o \in DOMAIN @ \cup new |-> IF o \in new THEN described[o] ELSE @[o]],
                !.answered = [o \in DOMAIN @ \cup {o \in S : DescribeAnswer(s.db, o) # 404} |->
                               IF o \in S THEN described[o].fields ELSE @[o]]]

\* The answers of the requests come in any order.
CompositeAnswer(p, chunk) ==
  /\ schemas[p].at = "ask" /\ chunk \in schemas[p].chunks
  /\ To(p, [Got(schemas[p], chunk) EXCEPT !.chunks = @ \ {chunk}])
  /\ UNCHANGED <<described, earlier, cacheFile, writing, schemaRuns, schemaChanges, schemaFaults>>
\* A timeout is recoverable; other errors are raised in the end.
CompositeError(p, chunk, recoverable) ==
  /\ schemas[p].at = "ask" /\ chunk \in schemas[p].chunks
  /\ schemaFaults < MaxSchemaFaults /\ schemaFaults' = schemaFaults + 1
  /\ To(p, [schemas[p] EXCEPT !.chunks = @ \ {chunk}, !.single = IF recoverable THEN @ \cup chunk ELSE @,
                              !.faulty = @ \/ ~recoverable])
  /\ UNCHANGED <<described, earlier, cacheFile, writing, schemaRuns, schemaChanges>>

\* When all chunks are through, those that timed out are asked for one by one; an answer
\* without a body cannot be read.
SingleAnswer(p, o) ==
  /\ schemas[p].at = "ask" /\ schemas[p].chunks = {} /\ o \in schemas[p].single
  /\ To(p, IF DescribeAnswer(schemas[p].db, o) = 304 THEN [schemas[p] EXCEPT !.at = "failed"]
           ELSE [Got(schemas[p], {o}) EXCEPT !.single = @ \ {o}])
  /\ UNCHANGED <<described, earlier, cacheFile, writing, schemaRuns, schemaChanges, schemaFaults>>
\* A second timeout leaves the object as it was.
SingleError(p, o, recoverable) ==
  /\ schemas[p].at = "ask" /\ schemas[p].chunks = {} /\ o \in schemas[p].single
  /\ schemaFaults < MaxSchemaFaults /\ schemaFaults' = schemaFaults + 1
  /\ To(p, [schemas[p] EXCEPT !.single = @ \ {o}, !.faulty = @ \/ ~recoverable])
  /\ UNCHANGED <<described, earlier, cacheFile, writing, schemaRuns, schemaChanges>>
deep_describe(p) ==
  /\ schemas[p].at = "ask" /\ schemas[p].chunks = {} /\ schemas[p].single = {}
  /\ To(p, [schemas[p] EXCEPT !.at = IF schemas[p].faulty THEN "failed" ELSE "store"])
  /\ UNCHANGED <<described, earlier, cacheFile, writing, schemaRuns, schemaChanges, schemaFaults>>

\* A mutant: the time of an object is that of the request, as good as the last there is.
create_rowLatest(db, o, row) ==
  Put(db, o, [fields |-> (IF o \in DOMAIN db THEN db[o].fields ELSE {}) \cup row.fields,
              modified |-> 1 + row.modified])
\* Rows replace those of the same key: that of an object its own, those of fields theirs.
create_row(db, o, row) ==
  Put(db, o, [fields |-> (IF o \in DOMAIN db THEN db[o].fields ELSE {}) \cup row.fields,
              modified |-> row.modified])
_populate_cache_from_describe(p) ==
  /\ schemas[p].at = "store"
  /\ LET s == schemas[p]
     IN  To(p, [s EXCEPT !.at = IF s.counts THEN "count" ELSE "save", !.included = s.names,
                         !.db = [o \in DOMAIN @ \cup DOMAIN s.changes |->
                                  IF o \in DOMAIN s.changes THEN create_row(@, o, s.changes[o])[o] ELSE @[o]]])
  /\ UNCHANGED <<described, earlier, cacheFile, writing, schemaRuns, schemaChanges, schemaFaults>>

\* SObjects that cannot be counted are left out.  After a timeout the answers do not say what
\* they are of.
populate_counts(p, timeout) ==
  /\ schemas[p].at = "count" /\ (timeout => schemaFaults < MaxSchemaFaults /\ schemas[p].names # {})
  /\ schemaFaults' = IF timeout THEN schemaFaults + 1 ELSE schemaFaults
  /\ To(p, IF timeout THEN [schemas[p] EXCEPT !.at = "failed"]
           ELSE [schemas[p] EXCEPT !.at = "save", !.included = {o \in @ : described[o].fields # {}}])
  /\ UNCHANGED <<described, earlier, cacheFile, writing, schemaRuns, schemaChanges>>

\* The file is emptied and then written.
zip_database(p) ==
  /\ schemas[p].at = "save" /\ To(p, [schemas[p] EXCEPT !.at = "saving"])
  /\ cacheFile' = [Broken EXCEPT !.mixed = (writing # {})] /\ writing' = writing \cup {p}
  /\ UNCHANGED <<described, earlier, schemaRuns, schemaChanges, schemaFaults>>
\* What two write at a time may be readable in the end, as the one or the other, or not; what
\* is written to a file that was removed is nowhere.
Zipped(p) ==
  /\ schemas[p].at = "saving" /\ To(p, [schemas[p] EXCEPT !.at = "yielded"])
  /\ writing' = writing \ {p}
  /\ LET written == [cacheFile EXCEPT !.state = "ok", !.db = schemas[p].db]
     IN  cacheFile' \in IF p \notin writing THEN {cacheFile}
                       ELSE {written} \cup IF cacheFile.mixed THEN {cacheFile, [Broken EXCEPT !.mixed = TRUE]} ELSE {}
  /\ UNCHANGED <<described, earlier, schemaRuns, schemaChanges, schemaFaults>>

close(p) ==
  /\ schemas[p].at \in {"yielded", "failed"} /\ To(p, Idle)
  /\ UNCHANGED <<described, earlier, cacheFile, writing, schemaRuns, schemaChanges, schemaFaults>>
ProcKilled(p) ==
  /\ schemas[p].at \notin {"idle", "yielded", "failed"}
  /\ schemaFaults < MaxSchemaFaults /\ schemaFaults' = schemaFaults + 1
  /\ To(p, Idle) /\ writing' = writing \ {p}
  /\ UNCHANGED <<described, earlier, cacheFile, schemaRuns, schemaChanges>>

\* External: an object gets a field or loses one, or all of them.
SchemaOrgChanges(o, fields) ==
  /\ schemaChanges < MaxSchemaChanges /\ fields # described[o].fields
  /\ schemaChanges' = schemaChanges + 1
  /\ described' = [described EXCEPT ![o] = [fields |-> fields, modified |-> schemaChanges + 2]]
  /\ earlier' = earlier \cup {[object |-> o, modified |-> schemaChanges + 2, fields |-> fields]}
  /\ UNCHANGED <<cacheFile, writing, schemas, schemaRuns, schemaFaults>>

SchemaStep(p) ==
  \/ \E a \in Asks : get_org_schema(p, a)
  \/ schema_path_exists(p) \/ unzip_database(p) \/ unlink(p) \/ populate_cache(p)
  \/ \E chunk \in schemas[p].chunks :
       CompositeAnswer(p, chunk) \/ \E r \in BOOLEAN : CompositeError(p, chunk, r)
  \/ \E o \in schemas[p].single : SingleAnswer(p, o) \/ \E r \in BOOLEAN : SingleError(p, o, r)
  \/ deep_describe(p) \/ _populate_cache_from_describe(p) \/ \E t \in BOOLEAN : populate_counts(p, t)
  \/ zip_database(p) \/ Zipped(p) \/ close(p)
SchemaNext ==
  \/ \E p \in SchemaProcs : SchemaStep(p) \/ ProcKilled(p)
  \/ \E o \in SObjects, fields \in SUBSET AnyField : SchemaOrgChanges(o, fields)

SchemaSpec == SchemaInit /\ [][SchemaNext]_schemaVars

-----------------------------------------------------------------------------

Yielded(p) == schemas[p].at = "yielded"
Seen(p) == [o \in schemas[p].included \cap DOMAIN schemas[p].db |-> schemas[p].db[o].fields]

\* Every object that answered is in the schema with each field it had then, whatever the cache
\* held, whoever wrote it, and whatever has changed since or been undone.
SchemaIsUpToDate ==
  \A p \in SchemaProcs : Yielded(p) =>
    \A o \in DOMAIN schemas[p].answered \cap schemas[p].included :
      o \in DOMAIN Seen(p) /\ schemas[p].answered[o] \subseteq Seen(p)[o]

\* What the file says of an object is not less than the object was at the time the file says.
CacheKeepsItsTimes ==
  \A o \in DOMAIN cacheFile.db : \E e \in earlier :
    e.object = o /\ e.modified = cacheFile.db[o].modified /\ e.fields \subseteq cacheFile.db[o].fields

\* A file that cannot be used costs a schema nothing, whatever state others left it in: one
\* fails only after a request has, or because another removed the file it was about to remove.
FailsForAReason ==
  \A p \in SchemaProcs : schemas[p].at = "failed" => schemaFaults > 0 \/ schemas[p].raced

SchemaIsSound == SchemaTypeOK /\ SchemaIsUpToDate /\ CacheKeepsItsTimes /\ FailsForAReason

-----------------------------------------------------------------------------
(* What is said of the schema and does not hold.                               *)

\* get_org_schema: "Get a read-only representation of an org's schema"; but what an object lost
\* stays, as rows of fields are never deleted.
NoFieldThatIsGone ==
  \A p \in SchemaProcs : Yielded(p) =>
    \A o \in DOMAIN schemas[p].answered \cap DOMAIN Seen(p) : Seen(p)[o] \subseteq schemas[p].answered[o]

\* get_org_schema logs "Cannot read ... Recreating it." of a file it cannot use; but the unlink
\* that comes with it fails when another process has removed the file in the meantime, and so
\* does that of force_recache.
FailsByRequestsOnly == (\E p \in SchemaProcs : schemas[p].at = "failed") => schemaFaults > 0

\* An object the org has and lists is in the schema.
NoObjectIsMissing ==
  \A p \in SchemaProcs : Yielded(p) /\ ~schemas[p].counts => schemas[p].names \subseteq DOMAIN schemas[p].db

-----------------------------------------------------------------------------
(* Proofs: what a schema says is right, for any number of processes, of        *)
(* objects and of changes.                                                     *)

SchemaRow == [fields : SUBSET AnyField, modified : Nat]
Db == UNION {[S -> SchemaRow] : S \in SUBSET SObjects}
FileState == [state : {"none", "ok", "old", "broken"}, db : Db, mixed : BOOLEAN]
AnswerSets == UNION {[S -> SUBSET AnyField] : S \in SUBSET SObjects}
SchemaState ==
  [at : Stages, db : Db, counts : BOOLEAN, raced : BOOLEAN,
   names : SUBSET SObjects, chunks : SUBSET SUBSET SObjects, single : SUBSET SObjects, changes : Db,
   answered : AnswerSets, faulty : BOOLEAN, included : SUBSET SObjects]

\* Each row has what the object had when it changed last, as far as the row knows.
RowsKept(f) == \A o \in DOMAIN f : \E e \in earlier :
             e.object = o /\ e.modified = f[o].modified /\ e.fields \subseteq f[o].fields

\* The history of the org: one entry for each change of an object, up to the present.
OrgHistory ==
  /\ described \in [SObjects -> SchemaRow]
  /\ \A o \in SObjects : described[o].modified > 0
       /\ [object |-> o, modified |-> described[o].modified, fields |-> described[o].fields] \in earlier
  /\ \A e \in earlier : e.object \in SObjects /\ e.modified \in 1..(schemaChanges + 1)
       /\ e.modified <= described[e.object].modified
  /\ \A e, d \in earlier : e.object = d.object /\ e.modified = d.modified => e.fields = d.fields

\* What was answered is in what the process has, or is about to store.
Later == {"count", "save", "saving", "yielded"}
UpToDate(s) ==
  \A o \in DOMAIN s.answered :
    \/ o \in DOMAIN s.db /\ s.answered[o] \subseteq s.db[o].fields
    \/ /\ s.at \notin Later
       /\ o \in DOMAIN s.changes /\ s.answered[o] \subseteq s.changes[o].fields
Early == {"force", "look", "read", "unlink", "list"}
ProcessSound(s) == RowsKept(s.db) /\ RowsKept(s.changes) /\ UpToDate(s) /\ (s.at \in Early => DOMAIN s.answered = {})
ProcessFails(s) == s.single # {} \/ s.faulty \/ (s.at = "failed" /\ ~s.raced)
\* One that saw the file, and nobody has removed it since.
ToRemove(s) == s.at \in {"force", "unlink"} /\ ~s.raced

SchemaInv ==
  /\ SchemaTypeOK /\ OrgHistory /\ cacheFile \in FileState /\ RowsKept(cacheFile.db)
  /\ schemas \in [SchemaProcs -> SchemaState]
  /\ \A p \in SchemaProcs : ProcessSound(schemas[p]) /\ (ProcessFails(schemas[p]) => schemaFaults > 0)
                          /\ (ToRemove(schemas[p]) => cacheFile.state # "none")

LEMMA DbIs ==
  ASSUME NEW f
  PROVE  f \in Db <=> /\ f = [o \in DOMAIN f |-> f[o]] /\ DOMAIN f \subseteq SObjects
                      /\ \A o \in DOMAIN f : f[o] \in SchemaRow
BY DEF Db

LEMMA AnswersAre ==
  ASSUME NEW f
  PROVE  f \in AnswerSets <=> /\ f = [o \in DOMAIN f |-> f[o]] /\ DOMAIN f \subseteq SObjects
                           /\ \A o \in DOMAIN f : f[o] \in SUBSET AnyField
BY DEF AnswerSets

LEMMA ChunksAre ==
  ASSUME NEW names
  PROVE  Chunks(names) \subseteq SUBSET SObjects
BY DEF Chunks, SObjects, ToSet

LEMMA EmptyIs == EmptyDb \in Db /\ EmptyDb \in AnswerSets /\ DOMAIN EmptyDb = {}
<1>1. DOMAIN EmptyDb = {} /\ EmptyDb = [o \in DOMAIN EmptyDb |-> EmptyDb[o]]
  BY DEF EmptyDb
<1> QED BY <1>1, DbIs, AnswersAre

LEMMA FilesAre ==
  /\ NoFile \in FileState /\ NoFile.state = "none" /\ NoFile.db = EmptyDb
  /\ \A m \in BOOLEAN : [Broken EXCEPT !.mixed = m] \in FileState
       /\ [Broken EXCEPT !.mixed = m].state = "broken" /\ [Broken EXCEPT !.mixed = m].db = EmptyDb
<1> HIDE DEF EmptyDb
<1> QED BY EmptyIs DEF NoFile, Broken, FileState

LEMMA IdleIs == Idle \in SchemaState /\ ProcessSound(Idle) /\ ~ProcessFails(Idle) /\ Idle.at = "idle"
<1> HIDE DEF EmptyDb
<1>1. Idle \in SchemaState
  BY EmptyIs DEF Idle, SchemaState, Stages
<1>2. Idle.db = EmptyDb /\ Idle.changes = EmptyDb /\ Idle.answered = EmptyDb
  BY DEF Idle
<1>3. ProcessSound(Idle)
  BY <1>2, EmptyIs DEF ProcessSound, RowsKept, UpToDate
<1> QED BY <1>1, <1>3 DEF Idle, ProcessFails

LEMMA SchemaInvInit == SchemaInit => SchemaInv
<1> SUFFICES ASSUME SchemaInit PROVE SchemaInv
  OBVIOUS
<1>1. \A o \in SObjects : FieldsAtFirst[o] \in SUBSET AnyField
  BY DEF AnyField
<1>2. described = [o \in SObjects |-> [fields |-> FieldsAtFirst[o], modified |-> 1]]
      /\ earlier = {[object |-> o, modified |-> 1, fields |-> FieldsAtFirst[o]] : o \in SObjects}
      /\ schemaChanges = 0 /\ schemaRuns = 0 /\ schemaFaults = 0
      /\ writing = {} /\ schemas = [p \in SchemaProcs |-> Idle]
  BY DEF SchemaInit
<1>3. described \in [SObjects -> SchemaRow] /\ \A o \in SObjects : described[o].modified = 1 /\ described[o].fields = FieldsAtFirst[o]
  BY <1>1, <1>2 DEF SchemaRow
<1>4. OrgHistory
  BY <1>2, <1>3 DEF OrgHistory
<1>5. cacheFile \in FileState /\ cacheFile.state \in {"none", "old"} /\ cacheFile.db = EmptyDb
  <2> HIDE DEF EmptyDb
  <2> QED BY EmptyIs DEF SchemaInit, NoFile, FileState
<1>6. SchemaTypeOK
  <2>1. \A p \in SchemaProcs : schemas[p].at = "idle"
    BY <1>2, IdleIs
  <2> QED BY <1>1, <1>2, <1>3, <1>5, <2>1, EmptyIs, SchemaAssumption DEF SchemaTypeOK, Stages
<1>7. cacheFile \in FileState /\ RowsKept(cacheFile.db)
  BY <1>5, EmptyIs DEF RowsKept
<1>8. schemas \in [SchemaProcs -> SchemaState]
      /\ \A p \in SchemaProcs : ProcessSound(schemas[p]) /\ (ProcessFails(schemas[p]) => schemaFaults > 0)
                              /\ ~ToRemove(schemas[p])
  BY <1>2, IdleIs DEF ToRemove
<1> QED BY <1>4, <1>6, <1>7, <1>8 DEF SchemaInv

\* What a process has stays right while the others work and the org changes.
LEMMA SoundStays ==
  ASSUME earlier \subseteq earlier', NEW s, ProcessSound(s)
  PROVE  ProcessSound(s)'
BY DEF ProcessSound, RowsKept, UpToDate

LEMMA KeptStays ==
  ASSUME earlier \subseteq earlier', NEW f, RowsKept(f)
  PROVE  RowsKept(f)'
BY DEF RowsKept

\* An answer is right: a body is what the object is now, and without one the row has it all.
LEMMA GotIs ==
  ASSUME SchemaInv, NEW s \in SchemaState, ProcessSound(s), s.at = "ask", NEW S \in SUBSET SObjects
  PROVE  /\ Got(s, S) \in SchemaState /\ ProcessSound(Got(s, S))
         /\ Got(s, S).at = s.at /\ Got(s, S).db = s.db
         /\ Got(s, S).single = s.single /\ Got(s, S).faulty = s.faulty /\ Got(s, S).chunks = s.chunks
<1> DEFINE new == {o \in S : DescribeAnswer(s.db, o) = 200}
           told == {o \in S : DescribeAnswer(s.db, o) # 404}
           c == [o \in DOMAIN s.changes \cup new |-> IF o \in new THEN described[o] ELSE s.changes[o]]
           a == [o \in DOMAIN s.answered \cup told |-> IF o \in S THEN described[o].fields ELSE s.answered[o]]
           g == [s EXCEPT !.changes = c, !.answered = a]
<1>1. Got(s, S) = g
  BY DEF Got
<1>2. new \subseteq SObjects /\ told \subseteq SObjects /\ new \subseteq told
  OBVIOUS
<1>3. s.db \in Db /\ s.changes \in Db /\ s.answered \in AnswerSets
  BY DEF SchemaState
<1>0. described \in [SObjects -> SchemaRow]
  BY DEF SchemaInv, OrgHistory
<1>4. c \in Db
  BY <1>0, <1>2, <1>3, DbIs
<1>5. a \in AnswerSets
  BY <1>0, <1>2, <1>3, AnswersAre DEF SchemaRow
<1>6. DOMAIN c = DOMAIN s.changes \cup new /\ \A o \in DOMAIN c : c[o] = IF o \in new THEN described[o] ELSE s.changes[o]
  OBVIOUS
<1>7. DOMAIN a = DOMAIN s.answered \cup told /\ \A o \in DOMAIN a : a[o] = IF o \in S THEN described[o].fields ELSE s.answered[o]
  OBVIOUS
<1>8. ASSUME NEW o \in told, o \notin new
      PROVE  o \in DOMAIN s.db /\ described[o].fields \subseteq s.db[o].fields
  <2>1. ~(described[o].modified > Since(s.db, o))
    BY <1>8 DEF DescribeAnswer
  <2>2. described[o].modified \in Nat /\ described[o].modified > 0 /\ o \in SObjects
    BY <1>0, <1>2 DEF SchemaInv, OrgHistory, SchemaRow
  <2>3. o \in DOMAIN s.db
    BY <2>1, <2>2 DEF Since
  <2>4. s.db[o].modified \in Nat /\ described[o].modified <= s.db[o].modified
    BY <1>3, <2>1, <2>2, <2>3, DbIs DEF Since, SchemaRow
  <2>5. PICK e \in earlier : e.object = o /\ e.modified = s.db[o].modified /\ e.fields \subseteq s.db[o].fields
    BY <2>3 DEF ProcessSound, RowsKept
  <2>6. e.modified <= described[o].modified
    BY <2>5 DEF SchemaInv, OrgHistory
  <2>7. e.modified = described[o].modified
    BY <2>2, <2>4, <2>5, <2>6
  <2>8. e.fields = described[o].fields
    <3>1. [object |-> o, modified |-> described[o].modified, fields |-> described[o].fields] \in earlier
      BY <2>2 DEF SchemaInv, OrgHistory
    <3> QED BY <2>5, <2>7, <3>1 DEF SchemaInv, OrgHistory
  <2> QED BY <2>3, <2>5, <2>8
<1> HIDE DEF new, told, c, a
<1>9. g \in SchemaState /\ g.changes = c /\ g.answered = a /\ g.at = s.at /\ g.db = s.db
      /\ g.single = s.single /\ g.faulty = s.faulty /\ g.chunks = s.chunks
  BY <1>4, <1>5 DEF SchemaState
<1>10. RowsKept(c)
  <2> SUFFICES ASSUME NEW o \in DOMAIN c
               PROVE  \E e \in earlier : e.object = o /\ e.modified = c[o].modified /\ e.fields \subseteq c[o].fields
    BY DEF RowsKept
  <2>1. CASE o \in new
    BY <1>2, <1>6, <2>1 DEF SchemaInv, OrgHistory
  <2>2. CASE o \notin new
    BY <1>6, <2>2 DEF ProcessSound, RowsKept
  <2> QED BY <2>1, <2>2
<1>11. UpToDate(g)
  <2> SUFFICES ASSUME NEW o \in DOMAIN a
               PROVE  \/ o \in DOMAIN s.db /\ a[o] \subseteq s.db[o].fields
                      \/ o \in DOMAIN c /\ a[o] \subseteq c[o].fields
    BY <1>9 DEF UpToDate, Later
  <2>1. CASE o \in new
    BY <1>2, <1>6, <1>7, <2>1 DEF new
  <2>2. CASE o \in told /\ o \notin new
    BY <1>7, <1>8, <2>2 DEF told
  <2>3. CASE o \notin told
    <3>1. o \in DOMAIN s.answered
      BY <1>7, <2>3
    <3>2. CASE o \in S
      \* An object that is gone keeps its last answer: none of its fields.
      <4>1. a[o] = {}
        BY <1>7, <2>3, <3>2 DEF told, DescribeAnswer
      <4> QED BY <4>1, <3>1, <1>6, <1>9 DEF ProcessSound, UpToDate
    <3>3. CASE o \notin S
      BY <1>2, <1>6, <1>7, <3>1, <3>3 DEF ProcessSound, UpToDate, new
    <3> QED BY <3>2, <3>3
  <2> QED BY <2>1, <2>2, <2>3
<1> QED BY <1>1, <1>9, <1>10, <1>11 DEF ProcessSound, Early

\* A step of one process, whatever it does to the file and whoever notices.
LEMMA ProcessesMove ==
  ASSUME SchemaInv, schemas' \in [SchemaProcs -> SchemaState],
         \A q \in SchemaProcs : ProcessSound(schemas'[q]) /\ (ProcessFails(schemas'[q]) => schemaFaults' > 0)
                               /\ (ToRemove(schemas'[q]) => cacheFile'.state # "none"),
         UNCHANGED <<described, earlier, schemaChanges>>,
         writing' \subseteq SchemaProcs,
         schemaRuns' \in 0..MaxSchemaRuns, schemaFaults' \in 0..MaxSchemaFaults,
         cacheFile' \in FileState, RowsKept(cacheFile'.db)
  PROVE  SchemaInv'
<1>1. \A q \in SchemaProcs : ProcessSound(schemas[q])'
  BY DEF ProcessSound, RowsKept, UpToDate
<1>2. \A q \in SchemaProcs : (ProcessFails(schemas[q])' => schemaFaults' > 0) /\ (ToRemove(schemas[q])' => cacheFile'.state # "none")
  BY DEF ProcessFails, ToRemove
<1>3. OrgHistory'
  BY DEF SchemaInv, OrgHistory
<1>4. SchemaTypeOK'
  <2>1. cacheFile'.state \in {"none", "ok", "old", "broken"} /\ DOMAIN cacheFile'.db \subseteq SObjects
    BY DbIs DEF FileState
  <2>2. \A q \in SchemaProcs : schemas'[q].at \in Stages
    BY DEF SchemaState
  <2> QED BY <2>1, <2>2 DEF SchemaInv, SchemaTypeOK
<1>5. RowsKept(cacheFile.db)'
  BY DEF RowsKept
<1> QED BY <1>1, <1>2, <1>3, <1>4, <1>5 DEF SchemaInv

LEMMA ProcessMoves ==
  ASSUME SchemaInv, NEW p \in SchemaProcs, NEW s \in SchemaState, To(p, s), ProcessSound(s),
         ProcessFails(s) => schemaFaults' > 0, ToRemove(s) => cacheFile'.state # "none",
         UNCHANGED <<described, earlier, schemaChanges>>,
         writing' \subseteq SchemaProcs,
         schemaRuns' \in 0..MaxSchemaRuns, schemaFaults' \in 0..MaxSchemaFaults, schemaFaults' >= schemaFaults,
         cacheFile' \in FileState, RowsKept(cacheFile'.db), cacheFile'.state = "none" => cacheFile.state = "none"
  PROVE  SchemaInv'
<1>1. schemas' = [schemas EXCEPT ![p] = s] /\ schemas \in [SchemaProcs -> SchemaState]
  BY DEF To, SchemaInv
<1>2. schemas' \in [SchemaProcs -> SchemaState] /\ \A q \in SchemaProcs : schemas'[q] = IF q = p THEN s ELSE schemas[q]
  BY <1>1
<1>3. ASSUME NEW q \in SchemaProcs
      PROVE  ProcessSound(schemas'[q]) /\ (ProcessFails(schemas'[q]) => schemaFaults' > 0)
             /\ (ToRemove(schemas'[q]) => cacheFile'.state # "none")
  <2>1. schemas'[q] = s \/ schemas'[q] = schemas[q]
    BY <1>2
  <2>2. ProcessSound(schemas[q]) /\ (ProcessFails(schemas[q]) => schemaFaults > 0) /\ (ToRemove(schemas[q]) => cacheFile.state # "none")
    BY DEF SchemaInv
  <2>3. schemaFaults \in Nat /\ schemaFaults' \in Nat
    BY SchemaAssumption DEF SchemaInv, SchemaTypeOK
  <2> QED BY <2>1, <2>2, <2>3
<1> QED BY <1>2, <1>3, ProcessesMove

\* Most steps leave the file alone, and what the process has.
LEMMA ProcessGoesOn ==
  ASSUME SchemaInv, NEW p \in SchemaProcs, NEW s \in SchemaState, To(p, s), ProcessSound(s),
         ProcessFails(s) => schemaFaults' > 0, ToRemove(s) => cacheFile.state # "none",
         UNCHANGED <<described, earlier, cacheFile, schemaChanges>>, writing' \subseteq writing,
         schemaRuns' \in 0..MaxSchemaRuns, schemaFaults' \in 0..MaxSchemaFaults, schemaFaults' >= schemaFaults
  PROVE  SchemaInv'
<1>1. writing' \subseteq SchemaProcs /\ cacheFile' \in FileState /\ RowsKept(cacheFile'.db)
  BY DEF SchemaInv, SchemaTypeOK
<1> QED BY <1>1, ProcessMoves

LEMMA SoundAlike ==
  ASSUME NEW s, ProcessSound(s), NEW n, n.db = s.db, n.changes = s.changes, n.answered = s.answered,
         n.at \notin Later \/ s.at \in Later, n.at \in Early => s.at \in Early
  PROVE  ProcessSound(n)
BY DEF ProcessSound, UpToDate

LEMMA CountsAre ==
  ASSUME SchemaInv
  PROVE  /\ schemaFaults \in 0..MaxSchemaFaults /\ schemaFaults \in Nat /\ schemaRuns \in 0..MaxSchemaRuns
         /\ schemaFaults < MaxSchemaFaults => schemaFaults + 1 \in 0..MaxSchemaFaults /\ schemaFaults + 1 > 0
BY SchemaAssumption DEF SchemaInv, SchemaTypeOK

LEMMA SchemaInvStep == SchemaInv /\ [SchemaNext]_schemaVars => SchemaInv'
<1> SUFFICES ASSUME SchemaInv, [SchemaNext]_schemaVars PROVE SchemaInv'
  OBVIOUS
<1>0. \A p \in SchemaProcs : schemas[p] \in SchemaState /\ ProcessSound(schemas[p]) /\ (ProcessFails(schemas[p]) => schemaFaults > 0)
  BY DEF SchemaInv
<1>1. ASSUME NEW p \in SchemaProcs, NEW a \in Asks, get_org_schema(p, a) PROVE SchemaInv'
  <2> DEFINE n == [Idle EXCEPT !.at = IF a.force /\ cacheFile.state # "none" THEN "force" ELSE "look",
                              !.counts = a.counts, !.names = a.objects]
  <2>1. To(p, n) /\ schemaRuns' \in 0..MaxSchemaRuns /\ UNCHANGED <<described, earlier, cacheFile, writing, schemaChanges, schemaFaults>>
    BY <1>1, CountsAre, SchemaAssumption DEF get_org_schema
  <2>2. a.objects \subseteq SObjects /\ a.counts \in BOOLEAN
    BY SchemaAssumption DEF SObjects
  <2>3. n \in SchemaState /\ n.at \in {"force", "look"} /\ n.db = EmptyDb /\ n.changes = EmptyDb /\ n.answered = EmptyDb
        /\ n.single = {} /\ n.faulty = FALSE /\ (n.at = "force" => cacheFile.state # "none")
    <3> HIDE DEF EmptyDb
    <3> QED BY <2>2, EmptyIs DEF Idle, SchemaState, Stages
  <2> HIDE DEF n
  <2>4. ProcessSound(n) /\ ~ProcessFails(n)
    BY <2>3, EmptyIs DEF ProcessSound, RowsKept, UpToDate, ProcessFails
  <2> QED BY <2>1, <2>3, <2>4, CountsAre, ProcessGoesOn DEF ToRemove
<1>1a. ASSUME NEW p \in SchemaProcs, schema_path_exists(p) PROVE SchemaInv'
  <2> DEFINE s == schemas[p]  n == [s EXCEPT !.at = IF cacheFile.state = "none" THEN "list" ELSE "read"]
  <2>1. To(p, n) /\ s \in SchemaState /\ ProcessSound(s) /\ (ProcessFails(s) => schemaFaults > 0) /\ s.at = "look"
        /\ UNCHANGED <<described, earlier, cacheFile, writing, schemaRuns, schemaChanges, schemaFaults>>
    BY <1>0, <1>1a DEF schema_path_exists
  <2>2. n \in SchemaState /\ n.db = s.db /\ n.changes = s.changes /\ n.answered = s.answered
        /\ n.at \in {"list", "read"} /\ n.faulty = s.faulty /\ n.single = s.single
    BY <2>1 DEF SchemaState, Stages
  <2> HIDE DEF n, s
  <2>3. ProcessSound(n) /\ (ProcessFails(n) => schemaFaults' > 0) /\ ~ToRemove(n)
    BY <2>1, <2>2, SoundAlike DEF ProcessFails, ToRemove, Later, Early
  <2> QED BY <2>1, <2>2, <2>3, CountsAre, ProcessGoesOn DEF ToRemove
<1>1b. ASSUME NEW p \in SchemaProcs, unzip_database(p) PROVE SchemaInv'
  <2> DEFINE s == schemas[p]
  <2>1. PICK at \in AfterReading : To(p, [s EXCEPT !.at = at, !.db = IF at = "list" THEN cacheFile.db ELSE EmptyDb])
    BY <1>1b DEF unzip_database
  <2> DEFINE n == [s EXCEPT !.at = at, !.db = IF at = "list" THEN cacheFile.db ELSE EmptyDb]
  <2>2. s \in SchemaState /\ ProcessSound(s) /\ (ProcessFails(s) => schemaFaults > 0) /\ s.at = "read"
        /\ UNCHANGED <<described, earlier, cacheFile, writing, schemaRuns, schemaChanges, schemaFaults>>
    BY <1>0, <1>1b DEF unzip_database
  <2>3. at \in {"list", "unlink"} /\ (at = "unlink" => cacheFile.state # "none")
    BY DEF AfterReading
  <2>4. cacheFile.db \in Db /\ RowsKept(cacheFile.db) /\ EmptyDb \in Db /\ RowsKept(EmptyDb)
    BY EmptyIs DEF SchemaInv, FileState, RowsKept
  <2>5. n \in SchemaState /\ n.db \in {cacheFile.db, EmptyDb} /\ n.changes = s.changes /\ n.answered = s.answered
        /\ n.at = at /\ n.faulty = s.faulty /\ n.single = s.single
    <3> HIDE DEF EmptyDb
    <3> QED BY <2>2, <2>3, <2>4 DEF SchemaState, Stages
  <2>8. To(p, n)
    BY <2>1
  <2>6. DOMAIN s.answered = {}
    BY <2>2 DEF ProcessSound, Early
  <2> HIDE DEF n, s
  <2>7. ProcessSound(n) /\ (ProcessFails(n) => schemaFaults' > 0)
    BY <2>2, <2>3, <2>4, <2>5, <2>6, EmptyIs DEF ProcessSound, UpToDate, ProcessFails
  <2> QED BY <2>2, <2>3, <2>5, <2>7, <2>8, CountsAre, ProcessGoesOn DEF ToRemove
<1>1c. ASSUME NEW p \in SchemaProcs, unlink(p) PROVE SchemaInv'
  <2>1. /\ schemas[p].at \in {"force", "unlink"} /\ cacheFile' = NoFile /\ writing' = {}
        /\ UNCHANGED <<described, earlier, schemaRuns, schemaChanges, schemaFaults>>
    BY <1>1c DEF unlink
  <2>2. ASSUME NEW q \in SchemaProcs
        PROVE  /\ schemas'[q] \in SchemaState /\ ProcessSound(schemas'[q])
               /\ (ProcessFails(schemas'[q]) => schemaFaults > 0) /\ ~ToRemove(schemas'[q])
    <3> DEFINE s == schemas[q]  n == schemas'[q]
    <3>1. s \in SchemaState /\ ProcessSound(s) /\ (ProcessFails(s) => schemaFaults > 0) /\ (ToRemove(s) => cacheFile.state # "none")
      BY DEF SchemaInv
    <3>2. CASE q = p
      <4>1. n = [s EXCEPT !.at = IF cacheFile.state = "none" THEN "failed" ELSE IF s.at = "force" THEN "look" ELSE "list"]
        BY <1>1c, <3>2 DEF unlink
      <4>2. n \in SchemaState /\ n.db = s.db /\ n.changes = s.changes /\ n.answered = s.answered /\ n.raced = s.raced
            /\ n.at \in {"failed", "look", "list"} /\ s.at \in {"force", "unlink"} /\ n.faulty = s.faulty
            /\ n.single = s.single /\ (n.at = "failed" => cacheFile.state = "none")
        BY <2>1, <3>1, <3>2, <4>1 DEF SchemaState, Stages
      <4> HIDE DEF n, s
      <4>3. ProcessSound(n) /\ ~ToRemove(n)
        BY <3>1, <4>2, SoundAlike DEF ToRemove, Later, Early
      <4>4. ProcessFails(n) => schemaFaults > 0
        BY <2>1, <3>1, <3>2, <4>2 DEF ProcessFails, ToRemove, s
      <4> QED BY <4>2, <4>3, <4>4 DEF n
    <3>3. CASE q # p /\ s.at \in {"force", "unlink"} /\ cacheFile.state # "none"
      <4>1. n = [s EXCEPT !.raced = TRUE]
        BY <1>1c, <3>3 DEF unlink
      <4>2. n \in SchemaState /\ n.db = s.db /\ n.changes = s.changes /\ n.answered = s.answered /\ n.raced
            /\ n.at = s.at /\ n.faulty = s.faulty /\ n.single = s.single
        BY <3>1, <4>1 DEF SchemaState
      <4> HIDE DEF n, s
      <4>3. ProcessSound(n) /\ ~ToRemove(n) /\ (ProcessFails(n) => schemaFaults > 0)
        BY <3>1, <4>2, SoundAlike DEF ToRemove, ProcessFails
      <4> QED BY <4>2, <4>3 DEF n
    <3>4. CASE q # p /\ ~(s.at \in {"force", "unlink"} /\ cacheFile.state # "none")
      <4>1. n = s
        BY <1>1c, <3>4 DEF unlink
      <4> QED BY <3>1, <3>4, <4>1 DEF ToRemove
    <3> QED BY <3>2, <3>3, <3>4
  <2>3. schemas' \in [SchemaProcs -> SchemaState]
    <3>1. schemas' = [q \in SchemaProcs |-> schemas'[q]]
      BY <1>1c DEF unlink
    <3> QED BY <2>2, <3>1
  <2>4. RowsKept(cacheFile'.db) /\ cacheFile' \in FileState
    BY <2>1, FilesAre, EmptyIs DEF RowsKept
  <2> QED BY <2>1, <2>2, <2>3, <2>4, CountsAre, ProcessesMove
<1>1d. ASSUME NEW p \in SchemaProcs, populate_cache(p) PROVE SchemaInv'
  <2> DEFINE s == schemas[p]
             names == {o \in s.names : described[o].fields # {}}
             c == Chunks(names)
             n == [s EXCEPT !.at = "ask", !.names = names, !.chunks = c]
  <2>1. To(p, n) /\ s \in SchemaState /\ ProcessSound(s) /\ (ProcessFails(s) => schemaFaults > 0) /\ s.at = "list"
        /\ UNCHANGED <<described, earlier, cacheFile, writing, schemaRuns, schemaChanges, schemaFaults>>
    BY <1>0, <1>1d DEF populate_cache
  <2>2. names \in SUBSET SObjects /\ c \in SUBSET SUBSET SObjects
    BY <2>1, ChunksAre DEF SchemaState
  <2> HIDE DEF names, c
  <2>3. n \in SchemaState /\ n.db = s.db /\ n.changes = s.changes /\ n.answered = s.answered
        /\ n.at = "ask" /\ n.faulty = s.faulty /\ n.single = s.single
    BY <2>1, <2>2 DEF SchemaState, Stages
  <2> HIDE DEF n, s
  <2>4. ProcessSound(n) /\ (ProcessFails(n) => schemaFaults' > 0) /\ ~ToRemove(n)
    BY <2>1, <2>3, SoundAlike DEF ProcessFails, ToRemove, Later, Early
  <2> QED BY <2>1, <2>3, <2>4, CountsAre, ProcessGoesOn DEF ToRemove
<1>2. ASSUME NEW p \in SchemaProcs, NEW chunk \in schemas[p].chunks, CompositeAnswer(p, chunk) PROVE SchemaInv'
  <2> DEFINE g == Got(schemas[p], chunk)  n == [g EXCEPT !.chunks = @ \ {chunk}]
  <2>1. To(p, n) /\ schemas[p].at = "ask" /\ chunk \in SUBSET SObjects
        /\ UNCHANGED <<described, earlier, cacheFile, writing, schemaRuns, schemaChanges, schemaFaults>>
    BY <1>0, <1>2 DEF CompositeAnswer, SchemaState
  <2>2. g \in SchemaState /\ ProcessSound(g) /\ g.at = "ask" /\ g.single = schemas[p].single /\ g.faulty = schemas[p].faulty
    BY <1>0, <2>1, GotIs
  <2> HIDE DEF g
  <2>3. n \in SchemaState /\ n.db = g.db /\ n.changes = g.changes /\ n.answered = g.answered /\ n.at = g.at
        /\ n.single = g.single /\ n.faulty = g.faulty
    BY <2>2 DEF SchemaState
  <2>4. ProcessSound(n) /\ (ProcessFails(n) => schemaFaults' > 0)
    BY <1>0, <2>1, <2>2, <2>3, SoundAlike DEF ProcessFails, Later, Early
  <2> HIDE DEF n
  <2> QED BY <2>1, <2>2, <2>3, <2>4, CountsAre, ProcessGoesOn DEF ToRemove
<1>3. ASSUME NEW p \in SchemaProcs, NEW chunk \in schemas[p].chunks, NEW r \in BOOLEAN, CompositeError(p, chunk, r)
      PROVE  SchemaInv'
  <2> DEFINE s == schemas[p]
             n == [s EXCEPT !.chunks = @ \ {chunk}, !.single = IF r THEN @ \cup chunk ELSE @, !.faulty = @ \/ ~r]
  <2>1. To(p, n) /\ s \in SchemaState /\ ProcessSound(s) /\ s.at = "ask" /\ schemaFaults' = schemaFaults + 1 /\ schemaFaults < MaxSchemaFaults
        /\ UNCHANGED <<described, earlier, cacheFile, writing, schemaRuns, schemaChanges>>
    BY <1>0, <1>3 DEF CompositeError
  <2>2. n \in SchemaState /\ n.db = s.db /\ n.changes = s.changes /\ n.answered = s.answered /\ n.at = s.at
    BY <2>1 DEF SchemaState
  <2> HIDE DEF n, s
  <2>3. ProcessSound(n)
    BY <2>1, <2>2, SoundAlike DEF Later, Early
  <2> QED BY <2>1, <2>2, <2>3, CountsAre, ProcessGoesOn DEF ToRemove
<1>4. ASSUME NEW p \in SchemaProcs, NEW o \in schemas[p].single, SingleAnswer(p, o) PROVE SchemaInv'
  <2> DEFINE s == schemas[p]
  <2>1. s \in SchemaState /\ ProcessSound(s) /\ s.at = "ask" /\ o \in SObjects /\ schemaFaults > 0
        /\ UNCHANGED <<described, earlier, cacheFile, writing, schemaRuns, schemaChanges, schemaFaults>>
    BY <1>0, <1>4 DEF SingleAnswer, SchemaState, ProcessFails
  <2>2. CASE DescribeAnswer(s.db, o) = 304
    <3> DEFINE n == [s EXCEPT !.at = "failed"]
    <3>1. To(p, n)
      BY <1>4, <2>2 DEF SingleAnswer
    <3>2. n \in SchemaState /\ n.db = s.db /\ n.changes = s.changes /\ n.answered = s.answered /\ n.at = "failed"
      BY <2>1 DEF SchemaState, Stages
    <3> HIDE DEF n, s
    <3>3. ProcessSound(n)
      BY <2>1, <3>2, SoundAlike DEF Later, Early
    <3> QED BY <2>1, <3>1, <3>2, <3>3, CountsAre, ProcessGoesOn DEF ToRemove
  <2>3. CASE DescribeAnswer(s.db, o) # 304
    <3> DEFINE g == Got(s, {o})  n == [g EXCEPT !.single = @ \ {o}]
    <3>1. To(p, n)
      BY <1>4, <2>3 DEF SingleAnswer
    <3>2. g \in SchemaState /\ ProcessSound(g) /\ g.at = "ask" /\ {o} \in SUBSET SObjects
      BY <2>1, GotIs
    <3> HIDE DEF g
    <3>3. n \in SchemaState /\ n.db = g.db /\ n.changes = g.changes /\ n.answered = g.answered /\ n.at = g.at
      BY <3>2 DEF SchemaState
    <3> HIDE DEF n, s
    <3>4. ProcessSound(n)
      BY <3>2, <3>3, SoundAlike DEF Later, Early
    <3> QED BY <2>1, <3>1, <3>2, <3>3, <3>4, CountsAre, ProcessGoesOn DEF ToRemove
  <2> QED BY <2>2, <2>3
<1>5. ASSUME NEW p \in SchemaProcs, NEW o \in schemas[p].single, NEW r \in BOOLEAN, SingleError(p, o, r) PROVE SchemaInv'
  <2> DEFINE s == schemas[p]  n == [s EXCEPT !.single = @ \ {o}, !.faulty = @ \/ ~r]
  <2>1. To(p, n) /\ s \in SchemaState /\ ProcessSound(s) /\ s.at = "ask" /\ schemaFaults' = schemaFaults + 1 /\ schemaFaults < MaxSchemaFaults
        /\ UNCHANGED <<described, earlier, cacheFile, writing, schemaRuns, schemaChanges>>
    BY <1>0, <1>5 DEF SingleError
  <2>2. n \in SchemaState /\ n.db = s.db /\ n.changes = s.changes /\ n.answered = s.answered /\ n.at = s.at
    BY <2>1 DEF SchemaState
  <2> HIDE DEF n, s
  <2>3. ProcessSound(n)
    BY <2>1, <2>2, SoundAlike DEF Later, Early
  <2> QED BY <2>1, <2>2, <2>3, CountsAre, ProcessGoesOn DEF ToRemove
<1>6. ASSUME NEW p \in SchemaProcs, deep_describe(p) PROVE SchemaInv'
  <2> DEFINE s == schemas[p]  n == [s EXCEPT !.at = IF s.faulty THEN "failed" ELSE "store"]
  <2>1. To(p, n) /\ s \in SchemaState /\ ProcessSound(s) /\ (ProcessFails(s) => schemaFaults > 0) /\ s.at = "ask"
        /\ UNCHANGED <<described, earlier, cacheFile, writing, schemaRuns, schemaChanges, schemaFaults>>
    BY <1>0, <1>6 DEF deep_describe
  <2>2. n \in SchemaState /\ n.db = s.db /\ n.changes = s.changes /\ n.answered = s.answered
        /\ n.at \in {"failed", "store"} /\ (n.at = "failed" => s.faulty) /\ n.faulty = s.faulty /\ n.single = s.single
    BY <2>1 DEF SchemaState, Stages
  <2> HIDE DEF n, s
  <2>3. ProcessSound(n) /\ (ProcessFails(n) => schemaFaults' > 0)
    BY <2>1, <2>2, SoundAlike DEF ProcessFails, Later, Early
  <2> QED BY <2>1, <2>2, <2>3, CountsAre, ProcessGoesOn DEF ToRemove
<1>7. ASSUME NEW p \in SchemaProcs, _populate_cache_from_describe(p) PROVE SchemaInv'
  <2> DEFINE s == schemas[p]
             db == [o \in DOMAIN s.db \cup DOMAIN s.changes |->
                     IF o \in DOMAIN s.changes THEN create_row(s.db, o, s.changes[o])[o] ELSE s.db[o]]
             n == [s EXCEPT !.at = IF s.counts THEN "count" ELSE "save", !.included = s.names, !.db = db]
  <2>1. To(p, n) /\ s \in SchemaState /\ ProcessSound(s) /\ (ProcessFails(s) => schemaFaults > 0) /\ s.at = "store"
        /\ UNCHANGED <<described, earlier, cacheFile, writing, schemaRuns, schemaChanges, schemaFaults>>
    BY <1>0, <1>7 DEF _populate_cache_from_describe
  <2>2. s.db \in Db /\ s.changes \in Db
    BY <2>1 DEF SchemaState
  <2>3. \A o \in DOMAIN s.changes : create_row(s.db, o, s.changes[o])[o] =
          [fields |-> (IF o \in DOMAIN s.db THEN s.db[o].fields ELSE {}) \cup s.changes[o].fields,
           modified |-> s.changes[o].modified]
    BY DEF create_row, Put
  <2>4. DOMAIN db = DOMAIN s.db \cup DOMAIN s.changes /\ db = [o \in DOMAIN db |-> db[o]]
    OBVIOUS
  <2>5. \A o \in DOMAIN s.changes : /\ db[o].modified = s.changes[o].modified /\ s.changes[o].fields \subseteq db[o].fields
                                    /\ (o \in DOMAIN s.db => s.db[o].fields \subseteq db[o].fields) /\ db[o] \in SchemaRow
    <3> TAKE o \in DOMAIN s.changes
    <3>1. db[o] = [fields |-> (IF o \in DOMAIN s.db THEN s.db[o].fields ELSE {}) \cup s.changes[o].fields,
                   modified |-> s.changes[o].modified]
      BY <2>3
    <3>2. s.changes[o] \in SchemaRow /\ (o \in DOMAIN s.db => s.db[o] \in SchemaRow)
      BY <2>2, DbIs
    <3> HIDE DEF db
    <3> QED BY <3>1, <3>2 DEF SchemaRow
  <2>6. \A o \in DOMAIN db \ DOMAIN s.changes : o \in DOMAIN s.db /\ db[o] = s.db[o]
    OBVIOUS
  <2> HIDE DEF db
  <2>7. db \in Db
    BY <2>2, <2>4, <2>5, <2>6, DbIs
  <2>8. n \in SchemaState /\ n.db = db /\ n.changes = s.changes /\ n.answered = s.answered
        /\ n.at \in {"count", "save"} /\ n.faulty = s.faulty /\ n.single = s.single
    BY <2>1, <2>7 DEF SchemaState, Stages
  <2> HIDE DEF n, s
  <2>9. RowsKept(db)
    BY <2>1, <2>4, <2>5, <2>6 DEF ProcessSound, RowsKept
  <2>10. UpToDate(n)
    <3> SUFFICES ASSUME NEW o \in DOMAIN s.answered PROVE o \in DOMAIN db /\ s.answered[o] \subseteq db[o].fields
      BY <2>8 DEF UpToDate
    <3>1. CASE o \in DOMAIN s.db /\ s.answered[o] \subseteq s.db[o].fields
      BY <2>4, <2>5, <2>6, <3>1
    <3>2. CASE o \in DOMAIN s.changes /\ s.answered[o] \subseteq s.changes[o].fields
      BY <2>4, <2>5, <3>2
    <3> QED BY <2>1, <3>1, <3>2 DEF ProcessSound, UpToDate
  <2>11. ProcessSound(n) /\ (ProcessFails(n) => schemaFaults' > 0)
    BY <2>1, <2>8, <2>9, <2>10 DEF ProcessSound, ProcessFails, Early
  <2> QED BY <2>1, <2>8, <2>11, CountsAre, ProcessGoesOn DEF ToRemove
<1>8. ASSUME NEW p \in SchemaProcs, NEW t \in BOOLEAN, populate_counts(p, t) PROVE SchemaInv'
  <2> DEFINE s == schemas[p]
             n == IF t THEN [s EXCEPT !.at = "failed"]
                  ELSE [s EXCEPT !.at = "save", !.included = {o \in @ : described[o].fields # {}}]
  <2>1. To(p, n) /\ s \in SchemaState /\ ProcessSound(s) /\ (ProcessFails(s) => schemaFaults > 0) /\ s.at = "count"
        /\ UNCHANGED <<described, earlier, cacheFile, writing, schemaRuns, schemaChanges>>
        /\ (t => schemaFaults < MaxSchemaFaults) /\ schemaFaults' = IF t THEN schemaFaults + 1 ELSE schemaFaults
    BY <1>0, <1>8 DEF populate_counts
  <2>2. n \in SchemaState /\ n.db = s.db /\ n.changes = s.changes /\ n.answered = s.answered
        /\ n.at \in {"failed", "save"} /\ (n.at = "failed" => t) /\ n.faulty = s.faulty /\ n.single = s.single
    BY <2>1 DEF SchemaState, Stages
  <2> HIDE DEF n, s
  <2>3. ProcessSound(n)
    BY <2>1, <2>2, SoundAlike DEF Later, Early
  <2>4. ProcessFails(n) => schemaFaults' > 0
    BY <2>1, <2>2, CountsAre DEF ProcessFails
  <2>5. schemaFaults' \in 0..MaxSchemaFaults /\ schemaFaults' >= schemaFaults
    BY <2>1, CountsAre
  <2> QED BY <2>1, <2>2, <2>3, <2>4, <2>5, CountsAre, ProcessGoesOn DEF ToRemove
<1>9. ASSUME NEW p \in SchemaProcs, zip_database(p) PROVE SchemaInv'
  <2> DEFINE s == schemas[p]  n == [s EXCEPT !.at = "saving"]
  <2>1. To(p, n) /\ s \in SchemaState /\ ProcessSound(s) /\ (ProcessFails(s) => schemaFaults > 0) /\ s.at = "save"
        /\ UNCHANGED <<described, earlier, schemaRuns, schemaChanges, schemaFaults>>
        /\ cacheFile' = [Broken EXCEPT !.mixed = (writing # {})] /\ writing' = writing \cup {p}
    BY <1>0, <1>9 DEF zip_database
  <2>2. n \in SchemaState /\ n.db = s.db /\ n.changes = s.changes /\ n.answered = s.answered
        /\ n.at = "saving" /\ n.faulty = s.faulty /\ n.single = s.single
    BY <2>1 DEF SchemaState, Stages
  <2> HIDE DEF n, s
  <2>3. ProcessSound(n) /\ (ProcessFails(n) => schemaFaults' > 0) /\ ~ToRemove(n)
    BY <2>1, <2>2, SoundAlike DEF ProcessFails, ToRemove, Later, Early
  <2>4. (writing # {}) \in BOOLEAN
    OBVIOUS
  <2>5. cacheFile'.state = "broken" /\ cacheFile' \in FileState /\ cacheFile'.db = EmptyDb
    BY <2>1, <2>4, FilesAre
  <2>6. RowsKept(cacheFile'.db) /\ writing' \subseteq SchemaProcs
    BY <2>1, <2>5, EmptyIs DEF RowsKept, SchemaInv, SchemaTypeOK
  <2> QED BY <2>1, <2>2, <2>3, <2>5, <2>6, CountsAre, ProcessMoves
<1>10. ASSUME NEW p \in SchemaProcs, Zipped(p) PROVE SchemaInv'
  <2> DEFINE s == schemas[p]  n == [s EXCEPT !.at = "yielded"]
             written == [cacheFile EXCEPT !.state = "ok", !.db = s.db]
  <2>1. To(p, n) /\ s \in SchemaState /\ ProcessSound(s) /\ (ProcessFails(s) => schemaFaults > 0) /\ s.at = "saving"
        /\ UNCHANGED <<described, earlier, schemaRuns, schemaChanges, schemaFaults>> /\ writing' \subseteq writing
        /\ (cacheFile' = cacheFile \/ cacheFile' = written \/ cacheFile' = [Broken EXCEPT !.mixed = TRUE])
    BY <1>0, <1>10 DEF Zipped
  <2>2. n \in SchemaState /\ n.db = s.db /\ n.changes = s.changes /\ n.answered = s.answered
        /\ n.at = "yielded" /\ n.faulty = s.faulty /\ n.single = s.single /\ s.db \in Db
    BY <2>1 DEF SchemaState, Stages
  <2>3. cacheFile \in FileState /\ RowsKept(cacheFile.db)
    BY DEF SchemaInv
  <2>4. written \in FileState /\ written.state = "ok" /\ written.db = s.db
    BY <2>2, <2>3 DEF FileState
  <2> HIDE DEF n, s, written
  <2>5. ProcessSound(n) /\ (ProcessFails(n) => schemaFaults' > 0) /\ ~ToRemove(n)
    BY <2>1, <2>2, SoundAlike DEF ProcessFails, ToRemove, Later, Early
  <2>6. cacheFile' \in FileState /\ RowsKept(cacheFile'.db) /\ (cacheFile'.state = "none" => cacheFile.state = "none")
    <3>1. RowsKept(s.db) /\ RowsKept(EmptyDb)
      BY <2>1, EmptyIs DEF ProcessSound, RowsKept
    <3>2. CASE cacheFile' = cacheFile
      BY <2>3, <3>2
    <3>3. CASE cacheFile' = written
      BY <2>4, <3>1, <3>3
    <3>4. CASE cacheFile' = [Broken EXCEPT !.mixed = TRUE]
      BY <3>1, <3>4, FilesAre
    <3> QED BY <2>1, <3>2, <3>3, <3>4
  <2>7. writing' \subseteq SchemaProcs
    BY <2>1 DEF SchemaInv, SchemaTypeOK
  <2> QED BY <2>1, <2>2, <2>5, <2>6, <2>7, CountsAre, ProcessMoves
<1>11. ASSUME NEW p \in SchemaProcs, close(p) PROVE SchemaInv'
  BY <1>11, IdleIs, CountsAre, ProcessGoesOn DEF close, ToRemove
<1>12. ASSUME NEW p \in SchemaProcs, ProcKilled(p) PROVE SchemaInv'
  BY <1>12, IdleIs, CountsAre, ProcessGoesOn DEF ProcKilled, ToRemove
<1>13. ASSUME NEW o \in SObjects, NEW fields \in SUBSET AnyField, SchemaOrgChanges(o, fields) PROVE SchemaInv'
  <2> DEFINE m == schemaChanges + 2  new == [object |-> o, modified |-> m, fields |-> fields]
  <2>1. /\ schemaChanges < MaxSchemaChanges /\ schemaChanges' = schemaChanges + 1
        /\ described' = [described EXCEPT ![o] = [fields |-> fields, modified |-> m]]
        /\ earlier' = earlier \cup {new}
        /\ UNCHANGED <<cacheFile, writing, schemas, schemaRuns, schemaFaults>>
    BY <1>13 DEF SchemaOrgChanges
  <2>2. schemaChanges \in 0..MaxSchemaChanges /\ schemaChanges \in Nat /\ MaxSchemaChanges \in Nat /\ described \in [SObjects -> SchemaRow]
    BY SchemaAssumption DEF SchemaInv, SchemaTypeOK, OrgHistory
  <2>3. m \in Nat /\ m > 0 /\ m = schemaChanges' + 1 /\ schemaChanges' \in 0..MaxSchemaChanges
        /\ \A k \in 1..(schemaChanges + 1) : k \in 1..(schemaChanges' + 1) /\ k < m
    BY <2>1, <2>2
  <2>4. described' \in [SObjects -> SchemaRow]
        /\ \A x \in SObjects : described'[x] = IF x = o THEN [fields |-> fields, modified |-> m] ELSE described[x]
    BY <2>1, <2>2, <2>3 DEF SchemaRow
  <2>5. \A e \in earlier : e.object \in SObjects /\ e.modified \in 1..(schemaChanges' + 1) /\ e.modified < m
                             /\ e.modified <= described[e.object].modified
    BY <2>3 DEF SchemaInv, OrgHistory
  <2>6. new.object = o /\ new.modified = m /\ new.fields = fields
    OBVIOUS
  <2> HIDE DEF m, new
  <2>7. \A e \in earlier' : e.object \in SObjects /\ e.modified \in 1..(schemaChanges' + 1) /\ e.modified <= described'[e.object].modified
    BY <2>1, <2>3, <2>4, <2>5, <2>6
  <2>8. \A x \in SObjects : described'[x].modified > 0
          /\ [object |-> x, modified |-> described'[x].modified, fields |-> described'[x].fields] \in earlier'
    BY <2>1, <2>3, <2>4, <2>6 DEF SchemaInv, OrgHistory, new
  <2>9. \A e, d \in earlier' : e.object = d.object /\ e.modified = d.modified => e.fields = d.fields
    BY <2>1, <2>3, <2>5, <2>6 DEF SchemaInv, OrgHistory
  <2>10. OrgHistory'
    BY <2>4, <2>7, <2>8, <2>9 DEF OrgHistory
  <2>11. \A x \in SObjects : described'[x].fields \subseteq AnyField /\ described'[x].modified \in 1..(MaxSchemaChanges + 1)
    <3>1. m \in 1..(MaxSchemaChanges + 1)
      BY <2>1, <2>2, <2>3
    <3> QED BY <2>4, <3>1 DEF SchemaInv, SchemaTypeOK
  <2>12. SchemaTypeOK'
    BY <2>1, <2>3, <2>11 DEF SchemaInv, SchemaTypeOK
  <2>13. RowsKept(cacheFile.db)' /\ \A p \in SchemaProcs : ProcessSound(schemas[p])'
    BY <1>0, <2>1 DEF SchemaInv, ProcessSound, RowsKept, UpToDate
  <2>14. \A p \in SchemaProcs : (ProcessFails(schemas[p])' => schemaFaults' > 0) /\ (ToRemove(schemas[p])' => cacheFile'.state # "none")
    BY <1>0, <2>1 DEF ProcessFails, ToRemove, SchemaInv
  <2> QED BY <2>1, <2>10, <2>12, <2>13, <2>14 DEF SchemaInv
<1>14. CASE UNCHANGED schemaVars
  <2>1. \A p \in SchemaProcs : ProcessSound(schemas[p])' /\ (ProcessFails(schemas[p])' => schemaFaults' > 0)
                               /\ (ToRemove(schemas[p])' => cacheFile'.state # "none")
    BY <1>0, <1>14 DEF schemaVars, ProcessSound, RowsKept, UpToDate, ProcessFails, ToRemove, SchemaInv
  <2> QED BY <1>14, <2>1 DEF schemaVars, SchemaInv, SchemaTypeOK, OrgHistory, RowsKept
<1> QED
  BY <1>1, <1>2, <1>3, <1>4, <1>5, <1>6, <1>7, <1>8, <1>9, <1>10, <1>11, <1>12, <1>13, <1>14, <1>1a, <1>1b, <1>1c, <1>1d DEF SchemaNext, SchemaStep

LEMMA SchemaInvImplies == SchemaInv => SchemaIsSound
<1> SUFFICES ASSUME SchemaInv PROVE SchemaIsUpToDate /\ CacheKeepsItsTimes /\ FailsForAReason
  BY DEF SchemaIsSound, SchemaInv
<1>1. SchemaIsUpToDate
  <2> SUFFICES ASSUME NEW p \in SchemaProcs, Yielded(p), NEW o \in DOMAIN schemas[p].answered \cap schemas[p].included
               PROVE  o \in DOMAIN Seen(p) /\ schemas[p].answered[o] \subseteq Seen(p)[o]
    BY DEF SchemaIsUpToDate
  <2>1. o \in DOMAIN schemas[p].db /\ schemas[p].answered[o] \subseteq schemas[p].db[o].fields
    BY DEF SchemaInv, ProcessSound, UpToDate, Yielded, Later
  <2> QED BY <2>1 DEF Seen
<1>2. CacheKeepsItsTimes
  BY DEF SchemaInv, RowsKept, CacheKeepsItsTimes
<1>3. FailsForAReason
  BY DEF SchemaInv, ProcessFails, FailsForAReason
<1> QED BY <1>1, <1>2, <1>3

\* A schema that is given out has every field its objects had when they answered, the file never
\* claims to be newer than it is, and a file that cannot be used fails nothing but a process
\* that is about to remove it when another does (get_org_schema).
THEOREM SchemaSound == SchemaSpec => []SchemaIsSound
BY SchemaInvInit, SchemaInvStep, SchemaInvImplies, PTL DEF SchemaSpec
====
