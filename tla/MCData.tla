------------------------------ MODULE MCData ------------------------------
(***************************************************************************)
(* The components that move records between files and an org.              *)
(* A behaviour is one of one component.                                    *)
(***************************************************************************)
EXTENDS BulkLoad, LoadOrder, RecordSelect, DataExtract, PortionGenerator, SchemaCache,
  DataDictionary

VARIABLE subject   \* the component this behaviour is about

MCTables == <<"A", "C">>
MCRowsOf == [A |-> <<"a1", "a2">>, C |-> <<"c1", "c2", "c3">>]
MCRef == [a1 |-> "a2", a2 |-> "none", c1 |-> "a2", c2 |-> "a1", c3 |-> "a2"]
MCAfter == [A |-> "A", C |-> ""]

MCObjects == <<"A", "B", "C">>
MCFileOrders == {<<"A", "B", "C">>, <<"C", "B", "A">>}

\* Distances of 0 and 10: one at each threshold, and one beyond that of 0.
MCValues == {<<"b">>, <<"b", "a">>}
MCThresholds == {-1, 0, 10}

MCExtractSteps == <<"A", "B", "B2">>
MCObjectOf == [A |-> "A", B |-> "B", B2 |-> "B"]
MCSelected == [A |-> {"x1", "x2"}, B |-> {"x3", "x4"}, B2 |-> {"x4"}]
MCLookupTables == [A |-> {"B", "B2"}, B |-> {"A"}, B2 |-> {}]

MCDeleteObjects == <<"A", "B">>
MCRecordsOf == [A |-> {"x1", "x2"}, B |-> {"y1", "y2"}]
MCParent == [x1 |-> "none", x2 |-> "x1", y1 |-> "x2", y2 |-> "none"]

\* So that a load that is done is to be complete.
ASSUME MCLookupsInOrder == LookupsInOrder

\* A mapping can be loaded in its order, written or generated, and names fields that are there,
\* permitted and their own; and the dictionary tells since when there are objects and fields.
MappingsAreSound ==
  /\ OrderTypeOK /\ FieldTypeOK
  /\ LoadableInOrder /\ RequiredAreNotDeferred /\ GeneratedIsAccepted
  /\ ReadyIsPermitted /\ OwnNameFirst /\ InjectionKeepsColumns /\ RequiredAreLoaded
  /\ DictionaryIsSound

\* Rows are given the records nearest to them, or new ones, and a rollback spares
\* the records that were there.
SelectionIsSound ==
  /\ SelectTypeOK
  /\ RowsGetTheirRecords /\ SelectedEvenly /\ DistanceIsAMetric
  /\ RollbackSparesTheSelected /\ RollbackRemovesTheInserted

\* What is extracted from an org that changes is closed under lookups, and what
\* is deleted from one is gone.
ExtractsAndDeletesAreSound ==
  /\ ExtractTypeOK /\ ChangeTypeOK
  /\ ExtractIsClosed /\ LocalIdsAreUnique /\ RefusedForAReason /\ DeletedIsGone

MCObjectNames == <<"A", "B">>
MCFieldsAtFirst == [A |-> {"f", "g"}, B |-> {"f"}]
MCAsks == {[objects |-> {"A", "B"}, counts |-> FALSE, force |-> FALSE],
           [objects |-> {"A"}, counts |-> TRUE, force |-> TRUE]}

\* The dictionary: a project p, whose releases differ, that depends on d.
MCDictPackages == <<"p", "d">>
MCFile(meta, apart, held) == [meta |-> meta, apart |-> apart, fields |-> held]
MCField(values, help) == [name |-> "F", values |-> values, help |-> help]
MCContents ==
  {<<>>, <<"", "O">> :> MCFile("public", FALSE, {MCField(0, 0)}),
   <<"", "O">> :> MCFile("protected", TRUE, {MCField(0, 0)}),
   <<"", "O">> :> MCFile("public", TRUE, {MCField(1, 0), [name |-> "Name", values |-> 0, help |-> 0]}),
   <<"", "O">> :> MCFile("public", FALSE, {MCField(1, 1)})
     @@ <<"d", "X">> :> MCFile("absent", FALSE, {MCField(0, 0)})
     @@ <<"", "Account">> :> MCFile("absent", FALSE, {MCField(0, 0)})
     @@ <<"", "View">> :> MCFile("public", FALSE, {MCField(0, 0)})}
MCRelease(version, draft, format, files) ==
  [version |-> version, draft |-> draft, zip |-> [format |-> format, files |-> files]]
MCListed(c, shape) ==
  CASE shape = "mdapi" -> [i \in 1..3 |-> MCRelease(4 - i, FALSE, "mdapi", c[4 - i])]
    [] shape = "sfdx"  -> [i \in 1..3 |-> MCRelease(4 - i, FALSE, "sfdx", c[4 - i])]
    [] shape = "moved" ->
         <<MCRelease(4, TRUE, "sfdx", c[1]), MCRelease(2, FALSE, "sfdx", c[2]), MCRelease(3, FALSE, "sfdx", c[3]),
           MCRelease(0, FALSE, "sfdx", c[3]), MCRelease(1, FALSE, "mdapi", c[1])>>
MCOther(meta) ==
  <<MCRelease(1, FALSE, "sfdx", <<"", "X">> :> MCFile(meta, FALSE, {MCField(0, 0)})),
    MCRelease(2, FALSE, "neither", <<>>)>>
MCHistories ==
  {[p |-> MCListed(c, shape), d |-> MCOther(IF shape = "moved" THEN "public" ELSE "protected")] :
     c \in [1..3 -> MCContents], shape \in {"mdapi", "sfdx", "moved"}}
MCBranches == {[format |-> "sfdx", files |-> <<>>],
  [format |-> "sfdx", files |-> <<"", "O">> :> MCFile("public", TRUE, {MCField(1, 0), [name |-> "Name", values |-> 0, help |-> 0]})]}

\* Every load, extract, deletion and update ends (LoadEnds, ExtractEnds and ChangeEnds at
\* once: where one is about, the others' components are idle).
DataTasksEnd ==
  (bulkPc # "idle" \/ extractPc # "idle" \/ changePc # "idle")
    ~> (\/ bulkPc \in {"done", "failed"} \/ extractPc \in {"done", "failed", "refused"}
        \/ changePc \in {"done", "failed"})

Init ==
  /\ subject \in {"load", "order", "select", "extract", "change", "fields", "portions",
      "schema", "dictionary"}
  /\ BulkInit
  /\ OrderInit
  /\ SelectInit
  /\ ExtractInit
  /\ ChangeInit
  /\ FieldInit
  /\ PortionInit
  /\ (subject = "schema" \/ (cacheFile = NoFile))
  /\ SchemaInit
  /\ DictInit

Next ==
  \/ /\ subject = "load" /\ BulkNext
     /\ UNCHANGED <<subject, orderVars, selectVars, extractVars, changeVars, fieldVars,
                     portionVars, schemaVars, dictVars>>
  \/ /\ subject = "order" /\ OrderNext
     /\ UNCHANGED <<subject, bulkVars, selectVars, extractVars, changeVars, fieldVars,
                     portionVars, schemaVars, dictVars>>
  \/ /\ subject = "select" /\ SelectNext
     /\ UNCHANGED <<subject, bulkVars, orderVars, extractVars, changeVars, fieldVars,
                     portionVars, schemaVars, dictVars>>
  \/ /\ subject = "extract" /\ ExtractNext
     /\ UNCHANGED <<subject, bulkVars, orderVars, selectVars, changeVars, fieldVars,
                     portionVars, schemaVars, dictVars>>
  \/ /\ subject = "change" /\ ChangeNext
     /\ UNCHANGED <<subject, bulkVars, orderVars, selectVars, extractVars, fieldVars,
                     portionVars, schemaVars, dictVars>>
  \/ /\ subject = "fields" /\ FieldNext
     /\ UNCHANGED <<subject, bulkVars, orderVars, selectVars, extractVars, changeVars,
                     portionVars, schemaVars, dictVars>>
  \/ /\ subject = "portions" /\ PortionNext
     /\ UNCHANGED <<subject, bulkVars, orderVars, selectVars, extractVars, changeVars,
                     fieldVars, schemaVars, dictVars>>
  \/ /\ subject = "schema" /\ SchemaNext
     /\ UNCHANGED <<subject, bulkVars, orderVars, selectVars, extractVars, changeVars,
                     fieldVars, portionVars, dictVars>>
  \/ /\ subject = "dictionary" /\ DictNext
     /\ UNCHANGED <<subject, bulkVars, orderVars, selectVars, extractVars, changeVars,
                     fieldVars, portionVars, schemaVars>>

Spec == Init /\ [][Next]_<<subject, bulkVars, orderVars, selectVars, extractVars,
          changeVars, fieldVars, portionVars, schemaVars, dictVars>>

\* As there is one subject, a step of each kind is a step of its.
ClientStep ==
  \/ subject = "load" /\ TaskStepOfLoad /\ UNCHANGED <<extractVars, changeVars>>
  \/ subject = "extract" /\ ExtractStep /\ UNCHANGED <<bulkVars, changeVars>>
  \/ subject = "change" /\ ChangeStep /\ UNCHANGED <<bulkVars, extractVars>>
OrgStep ==
  \/ subject = "load" /\ ServerBatches /\ UNCHANGED <<extractVars, changeVars>>

FairSpec ==
  /\ Spec
  /\ WF_<<bulkVars, extractVars, changeVars>>(ClientStep)
  /\ WF_<<bulkVars, extractVars, changeVars>>(OrgStep)
=============================================================================
