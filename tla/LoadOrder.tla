----------------------------- MODULE LoadOrder -----------------------------
(***************************************************************************)
(* The order of the steps of a data mapping (cumulusci/tasks/bulkdata):    *)
(* how generate_dataset_mapping sorts the objects of an org                *)
(* (generate_mapping.py), how the tables of an extract declaration are     *)
(* sorted (generate_mapping_utils/), which lookups are deferred, and what  *)
(* the validation of a mapping makes of it (mapping_parser.py).            *)
(*                                                                         *)
(* Every object has at most two lookup fields: "hard" is required and      *)
(* references one object, "soft" may be empty and references any number.   *)
(***************************************************************************)
EXTENDS Integers, Sequences, FiniteSets, SequencesExt, FiniteSetsExt

CONSTANTS
  Objects,      \* the objects, in the order of their names
  FileOrders,   \* orders of the steps in a mapping written by hand
  Droppable,    \* the objects an org may lack
  MaxSoft       \* bound on the references of all the soft fields together

Object == ToSet(Objects)

ASSUME OrderAssumption ==
  /\ IsInjective(Objects) /\ Droppable \subseteq Object /\ MaxSoft \in Nat
  /\ \A f \in FileOrders : f \in Seq(Object) /\ IsInjective(f) /\ ToSet(f) = Object

VARIABLES
  orderPc,
  origin,      \* "schema", "tables" or "file": where the mapping comes from
  targets,     \* the objects each field references
  stack,       \* the objects sorted so far
  lookups,     \* the lookups of each step: their tables, and the step they come after
  absent       \* the objects the org lacks

orderVars == <<orderPc, origin, targets, stack, lookups, absent>>

Field == {"hard", "soft"}

\* The tables of a field that has been dropped from the mapping, or never was, are {}.
NoLookup == [tables |-> {}, after |-> ""]

Targets ==
  {t \in [Object -> [hard : {s \in SUBSET Object : Cardinality(s) <= 1}, soft : SUBSET Object]] :
     /\ \A o \in Object : o \notin t[o].hard
     /\ MapThenSumSet(LAMBDA o : Cardinality(t[o].soft), Object) <= MaxSoft}

OrderTypeOK ==
  /\ orderPc \in {"idle", "sort", "build", "validate", "infer", "ready", "refused"}
  /\ origin \in {"none", "schema", "tables", "file"}
  /\ \A o \in Object, f \in Field : targets[o][f] \subseteq Object
  /\ stack \in Seq(Object) /\ IsInjective(stack)
  /\ \A o \in Object, f \in Field :
       lookups[o][f].tables \subseteq Object /\ lookups[o][f].after \in Object \cup {""}
  /\ absent \subseteq Droppable

OrderInit ==
  /\ orderPc = "idle" /\ origin = "none" /\ stack = <<>> /\ absent = {}
  /\ targets = [o \in Object |-> [f \in Field |-> {}]]
  /\ lookups = [o \in Object |-> [f \in Field |-> NoLookup]]

Index(o) == IF o \in ToSet(stack) THEN SelectInSeq(stack, LAMBDA x : x = o) ELSE 0

-----------------------------------------------------------------------------
(* _split_dependencies.                                                    *)

Remaining == SelectSeq(Objects, LAMBDA o : o \notin ToSet(stack))

\* The references not yet satisfied; one to the object itself is not a dependency.
DependsOn(o, fields) == UNION {targets[o][f] : f \in fields} \ (ToSet(stack) \cup {o})

Free(fields) == SelectSeq(Remaining, LAMBDA o : DependsOn(o, fields) = {})

CollectSchema ==
  /\ orderPc = "idle" /\ origin' = "schema" /\ targets' \in Targets
  /\ orderPc' = "sort"
  /\ UNCHANGED <<stack, lookups, absent>>

TakeFree ==
  /\ orderPc = "sort" /\ Free(Field) # <<>>
  /\ stack' = stack \o Free(Field)
  /\ UNCHANGED <<orderPc, origin, targets, lookups, absent>>

\* Mutant: cycles are broken without a look at what is required.
choose_next_objectAny == {Head(Remaining)}

\* find_free_object; break_cycles = "auto", or what the user says.
choose_next_object ==
  IF Free({"hard"}) # <<>> THEN {Head(Free({"hard"}))} ELSE ToSet(Remaining)

BreakCycle ==
  /\ orderPc = "sort" /\ Remaining # <<>> /\ Free(Field) = <<>>
  /\ \E o \in choose_next_object : stack' = Append(stack, o)
  /\ UNCHANGED <<orderPc, origin, targets, lookups, absent>>

Sorted ==
  /\ orderPc = "sort" /\ Remaining = <<>>
  /\ orderPc' = "build"
  /\ UNCHANGED <<origin, targets, stack, lookups, absent>>

-----------------------------------------------------------------------------
(* _sort_by_dependencies; a required lookup has priority 1.                *)

\* _table_is_free
TableIsFree(o, sorted, priority, t) ==
  \A f \in Field :
    t[o][f] \subseteq ToSet(sorted) \cup {o} \/ (priority = 1 /\ f = "soft")

\* The sort of the remaining tables by their required lookups alone starts with
\* nothing sorted, and then they are sorted once more.
RECURSIVE _sort_by_dependencies(_, _, _, _)
_sort_by_dependencies(names, sorted, priority, t) ==
  IF names = <<>> THEN sorted
  ELSE LET leaf == SelectSeq(names, LAMBDA o : TableIsFree(o, sorted, priority, t))
           rest == SelectSeq(names, LAMBDA o : o \notin ToSet(sorted \o leaf))
           more == IF Len(rest) < Len(names) THEN leaf
                   ELSE IF priority = 0 /\ \E o \in Object : t[o].hard # {}
                   THEN _sort_by_dependencies(rest, <<>>, 1, t)
                   ELSE <<Head(SelectSeq(Objects, LAMBDA o : o \in ToSet(rest)))>>
       IN _sort_by_dependencies(rest, sorted \o more, priority, t)

\* sort_steps takes the first place of each.
FirstPlaces(s) ==
  SelectSeq([i \in DOMAIN s |-> <<s[i], i>>],
            LAMBDA p : SelectInSeq(s, LAMBDA o : o = p[1]) = p[2])

\* The tables in the order in which they were declared.
SortTables ==
  /\ orderPc = "idle" /\ origin' = "tables" /\ targets' \in Targets
  /\ LET s == FirstPlaces(_sort_by_dependencies(Objects, <<>>, 0, targets'))
     IN stack' = [i \in DOMAIN s |-> s[i][1]]
  /\ orderPc' = "build"
  /\ UNCHANGED <<lookups, absent>>

-----------------------------------------------------------------------------
(* _build_mapping, add_after_statements.                                   *)

LastTarget(tables) == stack[Max({Index(t) : t \in tables})]

\* Mutant: a reference to the object itself is not deferred.
LookupToOthers(o, tables) ==
  [tables |-> tables,
   after  |-> IF tables # {} /\ Index(LastTarget(tables)) > Index(o)
              THEN LastTarget(tables) ELSE ""]

Lookup(o, tables) ==
  [tables |-> tables,
   after  |-> IF tables # {} /\ Index(LastTarget(tables)) >= Index(o)
              THEN LastTarget(tables) ELSE ""]

Build ==
  /\ orderPc = "build"
  /\ lookups' = [o \in Object |-> [f \in Field |-> Lookup(o, targets[o][f])]]
  /\ orderPc' = "validate"
  /\ UNCHANGED <<origin, targets, stack, absent>>

\* A mapping written by hand, without after.
ReadFile ==
  /\ orderPc = "idle" /\ origin' = "file" /\ targets' \in Targets
  /\ stack' \in FileOrders
  /\ lookups' = [o \in Object |-> [f \in Field |-> [NoLookup EXCEPT !.tables = targets'[o][f]]]]
  /\ orderPc' = "validate"
  /\ UNCHANGED absent

-----------------------------------------------------------------------------
(* validate_and_inject_mapping, _infer_and_validate_lookups.               *)

Refuse == orderPc' = "refused" /\ UNCHANGED <<origin, targets, stack, lookups>>

\* Some objects are missing in the org: the mapping is refused, or their steps are
\* dropped, and every lookup none of whose tables is left.
Validate ==
  /\ orderPc = "validate"
  /\ \E missing \in SUBSET Droppable :
       /\ absent' = missing
       /\ LET gone(o, f) == lookups[o][f].tables # {} /\ lookups[o][f].tables \subseteq missing IN
          \/ missing # {} /\ Refuse
          \/ /\ \E o \in Object \ missing : gone(o, "hard")
             /\ Refuse
          \/ /\ \A o \in Object \ missing : ~gone(o, "hard")
             /\ stack' = SelectSeq(stack, LAMBDA o : o \notin missing)
             /\ lookups' = [o \in Object |-> [f \in Field |->
                              IF o \in missing \/ gone(o, f) THEN NoLookup ELSE lookups[o][f]]]
             /\ orderPc' = "infer"
             /\ UNCHANGED <<origin, targets>>

\* Mutant: only the last of the tables must precede.
MustPrecedeLast(o, l) ==
  l.after = "" /\ Cardinality(l.tables) # 1 =>
    l.tables \subseteq ToSet(stack) /\ \E t \in l.tables : Index(t) < Index(o)

\* What a lookup that is not deferred is refused for: a table without a step, or,
\* when it has several, one that does not precede.
MustPrecede(o, l) ==
  l.after = "" /\ Cardinality(l.tables) # 1 =>
    l.tables \subseteq ToSet(stack) /\ \A t \in l.tables : Index(t) < Index(o)

\* A lookup to one table that does not precede comes after the step it is in.
Inferred(o, l) ==
  IF l.after = "" /\ Cardinality(l.tables) = 1 /\ \E t \in l.tables : Index(t) >= Index(o)
  THEN [l EXCEPT !.after = o] ELSE l

Infer ==
  /\ orderPc = "infer"
  /\ IF \A o \in ToSet(stack), f \in Field : lookups[o][f].tables # {} => MustPrecede(o, lookups[o][f])
     THEN /\ lookups' = [o \in Object |-> [f \in Field |-> Inferred(o, lookups[o][f])]]
          /\ orderPc' = "ready"
          /\ UNCHANGED <<origin, targets, stack>>
     ELSE Refuse
  /\ UNCHANGED absent

OrderNext ==
  \/ CollectSchema \/ TakeFree \/ BreakCycle \/ Sorted \/ SortTables
  \/ ReadFile \/ Build \/ Validate \/ Infer

OrderSpec == OrderInit /\ [][OrderNext]_orderVars

-----------------------------------------------------------------------------
(* Properties.                                                             *)

Ready(o, f) == orderPc = "ready" /\ o \in ToSet(stack) /\ lookups[o][f].tables # {}

\* The records a lookup refers to are loaded before it is: before the step of its
\* object, or, for a lookup a generated mapping defers, before the update that follows
\* its after step, and so is the object's own record.
LoadableInOrder ==
  \A o \in Object, f \in Field : Ready(o, f) =>
    LET l == lookups[o][f] IN
      /\ l.after = "" => \A t \in l.tables : Index(t) \in 1..(Index(o) - 1)
      /\ l.after # "" /\ origin # "file" /\ ToSet(stack) = Object =>
           /\ \A t \in l.tables : Index(t) <= Index(l.after)
           /\ Index(o) <= Index(l.after)

\* The targets of a required lookup, from one object to the next.
RequiredFrom(o) ==
  LET reach[n \in 0..Len(Objects)] ==
        IF n = 0 THEN targets[o].hard
        ELSE reach[n - 1] \cup UNION {targets[p].hard : p \in reach[n - 1]}
  IN reach[Len(Objects)]

NoRequiredCycle == \A o \in Object : o \notin RequiredFrom(o)

\* A required lookup cannot be deferred: unless the required lookups form a cycle, the
\* mapping generated from a schema loads its target first, whatever else is cyclic.
RequiredAreNotDeferred ==
  origin = "schema" /\ orderPc = "ready" /\ NoRequiredCycle =>
    \A o \in ToSet(stack) : lookups[o].hard.after = ""

\* A generated mapping is refused only for what the org lacks.
GeneratedIsAccepted ==
  orderPc = "refused" /\ origin # "file" => absent # {}

\* Does not hold.  "run the algorithm with ONLY the declared/hard dependencies and see if
\* it comes to resolution" (generate_mapping_utils/dependency_map.py:88): it does not see
\* what is sorted already.
TablesByPriority ==
  origin = "tables" /\ orderPc = "ready" /\ NoRequiredCycle =>
    \A o \in ToSet(stack) : lookups[o].hard.after = ""

\* Does not hold.  "Also verify that the mapping for the tables are mentioned before they
\* are mentioned in the lookups" (mapping_parser.py:708): a lookup to a later step comes
\* after its own step, where there is nothing yet to refer to.
TablesAreMentionedBefore ==
  \A o \in Object, f \in Field : Ready(o, f) /\ origin = "file" =>
    \A t \in lookups[o][f].tables :
      Index(t) <= (IF lookups[o][f].after = "" THEN Index(o) ELSE Index(lookups[o][f].after))

-----------------------------------------------------------------------------
(***************************************************************************)
(* The validation of one step of a data mapping against an org             *)
(* (MappingStep in cumulusci/tasks/bulkdata/mapping_parser.py): names are  *)
(* given the namespace of the package, or lose it, to be those of the org; *)
(* what is missing there, or not permitted, is dropped or refused.         *)
(***************************************************************************)

CONSTANTS
  Bases,      \* the names of the fields, without a namespace
  Builtin,    \* those that are never given one: they do not end in __c
  MaxFields   \* bound on the fields and lookups of the mapping

ASSUME FieldAssumption == Builtin \subseteq Bases /\ MaxFields \in Nat

VARIABLES
  fieldPc,
  fieldOption,   \* operation, action, drop_missing_schema, inject_namespaces
  describe,      \* the fields of the org: what is permitted, whether it is required
  orig_fields,   \* the fields and the lookups of the mapping, in order
  checkAt,       \* the field at hand
  field_dict,    \* the name each now has: a function from names to those of the mapping
  wrong          \* fields that could not be validated

fieldVars == <<fieldPc, fieldOption, describe, orig_fields, checkAt, field_dict, wrong>>

FieldName == {n \in [base : Bases, ns : BOOLEAN] : n.base \in Builtin => ~n.ns}

\* An entry of the mapping; fields and lookups are apart.
Entry == {e \in [base : Bases, ns : BOOLEAN, lookup : BOOLEAN] : e.base \in Builtin => ~e.ns}

Name(e) == [base |-> e.base, ns |-> e.ns]

Permission == {"createable", "updateable"}

FieldTypeOK ==
  /\ fieldPc \in {"idle", "check", "required", "ready", "refused"}
  /\ fieldOption \in [query : BOOLEAN, action : {"insert", "update", "upsert"},
                      drop : BOOLEAN, inject : BOOLEAN]
  /\ DOMAIN describe \subseteq FieldName
  /\ \A n \in DOMAIN describe : describe[n] \in [may : SUBSET Permission, required : BOOLEAN]
  /\ orig_fields \in Seq(Entry)
  /\ checkAt \in 1..(Len(orig_fields) + 1)
  /\ DOMAIN field_dict \subseteq Entry
  /\ \A n \in DOMAIN field_dict : field_dict[n] \in ToSet(orig_fields)
  /\ wrong \subseteq Entry

FieldInit ==
  /\ fieldPc = "idle"
  /\ fieldOption = [query |-> FALSE, action |-> "insert", drop |-> FALSE, inject |-> FALSE]
  /\ describe = <<>> /\ orig_fields = <<>>
  /\ checkAt = 1 /\ field_dict = <<>> /\ wrong = {}

\* A field of the organisation's own may be for reading only, or be given only with the
\* creation of a record, or be required.
Unlimited == [may |-> Permission, required |-> FALSE]
Describes ==
  {d \in UNION {[S -> [may : {{}, {"createable"}, Permission}, required : {FALSE}] \cup
                       [may : {Permission}, required : {TRUE}]] : S \in SUBSET FieldName} :
     \A n \in DOMAIN d : n.base \in Builtin => d[n] = Unlimited}

ReadMapping ==
  /\ fieldPc = "idle" /\ fieldPc' = "check"
  /\ fieldOption' \in {o \in [query : BOOLEAN, action : {"insert", "update", "upsert"},
                              drop : BOOLEAN, inject : BOOLEAN] : o.query => o.action = "insert"}
  /\ describe' \in Describes
  /\ \E S \in SUBSET Entry \ {{}} : Cardinality(S) <= MaxFields /\ orig_fields' \in SetToSeqs(S)
  /\ field_dict' = [n \in ToSet(orig_fields') |-> n]
  /\ UNCHANGED <<checkAt, wrong>>

-----------------------------------------------------------------------------
(* _validate_field_dict, for one field.                                    *)

InOrg(e) == Name(e) \in DOMAIN describe

Injected(n) == [n EXCEPT !.ns = TRUE]
Stripped(n) == [n EXCEPT !.ns = FALSE]

\* replace_if_necessary
Replacement(n, m) == IF ~InOrg(n) /\ InOrg(m) THEN m ELSE n

\* Mutant: a field whose other name the mapping has too is renamed as well.
InjectableAny(f) == fieldOption.inject /\ f.base \notin Builtin /\ ~f.ns

Injectable(f) ==
  /\ fieldOption.inject /\ f.base \notin Builtin /\ ~f.ns
  /\ Injected(f) \notin ToSet(orig_fields)

\* Mutant: the namespaced name is preferred when the org has both.
NameInOrgNamespaced(f) ==
  LET g == IF Injectable(f) /\ InOrg(Injected(f)) THEN Injected(f) ELSE f
  IN IF fieldOption.inject THEN Replacement(g, Stripped(g)) ELSE g

NameInOrg(f) ==
  LET g == IF Injectable(f) THEN Replacement(f, Injected(f)) ELSE f
  IN IF fieldOption.inject THEN Replacement(g, Stripped(g)) ELSE g

\* Mutant: an upsert is taken for an insert.
RequiredPermissionsInsert(lookup) ==
  CASE fieldOption.query /\ ~lookup -> {}
    [] ~fieldOption.query /\ fieldOption.action = "update" /\ ~lookup -> {"updateable"}
    [] OTHER -> {"createable"}

\* A lookup is taken for one that comes after, with or without such a statement.
RequiredPermissions(lookup) ==
  CASE fieldOption.query /\ ~lookup -> {}
    [] ~fieldOption.query /\ fieldOption.action = "update" /\ ~lookup -> {"updateable"}
    [] fieldOption.action = "upsert" -> {"updateable", "createable"}
    [] OTHER -> {"createable"}

FieldCorrect(e) == InOrg(e) /\ RequiredPermissions(e.lookup) \subseteq describe[Name(e)].may

CheckField ==
  /\ fieldPc = "check" /\ checkAt \in DOMAIN orig_fields
  /\ LET f == orig_fields[checkAt]
         n == NameInOrg(f)
         ok == FieldCorrect(n)
         renamed == [m \in (DOMAIN field_dict \ {f}) \cup {n} |->
                       IF m = n THEN f ELSE field_dict[m]]
     IN /\ field_dict' = IF ok \/ ~fieldOption.drop THEN renamed
                         ELSE [m \in DOMAIN renamed \ {n} |-> renamed[m]]
        /\ wrong' = IF ok THEN wrong ELSE wrong \cup {f}
  /\ checkAt' = checkAt + 1
  /\ UNCHANGED <<fieldPc, fieldOption, describe, orig_fields>>

AllChecked ==
  /\ fieldPc = "check" /\ checkAt \notin DOMAIN orig_fields
  /\ fieldPc' = "required"
  /\ UNCHANGED <<fieldOption, describe, orig_fields, checkAt, field_dict, wrong>>

RequiredFields == {n \in DOMAIN describe : describe[n].required}

\* Mutant: names are compared without their namespace.
MissingFieldsByBase ==
  {n \in RequiredFields : \A e \in DOMAIN field_dict : e.base # n.base}

MissingFields == RequiredFields \ {Name(e) : e \in DOMAIN field_dict}

\* Only a load checks the required fields; nothing is refused when it may be dropped.
CheckRequired ==
  /\ fieldPc = "required"
  /\ fieldPc' = IF ~fieldOption.drop /\ (wrong # {} \/ (~fieldOption.query /\ MissingFields # {}))
                THEN "refused" ELSE "ready"
  /\ UNCHANGED <<fieldOption, describe, orig_fields, checkAt, field_dict, wrong>>

FieldNext == ReadMapping \/ CheckField \/ AllChecked \/ CheckRequired

FieldSpec == FieldInit /\ [][FieldNext]_fieldVars

-----------------------------------------------------------------------------
(* Properties.                                                             *)

\* What a validated step works with is there and permitted, by its name in the org.
ReadyIsPermitted ==
  fieldPc = "ready" => \A e \in DOMAIN field_dict :
    /\ InOrg(e)
    /\ ~fieldOption.query /\ fieldOption.action = "upsert" => Permission \subseteq describe[Name(e)].may
    /\ ~fieldOption.query /\ fieldOption.action = "insert" => "createable" \in describe[Name(e)].may

\* A field the org has by the name in the file keeps that name.
OwnNameFirst ==
  fieldPc \in {"required", "ready"} => \A e \in DOMAIN field_dict :
    InOrg(field_dict[e]) => e = field_dict[e]

\* No column of the dataset takes the place of another when a namespace is given to it.
InjectionKeepsColumns ==
  fieldPc = "ready" /\ wrong = {} /\ (\A f \in ToSet(orig_fields) : ~f.ns \/ InOrg(f)) =>
    \A f \in ToSet(orig_fields) : \E e \in DOMAIN field_dict : field_dict[e] = f

\* A load that is not to drop anything has every required field, by its name in the org.
RequiredAreLoaded ==
  fieldPc = "ready" /\ ~fieldOption.query /\ ~fieldOption.drop =>
    \A n \in RequiredFields : \E e \in DOMAIN field_dict : Name(e) = n

\* Does not hold.  "Fields don't have "queryable" permission" (mapping_parser.py:392): an
\* extraction refuses a lookup that may not be written.
QueryNeedsNoPermission ==
  fieldPc = "refused" /\ fieldOption.query =>
    \E f \in wrong : {Name(f), Name(Injected(f)), Name(Stripped(f))} \cap DOMAIN describe = {}
=============================================================================
