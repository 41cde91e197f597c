------------------------------ MODULE MetadataEdit ------------------------------
(* The tasks that change metadata of an org: each retrieves the files of some    *)
(* entities, edits them one after the other, in no order, deploys what was       *)
(* edited, all or nothing, and may wait until the org shows it.                  *)
EXTENDS Integers, Sequences, FiniteSets, SequencesExt

CONSTANT MaxAdminChanges   \* bound on what others change between retrieval and deployment

ASSUME EditAssumption == MaxAdminChanges \in Nat

VARIABLES
  editPc,       \* where the task is
  editKind,     \* which task it is
  editOption,   \* its options
  editNames,    \* the names of entities it was given, or "*"
  orgFiles,     \* external: the file of each entity that is there
  othersFiles,  \* history: orgFiles without what the task deployed
  retrieved,    \* the files as retrieved
  editTodo,     \* the entities still to edit
  toDeploy,     \* the files edited so far
  keptNames,    \* fields of layouts: those found in any layout so far
  shownModels,  \* external: the entities whose sharing models the org shows as deployed
  adminChanges

editVars == <<editPc, editKind, editOption, editNames, orgFiles, othersFiles, retrieved, editTodo,
              toDeploy, keptNames, shownModels, adminChanges>>
editGiven == <<editKind, editOption, editNames>>

\* The name of "Q" has characters that are quoted in names of files.
Entity == {"A", "Q"}
\* Tasks whose options name their entities; the others may be given "*".
OwnNames == {"picklist", "help", "sharing", "fieldSet", "override"}
Kind == OwnNames \cup {"layout", "action", "related", "access", "child", "settings", "values",
                    "ranges"}

\* A file is what the task looks at: the values of a picklist with those of two record types,
\* the fields of a layout by section and column, its list of actions, two sharing models, or a
\* list of elements, each with what it is known by.
Elem(key, value) == [key |-> key, value |-> value]
Entry(name, default, before) == [name |-> name, default |-> default, before |-> before]
Place(field, relative, section, column) ==
  [field |-> field, relative |-> relative, section |-> section, column |-> column]
NoList == <<Elem("-", "-")>>
NoActions == <<"-">>

Files(kind) ==
  CASE kind = "picklist" ->
         {[values |-> <<Elem("a", "true")>>, types |-> [r1 |-> <<>>, r2 |-> <<>>]],
          [values |-> <<Elem("b", "false"), Elem("a", "false")>>,
           types |-> [r1 |-> <<Elem("a", "true")>>, r2 |-> NoList]]}
    [] kind = "layout" ->
         {<<<< <<"f">>, <<"g">> >>>>, <<<< <<"x", "f">>, <<>> >>, << <<"g">> >>>>}
    [] kind = "action" -> {NoActions, <<>>, <<"a", "b">>, <<"b", "x">>}
    [] kind = "sharing" -> [ext : {"-", "Parent", "Private"}, int : {"Parent", "Private"}]
    [] kind = "help" -> {<<Elem("f", "-"), Elem("g", "old")>>, <<Elem("g", ""), Elem("f", "old"), Elem("f", "old")>>}
    [] kind = "fieldSet" -> {<<Elem("f", "displayed"), Elem("g", "available")>>, <<>>}
    [] OTHER -> {<<>>, <<Elem("f", "old"), Elem("g", "old")>>, <<Elem("g", "old"), Elem("f", "old"), Elem("f", "old")>>}

Upto(S, n) == UNION {[1..k -> S] : k \in 1..n}
Elems == {Elem("f", "new"), Elem("h", "new"), Elem("h", "newer")}

Options(kind) ==
  CASE kind = "picklist" ->
         {o \in [entries : Upto({Entry("x", FALSE, "-"), Entry("x", TRUE, "a"), Entry("y", FALSE, "x"),
                                 Entry("y", TRUE, "-"), Entry("a", TRUE, "-")}, 2),
                 record_types : {{}, {"r1"}, {"*"}}] :
            Cardinality({i \in DOMAIN o.entries : o.entries[i].default}) <= 1}
    [] kind = "layout" ->
         {o \in Upto([name : {"x", "y"},
                      position : {<<>>, <<Place("f", "before", -1, "-")>>, <<Place("x", "top", -1, "-")>>,
                                  <<Place("-", "bottom", 1, "last"), Place("g", "after", -1, "-")>>,
                                  <<Place("-", "bottom", -1, "first")>>}], 2) :
            Len(o) = 2 => o[1].name # o[2].name}
    [] kind = "action" -> [name : {"x"}, first : BOOLEAN]
    [] kind = "sharing" ->
         {o \in [ext : {"-", "Parent", "Private"}, int : {"-", "Parent", "Private"}, stop : BOOLEAN] :
            o.ext # "-" \/ o.int # "-"}
    [] kind = "related" -> {<<Elem("h", "new")>>, <<Elem("f", "new")>>}
    [] kind = "help" -> [entries : Upto(Elems, 2), overwrite : BOOLEAN]
    [] kind = "fieldSet" -> Upto({Elem("f", "displayed"), Elem("g", "displayed"), Elem("h", "displayed")}, 2)
    [] kind = "ranges" -> [entries : Upto(Elems, 2), replace : BOOLEAN]
    [] OTHER -> Upto(Elems, 2)

EditTypeOK ==
  /\ editPc \in {"retrieve", "transform", "deploy", "poll", "done", "failed"} /\ editKind \in Kind
  /\ editNames \subseteq Entity \cup {"*"} /\ editTodo \subseteq Entity /\ shownModels \subseteq Entity
  /\ \A f \in {orgFiles, othersFiles, retrieved, toDeploy} : DOMAIN f \subseteq Entity
  /\ adminChanges \in 0..MaxAdminChanges

NoFiles == [e \in {} |-> <<>>]
EditInit ==
  /\ editKind \in Kind /\ editOption \in Options(editKind)
  /\ editNames \in {{"A"}, Entity} \cup (IF editKind \in OwnNames THEN {} ELSE {{"*"}, {"*", "Q"}})
  /\ orgFiles \in UNION {[S -> Files(editKind)] : S \in {{"A"}, Entity}}
  /\ editPc = "retrieve" /\ othersFiles = orgFiles /\ retrieved = NoFiles /\ editTodo = {}
  /\ toDeploy = NoFiles /\ keptNames = {} /\ shownModels = {} /\ adminChanges = 0

-----------------------------------------------------------------------------
(* What each task makes of a file.                                             *)

Edited(file) == [is |-> "edited", file |-> file]
Unedited == [is |-> "unedited"]
Error == [is |-> "error"]

Keys(list) == {list[i].key : i \in DOMAIN list}
IndexOf(list, key) == SelectInSeq(list, LAMBDA x : x.key = key)

\* The new one goes before the one it names, if that is there, else to the end.
InsertEntry(list, e) ==
  LET at == IndexOf(list, e.before)
  IN  IF e.name \in Keys(list) THEN list ELSE InsertAt(list, IF at = 0 THEN Len(list) + 1 ELSE at, Elem(e.name, "false"))
SetDefault(list, name) ==
  [i \in DOMAIN list |-> Elem(list[i].key, IF list[i].key = name THEN "true" ELSE "false")]

\* A mutant: what was the default stays one too.
_add_picklist_field_entryTwoDefaults(list, e) ==
  LET with == InsertEntry(list, e)
  IN  IF e.default THEN [with EXCEPT ![IndexOf(with, e.name)].value = "true"] ELSE with
_add_picklist_field_entry(list, e) ==
  LET with == InsertEntry(list, e) IN IF e.default THEN SetDefault(with, e.name) ELSE with

\* In a record type every entry becomes the default: what is asked is a method, not its result.
_add_single_record_type_entries(list, e) ==
  SetDefault(InsertEntry(IF list = NoList THEN <<>> ELSE list, e), e.name)

_add_record_type_entries(types, asked, e) ==
  [r \in DOMAIN types |->
     IF r \in asked \/ "*" \in asked THEN _add_single_record_type_entries(types[r], e) ELSE types[r]]

_modify_picklist(file, option) ==
  FoldLeft(LAMBDA f, e : [values |-> _add_picklist_field_entry(f.values, e),
                          types |-> _add_record_type_entries(f.types, option.record_types, e)],
           file, option.entries)

\* Layouts: what was placed has its name only when all are placed; until then it is "new".
Fields(file) == UNION {ToSet(column) : column \in UNION {ToSet(section) : section \in ToSet(file)}}
NoPlace == <<>>
Where(file, field) ==
  CHOOSE p \in (1..2) \X (1..2) \X (1..5) :
    p[1] \in DOMAIN file /\ p[2] \in DOMAIN file[p[1]] /\ p[3] \in DOMAIN file[p[1]][p[2]]
      /\ file[p[1]][p[2]][p[3]] = field
_new_layout_item(file, field, relative, name) ==
  LET p == Where(file, field)
  IN  IF field \notin Fields(file) THEN NoPlace
      ELSE [file EXCEPT ![p[1]][p[2]] = InsertAt(@, IF relative = "before" THEN p[3] ELSE p[3] + 1, name)]

_new_section_item(file, index, relative, column, name) ==
  IF index > Len(file) - 1 THEN NoPlace
  ELSE LET c == IF column = "last" THEN Len(file[index+1]) ELSE 1
       IN  [file EXCEPT ![index+1][c] = IF relative = "bottom" THEN Append(@, name) ELSE <<name>> \o @]

\* A position by neither field nor section is none.
_process_position(file, p, name) ==
  CASE p.field # "-" ->
         _new_layout_item(file, p.field, IF p.relative = "before" THEN "before" ELSE "after", name)
    [] p.field = "-" /\ p.section >= 0 -> _new_section_item(file, p.section, p.relative, p.column, name)
    [] OTHER -> NoPlace

\* The first position that applies, at last the top of the last column of the first section.
_position_item(file, item, name) ==
  LET made == [i \in 1..Len(item.position)+1 |->
                 _process_position(file, Append(item.position, Place("-", "top", 0, "last"))[i], name)]
  IN  made[SelectInSeq(made, LAMBDA f : f # NoPlace)]

NewName(name) == "new " \o name
_add_items(file, items) == FoldLeft(LAMBDA f, item : _position_item(f, item, NewName(item.name)), file, items)
\* Fields that were found so far are passed over; pages are added in the same way.
_add_fields(file, option, kept) ==
  LET items == SelectSeq(option, LAMBDA item : item.name \notin kept)
      named(f, item) == LET p == Where(f, NewName(item.name)) IN [f EXCEPT ![p[1]][p[2]][p[3]] = item.name]
  IN  FoldLeft(named, _add_items(file, items), items)

\* An action that is there is left; else the list is made if need be, and numbered anew.
_create_new_action_list_item(list, option) ==
  LET there == IF list = NoActions THEN <<>> ELSE list
  IN  IF option.first THEN <<option.name>> \o there ELSE Append(there, option.name)
_add_action(list, option) ==
  IF option.name \in ToSet(list) THEN Unedited
  ELSE Edited(_create_new_action_list_item(list, option))

\* Both models or neither are those of the parent: the one that was not given follows the other.
_align_models(models, option, default) ==
  IF models.ext = "-" \/ (models.ext = "Parent") = (models.int = "Parent") THEN Edited(models)
  ELSE CASE option.stop -> Error
         [] ~option.stop /\ option.ext = "-" ->
              Edited([models EXCEPT !.ext = IF models.int = "Parent" THEN "Parent" ELSE default])
         [] ~option.stop /\ option.int = "-" ->
              Edited([models EXCEPT !.int = IF models.ext = "Parent" THEN "Parent" ELSE default])
         [] OTHER -> Edited(models)
_set_models(models, option) ==
  _align_models([ext |-> IF option.ext = "-" THEN models.ext ELSE option.ext,
                 int |-> IF option.int = "-" THEN models.int ELSE option.int], option, "Read")

\* The first of equal elements stays.
_remove_duplicate_elements(list) ==
  LET first == SelectSeq([i \in DOMAIN list |-> i], LAMBDA i : \A j \in 1..i-1 : list[j] # list[i])
  IN  [n \in DOMAIN first |-> list[first[n]]]

\* Lists of elements. An access that is there is updated wherever it is.
_upsert_field_permissions(list, e) ==
  IF e.key \notin Keys(list) THEN Append(list, e)
  ELSE [i \in DOMAIN list |-> IF list[i].key = e.key THEN e ELSE list[i]]
\* The text of the first element of its tag is set, and the element made if there is none.
_set_first(list, e) ==
  IF e.key \notin Keys(list) THEN Append(list, e) ELSE [list EXCEPT ![IndexOf(list, e.key)] = e]
_apply_updates(list, option) == FoldLeft(_set_first, list, option)
\* An override is known by its action, page, record type and profile.
_add_or_update_override(list, e) == _set_first(list, e)
_apply_setting(list, e) == _remove_duplicate_elements(_set_first(list, e))
\* A value that is there is left.
_add_value(list, e) == IF e.key \in Keys(list) THEN list ELSE Append(list, e)
\* A text that is blank, the same or to be overwritten is written; fields must be there.
_modify_help_text(list, e, overwrite) ==
  LET i == IndexOf(list, e.key)
  IN  IF list[i].value \in {"-", "", e.value} \/ overwrite THEN [list EXCEPT ![i] = e] ELSE list
\* A field leaves those that are available for those that are displayed.
_add_field(list, e) ==
  LET left == SelectSeq(list, LAMBDA x : x # Elem(e.key, "available"))
  IN  IF e \in ToSet(left) THEN left ELSE Append(left, e)
_add_ranges(list, option) == (IF option.replace THEN <<>> ELSE list) \o option.entries

_transform_entity(kind, option, entity, file) ==
  CASE kind = "picklist" -> Edited(_modify_picklist(file, option))
    [] kind = "layout" -> Edited(_add_fields(file, option, keptNames \cup Fields(file)))
    [] kind = "action" -> _add_action(file, option)
    [] kind = "sharing" -> _set_models(file, option)
    [] kind = "related" -> IF option[1].key \in Keys(file) THEN Unedited ELSE Edited(file \o option)
    [] kind = "help" -> IF \E i \in DOMAIN option.entries : option.entries[i].key \notin Keys(file) THEN Error
                        ELSE Edited(_remove_duplicate_elements(
                               FoldLeft(LAMBDA l, e : _modify_help_text(l, e, option.overwrite), file, option.entries)))
    [] kind = "fieldSet" -> Edited(FoldLeft(_add_field, file, option))
    [] kind = "access" -> Edited(FoldLeft(_upsert_field_permissions, file, option))
    [] kind = "child" -> Edited(_apply_updates(file, option))
    [] kind = "settings" -> Edited(FoldLeft(_apply_setting, file, option))
    [] kind = "override" -> Edited(IF entity = "Q" THEN file ELSE FoldLeft(_add_or_update_override, file, option))
    [] kind = "values" -> Edited(FoldLeft(_add_value, file, option))
    [] kind = "ranges" -> Edited(_add_ranges(file, option))
-----------------------------------------------------------------------------
(* The task.                                                                   *)

EditFails ==
  /\ editPc' = "failed"
  /\ UNCHANGED <<editGiven, orgFiles, othersFiles, retrieved, editTodo, toDeploy, keptNames, shownModels,
                 adminChanges>>

\* What is there of what is asked for comes back; "*" becomes the names of what came.
_retrieve ==
  /\ editPc = "retrieve"
  /\ \/ EditFails
     \/ LET got == IF "*" \in editNames THEN DOMAIN orgFiles ELSE editNames \cap DOMAIN orgFiles
        IN  /\ retrieved' = [e \in got |-> orgFiles[e]]
            /\ editTodo' = (editNames \ {"*"}) \cup (IF "*" \in editNames THEN got ELSE {})
            /\ editPc' = "transform"
            /\ UNCHANGED <<editGiven, orgFiles, othersFiles, toDeploy, keptNames, shownModels, adminChanges>>

\* One entity is edited. A file that is missing, or cannot be edited, fails the task.
_transform(e) ==
  /\ editPc = "transform" /\ e \in editTodo
  /\ IF e \notin DOMAIN retrieved THEN EditFails
     ELSE LET made == _transform_entity(editKind, editOption, e, retrieved[e])
          IN  IF made.is = "error" THEN EditFails
              ELSE /\ editTodo' = editTodo \ {e}
                   /\ toDeploy' = IF made.is = "unedited" THEN toDeploy
                                  ELSE [f \in DOMAIN toDeploy \cup {e} |-> IF f = e THEN made.file ELSE toDeploy[f]]
                   /\ keptNames' = IF editKind = "layout" THEN keptNames \cup Fields(retrieved[e]) ELSE keptNames
                   /\ editPc' = IF editTodo = {e} THEN "deploy" ELSE "transform"
                   /\ UNCHANGED <<editGiven, orgFiles, othersFiles, retrieved, shownModels, adminChanges>>

\* All that was edited is deployed, or nothing.
_deploy ==
  /\ editPc = "deploy"
  /\ \/ EditFails
     \/ /\ orgFiles' = [e \in DOMAIN orgFiles |-> IF e \in DOMAIN toDeploy THEN toDeploy[e] ELSE orgFiles[e]]
        /\ editPc' = IF editKind = "sharing" THEN "poll" ELSE "done"
        /\ UNCHANGED <<editGiven, othersFiles, retrieved, editTodo, toDeploy, keptNames, shownModels,
                       adminChanges>>

\* A mutant: one model is enough.
ShowsEither(e) ==
  LET models == IF e \in shownModels THEN orgFiles[e] ELSE othersFiles[e]
  IN  editOption.int = models.int \/ editOption.ext = models.ext
\* The org shows the models that were given; those that follow are not looked at.
Shows(e) ==
  LET models == IF e \in shownModels THEN orgFiles[e] ELSE othersFiles[e]
  IN  editOption.int \in {"-", models.int} /\ editOption.ext \in {"-", models.ext}

\* The wait ends when every entity shows its models, or after a time.
_poll_action ==
  /\ editPc = "poll"
  /\ \/ EditFails
     \/ /\ \A e \in editNames : Shows(e)
        /\ editPc' = "done"
        /\ UNCHANGED <<editGiven, orgFiles, othersFiles, retrieved, editTodo, toDeploy, keptNames,
                       shownModels, adminChanges>>

\* The org has computed the sharing of an entity.
OrgShares(e) ==
  /\ editPc = "poll" /\ e \in DOMAIN toDeploy \ shownModels /\ shownModels' = shownModels \cup {e}
  /\ UNCHANGED <<editPc, editGiven, orgFiles, othersFiles, retrieved, editTodo, toDeploy, keptNames,
                 adminChanges>>

\* Somebody adds to a list of actions or to a layout.
AdminChanges(e) ==
  /\ adminChanges < MaxAdminChanges /\ adminChanges' = adminChanges + 1
  /\ editPc \in {"transform", "deploy"} /\ e \in DOMAIN orgFiles
  /\ LET file == IF editKind = "action" THEN Append(orgFiles[e], "z") ELSE [orgFiles[e] EXCEPT ![1][1] = Append(@, "z")]
     IN  /\ editKind = "layout" \/ (editKind = "action" /\ orgFiles[e] # NoActions)
         /\ orgFiles' = [orgFiles EXCEPT ![e] = file] /\ othersFiles' = [othersFiles EXCEPT ![e] = file]
  /\ UNCHANGED <<editPc, editGiven, retrieved, editTodo, toDeploy, keptNames, shownModels>>

EditNext ==
  \/ _retrieve \/ _deploy \/ _poll_action
  \/ \E e \in Entity : _transform(e) \/ OrgShares(e) \/ AdminChanges(e)

EditSpec == EditInit /\ [][EditNext]_editVars

-----------------------------------------------------------------------------
(* Properties.                                                                 *)

\* What was there is there in its order, whatever came between.
Keeps(before, after) == SelectSeq(after, LAMBDA x : x \in ToSet(before)) = before
KeyOrder(list) == [i \in DOMAIN list |-> list[i].key]
Lists == {"related", "access", "child", "settings", "values", "override", "help", "fieldSet"}
AskedOf(option, kind) == IF kind = "help" THEN option.entries ELSE option
\* What the last option of its key says.
LastAsked(asked) == {asked[i] : i \in {j \in DOMAIN asked : \A k \in j+1..Len(asked) : asked[k].key # asked[j].key}}

\* A picklist has what it had, in its order, and every entry, each before the one it names;
\* one that is asked for as default is the only one, and else the default stays.
PicklistAsAsked(before, after, option) ==
  LET names == {option.entries[i].name : i \in DOMAIN option.entries}
      at(x) == IndexOf(after.values, x)
      default == {option.entries[i].name : i \in {j \in DOMAIN option.entries : option.entries[j].default}}
  IN  /\ Keeps(KeyOrder(before.values), KeyOrder(after.values))
      /\ Keys(after.values) = Keys(before.values) \cup names /\ Len(after.values) = Cardinality(Keys(after.values))
      /\ \A i \in DOMAIN option.entries :
           LET e == option.entries[i]
               again == \E j \in 1..i-1 : option.entries[j].name = e.name
           IN  e.name \notin Keys(before.values) /\ e.before \in Keys(before.values) /\ ~again =>
                 at(e.name) < at(e.before)
      /\ {x.key : x \in {y \in ToSet(after.values) : y.value = "true"}}
           = IF default = {} THEN {x.key : x \in {y \in ToSet(before.values) : y.value = "true"}} ELSE default
      /\ \A r \in DOMAIN after.types :
           IF r \in option.record_types \/ "*" \in option.record_types
           THEN names \subseteq Keys(after.types[r]) ELSE after.types[r] = before.types[r]

\* A layout keeps its fields where they were, gets those that no layout had so far, once, and
\* beside the field that the first position names, if it was there.
LayoutAsAsked(before, after, option) ==
  LET columns(f) == UNION {ToSet(section) : section \in ToSet(f)}
      added == Fields(after) \ Fields(before)
  IN  /\ \A s \in DOMAIN before : \A c \in DOMAIN before[s] : Keeps(before[s][c], after[s][c])
      /\ \A x \in added : Cardinality({p \in (1..2) \X (1..2) \X (1..4) :
           /\ p[1] \in DOMAIN after /\ p[2] \in DOMAIN after[p[1]] /\ p[3] \in DOMAIN after[p[1]][p[2]]
           /\ after[p[1]][p[2]][p[3]] = x}) = 1
      /\ \A i \in DOMAIN option :
           LET o == option[i]
           IN  /\ o.name \in Fields(after) \/ o.name \in keptNames
               /\ o.name \in added /\ o.position # <<>> /\ o.position[1].field \in Fields(before) =>
                    \E column \in columns(after) : o.name \in ToSet(column) /\ o.position[1].field \in ToSet(column)

ModelsAsAsked(before, after, option) ==
  /\ after.ext = (IF option.ext # "-" THEN option.ext ELSE after.ext)
  /\ after.int = (IF option.int # "-" THEN option.int ELSE after.int)
  /\ option.ext = "-" \/ option.int = "-" =>
       after.ext = "-" \/ (after.ext = "Parent") = (after.int = "Parent")

\* A list of elements has, for every key asked for, the last value that was asked; where one
\* that is there is left, the value that was there, or the first that was asked.
ListAsAsked(kind, before, after, option) ==
  LET asked == AskedOf(option, kind)
      first(list, key) == list[IndexOf(list, key)].value
      values(list, key) == {y.value : y \in {z \in ToSet(list) : z.key = key}}
  IN  \A x \in LastAsked(asked) :
        CASE kind = "values" ->
               values(after, x.key) = IF x.key \in Keys(before) THEN values(before, x.key) ELSE {first(asked, x.key)}
          [] kind = "help" /\ ~option.overwrite ->
               first(after, x.key) = IF first(before, x.key) \in {"-", ""} THEN first(asked, x.key) ELSE first(before, x.key)
          [] kind = "access" -> values(after, x.key) = {x.value}
          [] OTHER -> x \in ToSet(after)

\* Every file that is deployed is the one retrieved with what the options ask for.
EditedAsAsked ==
  \A e \in DOMAIN toDeploy :
     LET before == retrieved[e]
         after == toDeploy[e]
     IN  CASE editKind = "picklist" -> PicklistAsAsked(before, after, editOption)
           [] editKind = "layout" -> LayoutAsAsked(before, after, editOption)
           [] editKind = "action" ->
                /\ Keeps(before, SelectSeq(after, LAMBDA x : x # editOption.name)) \/ before = NoActions
                /\ after[IF editOption.first THEN 1 ELSE Len(after)] = editOption.name
           [] editKind = "sharing" -> ModelsAsAsked(before, after, editOption)
           [] editKind = "ranges" ->
                /\ ToSet(editOption.entries) \subseteq ToSet(after)
                /\ (ToSet(before) \subseteq ToSet(after)) = (~editOption.replace \/ before = <<>>)
           [] editKind = "override" /\ e = "Q" -> after = before
           [] OTHER -> ListAsAsked(editKind, before, after, editOption)

\* Elements of no key that is asked for are written back as they were.
RestIsKept ==
  editKind \in Lists =>
    \A e \in DOMAIN toDeploy :
       LET asked == {x.key : x \in ToSet(AskedOf(editOption, editKind))}
           rest(list) == SelectSeq(list, LAMBDA x : x.key \notin asked)
       IN  rest(toDeploy[e]) = IF editKind \in {"help", "settings"} THEN _remove_duplicate_elements(rest(retrieved[e]))
                               ELSE rest(retrieved[e])

\* Files go to the org together, after the last was edited; a task that fails before has
\* changed nothing, and none is changed that was not named.
AllOrNothing ==
  /\ editPc \in {"retrieve", "transform", "deploy"} => orgFiles = othersFiles
  /\ orgFiles # othersFiles =>
       \A e \in DOMAIN orgFiles : orgFiles[e] = IF e \in DOMAIN toDeploy THEN toDeploy[e] ELSE othersFiles[e]
  /\ editPc = "done" => DOMAIN toDeploy \subseteq DOMAIN retrieved /\ editTodo = {}
  /\ editPc = "done" /\ editKind \notin {"action", "related"} => editNames \ {"*"} \subseteq DOMAIN toDeploy

\* A task that waited for sharing is done when what it was given shows.
DoneIsShown ==
  editPc = "done" /\ editKind = "sharing" =>
    \A e \in DOMAIN toDeploy :
       LET shown == IF e \in shownModels THEN orgFiles[e] ELSE othersFiles[e]
       IN  editOption.int \in {"-", shown.int} /\ editOption.ext \in {"-", shown.ext}

EditsAreSound == EditTypeOK /\ EditedAsAsked /\ RestIsKept /\ AllOrNothing /\ DoneIsShown

\* The doc of add_page_layout_fields (layouts.py:137): "Inserts the listed fields or Visualforce
\* pages into page layouts". A field that one layout had is not inserted into the next.
EveryLayoutHasTheFields ==
  editPc = "done" /\ editKind = "layout" =>
    \A e \in DOMAIN toDeploy : {editOption[i].name : i \in DOMAIN editOption} \subseteq Fields(toDeploy[e])

\* The option record_types (picklists.py:28): entries with `default: True' "are also made
\* default for these Record Types". So is every other.
RecordTypeDefaultAsAsked ==
  \A e \in DOMAIN toDeploy :
     editKind = "picklist" /\ (\A i \in DOMAIN editOption.entries : ~editOption.entries[i].default) =>
       \A r \in DOMAIN toDeploy[e].types : \A x \in ToSet(toDeploy[e].types[r]) :
          x.value = "true" => x \in ToSet(retrieved[e].types[r])

\* Overrides are in every application named (applications.py:50). In one whose name is quoted
\* they are not: the quoted name is compared with the other.
OverridesAreThere ==
  editPc = "done" /\ editKind = "override" =>
    \A e \in DOMAIN toDeploy : LastAsked(editOption) \subseteq ToSet(toDeploy[e])

\* What somebody added meanwhile is there afterwards.
ChangesStay ==
  editPc = "done" /\ adminChanges > 0 => orgFiles = othersFiles \/ \A e \in DOMAIN orgFiles :
     e \in DOMAIN toDeploy => othersFiles[e] = retrieved[e]
=============================================================================
