--------------------------- MODULE DataDictionary ---------------------------
(***************************************************************************)
(* The data dictionary of a project (cumulusci/tasks/datadictionary.py):   *)
(* the releases of its repository and of those it depends on are read one  *)
(* by one, in the order they are listed, and for every object and field a  *)
(* row tells with which release it came, changed and went.                 *)
(*                                                                         *)
(* A release is what its zip file holds of objects.  The name of an object *)
(* is <<namespace, name>>, with "" for no namespace.  Versions are numbers. *)
(* Labels, descriptions and types are left out: they are the latest ones.  *)
(***************************************************************************)
EXTENDS Integers, Sequences, SequencesExt, FiniteSets, FiniteSetsExt, TLC

CONSTANTS
  DictPackages,  \* the namespaces of the project and of what it depends on, the project's first
  Histories,     \* the releases their repositories may have, as these list them
  Branches       \* what the current branch may hold

\* Kinds of objects, by the end of their names: __c, __mdt and __e; none; any other.
CustomObjects == {"O", "X"}
StandardObjects == {"Account"}
OtherObjects == {"View"}
ObjectNameOf == ({""} \cup ToSet(DictPackages)) \X (CustomObjects \cup StandardObjects \cup OtherObjects)

\* What a zip file has of an object: what its file says of its visibility ("absent" if that says
\* nothing, or in source format if there is none), whether that is in another directory than its
\* fields, and these.
ObjectFiles ==
  [meta : {"absent", "public", "protected"}, apart : BOOLEAN,
   fields : SUBSET [name : STRING, values : Nat, help : Nat]]
IsZip(p, z) ==
  /\ z.format \in {"mdapi", "sfdx", "neither"} /\ DOMAIN z.files \subseteq ObjectNameOf
  /\ \A o \in DOMAIN z.files : <<"", o[2]>> \notin DOMAIN z.files \/ o[1] # p
  /\ \A o \in DOMAIN z.files : z.files[o] \in ObjectFiles

PRERELEASE_SIGIL == 100000001

\* A project without a namespace is refused, and packages without one could share objects.
ASSUME DictionaryAssumption ==
  /\ DictPackages # <<>> /\ IsInjective(DictPackages) /\ "" \notin ToSet(DictPackages)
  /\ \A b \in Branches : IsZip(Head(DictPackages), b)
  /\ \A h \in Histories : DOMAIN h = ToSet(DictPackages) /\ \A p \in DOMAIN h :
       /\ \A i \in DOMAIN h[p] :
            h[p][i].version \in 0..(PRERELEASE_SIGIL - 1) /\ h[p][i].draft \in BOOLEAN /\ IsZip(p, h[p][i].zip)
       /\ \A i, j \in DOMAIN h[p] : h[p][i].version = h[p][j].version => i = j

VARIABLES
  dictPc,
  dictOptions,       \* include_prerelease, include_dependencies, include_protected_schema
  releases,          \* external: the releases of each package, as listed
  repo_branch,       \* external: the current branch
  repos,             \* the packages to walk, in order
  walkAt,            \* the package and the release at hand
  sobjects,          \* self.sobjects: an element for every version of every object
  fields,            \* self.fields: the same of fields
  package_versions,
  omit_sobjects

dictGiven == <<dictOptions, releases, repo_branch, repos>>
dictSchema == <<sobjects, fields, package_versions, omit_sobjects>>
dictVars == <<dictPc, dictGiven, walkAt, dictSchema>>

DictTypeOK ==
  /\ dictPc \in {"idle", "walk", "done", "failed"}
  /\ dictOptions \in [prerelease : BOOLEAN, dependencies : BOOLEAN, protected : BOOLEAN]
  /\ walkAt[1] \in 1..(Len(repos) + 1) /\ walkAt[2] \in Nat
  /\ \A s \in sobjects : s.object \in ObjectNameOf /\ s.version \in package_versions[s.package]
  /\ \A f \in fields : f.object \in ObjectNameOf /\ f.version \in package_versions[f.package]
  /\ omit_sobjects \subseteq ObjectNameOf

\* _init_schema
_init_schema ==
  /\ sobjects = {} /\ fields = {} /\ omit_sobjects = {}
  /\ package_versions = [p \in ToSet(DictPackages) |-> {}]

DictInit ==
  /\ dictPc = "idle" /\ dictOptions = [prerelease |-> FALSE, dependencies |-> FALSE, protected |-> FALSE]
  /\ releases = [p \in ToSet(DictPackages) |-> <<>>]
  /\ repo_branch = [format |-> "neither", files |-> <<>>] /\ repos = <<>> /\ walkAt = <<1, 1>>
  /\ _init_schema

\* A prerelease is of the project alone.
_init_options ==
  {o \in [prerelease : BOOLEAN, dependencies : BOOLEAN, protected : BOOLEAN] :
     o.prerelease => ~o.dependencies}

\* The dependencies come as a set.
_get_repo_dependencies == SetToSeqs(ToSet(Tail(DictPackages)))

_run_task ==
  /\ dictPc = "idle" /\ dictPc' = "walk"
  /\ dictOptions' \in _init_options /\ releases' \in Histories /\ repo_branch' \in Branches
  /\ \E others \in _get_repo_dependencies :
       repos' = <<Head(DictPackages)>> \o (IF dictOptions'.dependencies THEN others ELSE <<>>)
  /\ UNCHANGED <<walkAt, dictSchema>>

-----------------------------------------------------------------------------
(* What a release says of objects and fields.                              *)

\* A custom object without a namespace is one of the package.
Qualified(p, o) == IF o[1] = "" /\ o[2] \notin StandardObjects THEN <<p, o[2]>> ELSE o

_is_protected_object(file) == file.meta = "protected"

_should_process_object_fields(o, file) ==
  o[2] \notin OtherObjects /\ (~_is_protected_object(file) \/ dictOptions.protected)

\* Mutant: a package is taken to own whatever object it has fields on.
_should_process_object_of_others(p, o, file) == _should_process_object_fields(o, file)

_should_process_object(p, o, file) == o[1] = p /\ _should_process_object_fields(o, file)

\* The objects of a zip file, by their full names.
ObjectsIn(p, zip) == {Qualified(p, n) : n \in DOMAIN zip.files}
FileOf(p, zip, o) == zip.files[CHOOSE n \in DOMAIN zip.files : Qualified(p, n) = o]

\* What one object's file, in either format, and those of its fields add.
_process_object_element(p, v, objects) == {[object |-> o, package |-> p, version |-> v] : o \in objects}

\* Fields that come with Salesforce have no "__" in their names.
_process_field_element(p, v, o, file) ==
  {[object |-> o, name |-> <<p, f.name>>, package |-> p, version |-> v, values |-> f.values, help |-> f.help] :
     f \in {x \in file.fields : x.name # "Name"}}

FieldsOf(p, v, zip, objects) ==
  UNION {_process_field_element(p, v, o, FileOf(p, zip, o)) : o \in objects}

_process_mdapi_release(p, v, zip) ==
  LET all == ObjectsIn(p, zip)
      tracked == {o \in all : _should_process_object_fields(o, FileOf(p, zip, o))}
  IN  /\ sobjects' = sobjects \cup
           _process_object_element(p, v, {o \in all : _should_process_object(p, o, FileOf(p, zip, o))})
      /\ fields' = fields \cup FieldsOf(p, v, zip, tracked)
      /\ omit_sobjects' = omit_sobjects \cup (all \ tracked)

\* The file of an object is consulted for its fields if it is in their directory.
_process_sfdx_release(p, v, zip) ==
  LET all == ObjectsIn(p, zip)
      file(o) == FileOf(p, zip, o)
      found == {o \in all : file(o).meta # "absent"}
      seen(o) == IF file(o).apart THEN [file(o) EXCEPT !.meta = "absent"] ELSE file(o)
  IN  /\ sobjects' = sobjects \cup
           _process_object_element(p, v, {o \in found : _should_process_object(p, o, file(o))})
      /\ fields' = fields \cup FieldsOf(p, v, zip, {o \in all : _should_process_object_fields(o, seen(o))})
      /\ omit_sobjects' = omit_sobjects \cup {o \in found : ~_should_process_object_fields(o, file(o))}

_process_zipfile(p, v, zip) ==
  /\ package_versions' = [package_versions EXCEPT ![p] = @ \cup {v}]
  /\ \/ zip.format = "mdapi" /\ _process_mdapi_release(p, v, zip)
     \/ zip.format = "sfdx" /\ _process_sfdx_release(p, v, zip)
     \/ zip.format = "neither" /\ UNCHANGED <<sobjects, fields, omit_sobjects>>

-----------------------------------------------------------------------------
(* The walk.                                                               *)

\* Drafts and betas are passed over, and tags that do not tell a version (0).
Passed(r) == r.draft \/ r.version = 0

_walk_releases ==
  /\ dictPc = "walk" /\ walkAt[1] \in DOMAIN repos
  /\ LET p == repos[walkAt[1]]
         listed == releases[p]
     IN  \/ /\ walkAt[2] \in DOMAIN listed /\ walkAt' = <<walkAt[1], walkAt[2] + 1>>
            /\ LET r == listed[walkAt[2]]
               IN  IF Passed(r) THEN UNCHANGED dictSchema ELSE _process_zipfile(p, r.version, r.zip)
         \/ /\ walkAt[2] \notin DOMAIN listed /\ walkAt' = <<walkAt[1] + 1, 1>>
            /\ IF dictOptions.prerelease THEN _process_zipfile(p, PRERELEASE_SIGIL, repo_branch)
               ELSE UNCHANGED dictSchema
  /\ UNCHANGED <<dictPc, dictGiven>>

\* A release that cannot be downloaded ends the task before anything is written.
DownloadFails ==
  /\ dictPc = "walk" /\ walkAt[1] \in DOMAIN repos /\ dictPc' = "failed"
  /\ UNCHANGED <<dictGiven, walkAt, dictSchema>>

_write_results ==
  /\ dictPc = "walk" /\ walkAt[1] \notin DOMAIN repos /\ dictPc' = "done"
  /\ UNCHANGED <<dictGiven, walkAt, dictSchema>>

DictNext == _run_task \/ _walk_releases \/ DownloadFails \/ _write_results

-----------------------------------------------------------------------------
(* The rows.                                                               *)

Versions(details) == {d.version : d \in details}

\* The release after the last one, 0 for none.
DeletedAfter(p, last) ==
  LET later == {v \in package_versions[p] : v > last} IN IF later = {} THEN 0 ELSE Min(later)

_write_object_results ==
  {LET versions == Versions({d \in sobjects : d.object = s.object})
   IN  [object |-> s.object, package |-> s.package, introduced |-> Min(versions),
        deleted |-> DeletedAfter(s.package, Max(versions))] : s \in sobjects}

\* The first version after the latest one that differs from the last, 0 for none.
Changed(details, what) ==
  LET last == CHOOSE d \in details : d.version = Max(Versions(details))
      other == {d \in details : d[what] # last[what]}
  IN  IF other = {} THEN 0
      ELSE Min({v \in Versions(details) : v > Max(Versions(other))})

_write_field_results ==
  {LET details == {d \in fields : d.object = f.object /\ d.name = f.name}
   IN  [object |-> f.object, name |-> f.name, package |-> f.package,
        introduced |-> Min(Versions(details)),
        valuesChanged |-> Changed(details, "values"),
        helpChanged |-> Changed(details, "help"),
        deleted |-> DeletedAfter(f.package, Max(Versions(details)))] :
     f \in {d \in fields : d.object \notin omit_sobjects}}

_get_version_name(v) == IF v = PRERELEASE_SIGIL THEN "Prerelease" ELSE ToString(v)

-----------------------------------------------------------------------------
(* Properties.                                                             *)

\* What a package has published, and the branch where it counts.
Published(p) ==
  {[version |-> r.version, zip |-> r.zip] : r \in {x \in ToSet(releases[p]) : ~Passed(x)}} \cup
    (IF dictOptions.prerelease THEN {[version |-> PRERELEASE_SIGIL, zip |-> repo_branch]} ELSE {})

\* A release that has an object, and may show it.
Shows(p, r, o) ==
  /\ r.zip.format # "neither" /\ o \in ObjectsIn(p, r.zip) /\ o[1] = p /\ o[2] \notin OtherObjects
  /\ LET file == FileOf(p, r.zip, o)
     IN  /\ file.meta = "absent" => r.zip.format = "mdapi"
         /\ file.meta = "protected" => dictOptions.protected

\* A row dates what `shows' says of the releases of a package.
Dates(row, shows(_)) ==
  LET all == Published(row.package)
  IN  /\ \A r \in all : shows(r) => row.introduced <= r.version /\ (row.deleted = 0 \/ r.version < row.deleted)
      /\ \E r \in all : r.version = row.introduced /\ shows(r)
      /\ row.deleted # 0 =>
           \E r, s \in all : /\ r.version = row.deleted /\ shows(s) /\ s.version < r.version
                             /\ ~ \E t \in all : s.version < t.version /\ t.version < r.version
      /\ row.deleted = 0 => \E r \in all : shows(r) /\ \A s \in all : s.version <= r.version

\* In whatever order the releases are listed, and whatever their formats, an object that some
\* release shows has one row, of the package that owns it, between the first release that shows
\* it and the first one after the last; and an object that none shows has no row.
ObjectsAreDated ==
  dictPc = "done" =>
    /\ \A row \in _write_object_results : Dates(row, LAMBDA r : Shows(row.package, r, row.object))
    /\ \A o \in ObjectNameOf :
         LET rows == {row \in _write_object_results : row.object = o}
         IN  IF \E p \in ToSet(repos) : \E r \in Published(p) : Shows(p, r, o)
             THEN Cardinality(rows) = 1 ELSE rows = {}

\* The field of that name in a release, as a set.
FieldIn(p, r, o, name) ==
  IF r.zip.format = "neither" \/ o \notin ObjectsIn(p, r.zip) THEN {}
  ELSE {f \in FileOf(p, r.zip, o).fields : <<p, f.name>> = name}

\* A row of a field dates it in the same way, and what it says was last changed is since then
\* what it is now, and was something else before.
FieldsAreDated ==
  dictPc = "done" => \A row \in _write_field_results :
    LET has(r) == FieldIn(row.package, r, row.object, row.name)
        with == {r \in Published(row.package) : has(r) # {}}
        since(v, of(_)) ==
          LET upTo(r) == {s \in with : s.version >= r.version}
              same(S) == Cardinality({of(CHOOSE f \in has(s) : TRUE) : s \in S}) = 1
          IN  IF v = 0 THEN same(with)
              ELSE \E r, s \in with : /\ r.version = v /\ same(upTo(r)) /\ s.version < v /\ ~same(upTo(s))
                                      /\ ~ \E t \in with : s.version < t.version /\ t.version < v
    IN  /\ Dates(row, LAMBDA r : has(r) # {})
        /\ since(row.valuesChanged, LAMBDA f : f.values) /\ since(row.helpChanged, LAMBDA f : f.help)

\* No row is of a field whose object any release has as protected, in whichever of the packages
\* it is, and whether the field was read before or after it.
ProtectedStaysHidden ==
  dictPc = "done" /\ ~dictOptions.protected =>
    \A row \in _write_field_results, p \in ToSet(repos) : \A r \in Published(p) :
      r.zip.format # "neither" /\ row.object \in ObjectsIn(p, r.zip) =>
        ~_is_protected_object(FileOf(p, r.zip, row.object))

DictionaryIsSound == DictTypeOK /\ ObjectsAreDated /\ FieldsAreDated /\ ProtectedStaysHidden

-----------------------------------------------------------------------------
(* What is said of the dictionary and does not hold.                       *)

\* "We will not track any object's fields that are protected in this package version"
\* (datadictionary.py:367-368): one protected version hides the fields of all the others.
PublicFieldsAreTold ==
  dictPc = "done" => \A f \in fields :
    (\A g \in fields : g.object = f.object /\ g.name = f.name => g.version <= f.version)
      => \E row \in _write_field_results : row.object = f.object /\ row.name = f.name

\* "include unreleased schema in the data dictionary ..., with the version listed as
\* 'Prerelease'" (docs/history.md:2414-2417): not where it tells what is gone by then.
DeletedIsNamed ==
  dictPc = "done" => \A row \in _write_object_results :
    row.deleted # 0 => ToString(row.deleted) = _get_version_name(row.deleted)
=============================================================================
