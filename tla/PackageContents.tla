---------------------------- MODULE PackageContents ----------------------------
(* What package.xml says a directory holds, and what a deployment of it sends to *)
(* an org and a later deletion takes away: the listing, the removal of what is    *)
(* not wanted, the transforms of the zip one after the other, and the deletions,  *)
(* while names have tokens for a namespace that is or is not put in.              *)
EXTENDS Integers, Sequences, FiniteSets, SequencesExt, Functions

CONSTANTS
  Groups,          \* groups of files: a directory has one of each, or none
  MaxGroups,       \* bound: groups in a directory
  Hows,            \* the ways to deploy
  MaxSourceChanges \* bound: times a file is removed from the sources

ASSUME ContentsAssumption == MaxGroups \in Nat /\ MaxSourceChanges \in Nat

VARIABLES
  contentPc,
  how,           \* options of the deployment
  sources,       \* the files of the directory
  unstripped,         \* history: the files before any were stripped
  wanted,        \* the package.xml to strip by
  stripping,     \* who strips: "none", the "task" or the "transform"
  packageXml,    \* package.xml of the directory
  zip,           \* the files of the package and its package.xml
  transforms,    \* those still to apply
  orgComponents, \* external: what the org has of this project
  sourceChanges

contentVars == <<contentPc, how, sources, unstripped, wanted, stripping, packageXml, zip, transforms,
                 orgComponents, sourceChanges>>

\* Names are sequences of words and tokens.  N, O, S and M are ___NAMESPACE___,
\* ___NAMESPACED_ORG___, ___SUBSCRIBER_NAMESPACE___ and ___MANAGED_OR_NAMESPACED_ORG___, as in
\* names of files; in their contents they are n, o, s and m, between %%%.
FileToken == {"N", "O", "S", "M"}
ContentToken == {"n", "o", "s", "m"}
Tokens == FileToken \cup ContentToken

File(dir, name, sub, inner) == [dir |-> dir, name |-> name, sub |-> sub, inner |-> inner]
Component(type, name) == [type |-> type, name |-> name]
NoFile == File("", <<>>, "", {})
Meta == "-meta.xml"

\* Objects that come with the org; CodeSet is not on the list of those never to delete.
StandardObject == {<<"Account">>, <<"CodeSet">>}
delete_excludes == {<<"Account">>}

HasTokens(name) == \E i \in DOMAIN name : name[i] \in Tokens
\* More than two parts between "__".
IsNamespaced(name) == name[1] \in FileToken \cup {"ns"}

-----------------------------------------------------------------------------
(* PackageXmlGenerator: what a directory holds.                                *)

\* A folder is listed with its own description only; whoever has that has the folder.
Members(f) ==
  CASE f.dir = "classes"           -> {Component("ApexClass", f.name)}
    [] f.dir = "staticresources"   -> {Component("StaticResource", f.name)}
    [] f.dir = "featureParameters" -> {Component("FeatureParameterInteger", f.name)}
    [] f.dir = "lwc"               -> IF f.name[1] = "__mocks__" THEN {}
                                      ELSE {Component("LightningComponentBundle", f.name)}
    [] f.dir = "reports"           -> {Component("Report", IF f.sub = Meta THEN f.name ELSE f.name \o <<"/", f.sub>>)}
    [] f.dir = "objects"           -> {Component(c.type, f.name \o <<".">> \o c.name) : c \in f.inner}
                                      \cup (IF IsNamespaced(f.name) THEN {}
                                            ELSE {Component("CustomObject", f.name)})
    [] OTHER                       -> {}

\* The namespace in names of files is written as in contents, that of the others is not.
InContent(c) == [c EXCEPT !.name = [i \in DOMAIN @ |-> IF @[i] = "N" THEN "n" ELSE @[i]]]
ExcludedFromDelete(c) == c.type = "RecordType" \/ (c.type = "CustomObject" /\ c.name \in delete_excludes)

\* A mutant: what belongs to those objects is never deleted either.
PackageXmlGeneratorSparingFields(files, delete) ==
  {InContent(c) : c \in {c \in UNION {Members(f) : f \in files} :
     delete => ~ExcludedFromDelete(c) /\ <<c.name[1]>> \notin delete_excludes}}
PackageXmlGenerator(files, delete) ==
  {InContent(c) : c \in {c \in UNION {Members(f) : f \in files} : delete => ~ExcludedFromDelete(c)}}

-----------------------------------------------------------------------------
(* RemoveSourceComponents: only what the other package.xml names is kept,       *)
(* compared as the files are named.                                             *)

\* A mutant: what belongs to an object stays with it.
KeptWithParts(f, all, list) ==
  IF f.dir = "objects" /\ ~IsNamespaced(f.name) /\ Component("CustomObject", f.name) \in list THEN f
  ELSE IF Members(f) \subseteq list THEN f ELSE NoFile
Kept(f, all, list) ==
  CASE f.dir = "objects" ->
         IF ~IsNamespaced(f.name) /\ Component("CustomObject", f.name) \notin list THEN NoFile
         ELSE [f EXCEPT !.inner = {c \in @ : Component(c.type, f.name \o <<".">> \o c.name) \in list}]
    [] f.dir = "reports" ->
         LET gone == [f EXCEPT !.sub = Meta] \in all /\ Component("Report", f.name) \notin list
         IN  IF gone \/ (f.sub # Meta /\ Component("Report", f.name \o <<"/", f.sub>>) \notin list)
             THEN NoFile ELSE f
    [] f.dir = "lwc" -> IF Component("LightningComponentBundle", f.name) \in list THEN f ELSE NoFile
    [] OTHER -> IF Members(f) \subseteq list THEN f ELSE NoFile
RemoveSourceComponents(files, list) == {Kept(f, files, list) : f \in files} \ {NoFile}

-----------------------------------------------------------------------------
(* The zip and its transforms.                                                 *)

Included(f) == f.dir = "lwc" => f.name[1] # "__mocks__" /\ f.sub \notin {"__tests__", "README.md"}

HasPrefix(token) ==
  CASE token \in {"N", "n"} -> how.managed
    [] token \in {"O", "o"} -> how.namespaced_org
    [] token \in {"S", "s"} -> how.managed /\ ~how.namespaced_org
    [] token \in {"M", "m"} -> how.managed \/ how.namespaced_org
    [] OTHER -> FALSE
Replaced(name, tokens) ==
  FlattenSeq([i \in DOMAIN name |->
    IF name[i] \notin tokens THEN <<name[i]>> ELSE IF HasPrefix(name[i]) THEN <<"ns">> ELSE <<>>])

InjectFile(f) ==
  [f EXCEPT !.name = Replaced(@, FileToken),
            !.inner = {[c EXCEPT !.name = Replaced(@, ContentToken)] : c \in @}]

\* In package.xml alone the tokens of names of files are replaced too.
\* A mutant: not that of ___SUBSCRIBER_NAMESPACE___.
InjectPackageXmlNoSubscriber(list) == {[c EXCEPT !.name = Replaced(@, Tokens \ {"S"})] : c \in list}
InjectPackageXml(list) == {[c EXCEPT !.name = Replaced(@, Tokens)] : c \in list}

inject_namespace(z) ==
  IF ~how.namespace THEN z
  ELSE [z EXCEPT !.files = {InjectFile(f) : f \in @}, !.package = InjectPackageXml(@)]

StripUnwantedComponents(z) == [z EXCEPT !.files = RemoveSourceComponents(@, wanted), !.package = wanted]

StaticResource == <<"bundle">>
BundleStaticResources(z) ==
  [z EXCEPT !.files = @ \cup {File("staticresources", StaticResource, "", {})},
            !.package = @ \cup {Component("StaticResource", StaticResource)}]

RemoveFeatureParameters(z) ==
  [z EXCEPT !.files = {f \in @ : f.dir # "featureParameters"},
            !.package = {c \in @ : c.type # "FeatureParameterInteger"}]

\* The user's transforms first, then those of the builder.
Transforms ==
  (IF stripping = "transform" THEN <<"strip">> ELSE <<>>) \o <<"inject">>
    \o (IF how.static_resources # "none" THEN <<"bundle">> ELSE <<>>)
    \o (IF how.package_type = "Unlocked" THEN <<"features">> ELSE <<>>)

-----------------------------------------------------------------------------

Directories ==
  UNION {{UNION {pick[g] : g \in S} : pick \in {p \in [S -> UNION S] : \A g \in S : p[g] \in g}} :
         S \in {S \in SUBSET Groups : Cardinality(S) \in 1..MaxGroups}}

ContentsTypeOK ==
  /\ contentPc \in {"start", "list", "zip", "transform", "deployed", "failed",
                    "local", "bundles", "packaged", "incremental"}
  /\ how \in Hows /\ stripping \in {"none", "task", "transform"}
  /\ NoFile \notin sources \cup zip.files /\ sourceChanges \in 0..MaxSourceChanges

\* The package.xml to strip by names some of what is there.
ContentsInit ==
  /\ how \in Hows /\ sources \in Directories /\ unstripped = sources
  /\ LET all == PackageXmlGenerator(sources, FALSE)
     IN  \/ stripping = "none" /\ wanted = {}
         \/ /\ stripping \in {"task", "transform"}
            /\ wanted \in {all \ S : S \in {S \in SUBSET all : Cardinality(S) \in 1..2}}
  /\ contentPc = IF stripping = "task" THEN "start" ELSE "list"
  /\ packageXml = {} /\ zip = [files |-> {}, package |-> {}] /\ transforms = <<>>
  /\ orgComponents = {} /\ sourceChanges = 0

RemoveUnwantedComponents ==
  /\ contentPc = "start" /\ contentPc' = "list"
  /\ sources' = RemoveSourceComponents(sources, wanted)
  /\ UNCHANGED <<how, unstripped, wanted, stripping, packageXml, zip, transforms, orgComponents, sourceChanges>>

UpdatePackageXml ==
  /\ contentPc = "list" /\ contentPc' = "zip"
  /\ packageXml' = PackageXmlGenerator(sources, FALSE)
  /\ UNCHANGED <<how, sources, unstripped, wanted, stripping, zip, transforms, orgComponents, sourceChanges>>

_get_package_zip ==
  /\ contentPc = "zip" /\ contentPc' = "transform"
  /\ zip' = [files |-> {f \in sources : Included(f)}, package |-> packageXml]
  /\ transforms' = Transforms
  /\ UNCHANGED <<how, sources, unstripped, wanted, stripping, packageXml, orgComponents, sourceChanges>>

Transform ==
  /\ contentPc = "transform" /\ transforms # <<>>
  /\ LET fails == Head(transforms) = "bundle" /\ how.static_resources = "without meta"
     IN  /\ contentPc' = IF fails THEN "failed" ELSE "transform"
         /\ zip' = CASE Head(transforms) = "strip"    -> StripUnwantedComponents(zip)
                     [] Head(transforms) = "inject"   -> inject_namespace(zip)
                     [] Head(transforms) = "bundle"   -> IF fails THEN zip ELSE BundleStaticResources(zip)
                     [] Head(transforms) = "features" -> RemoveFeatureParameters(zip)
  /\ transforms' = Tail(transforms)
  /\ UNCHANGED <<how, sources, unstripped, wanted, stripping, packageXml, orgComponents, sourceChanges>>

\* External: what an org finds in the files of a package, and all that it may be asked for.
Holds(files) ==
  UNION {IF f.dir = "objects"
         THEN {Component("CustomObject", f.name)} \cup {Component(c.type, f.name \o <<".">> \o c.name) : c \in f.inner}
         ELSE Members(f) : f \in files}
Deploy ==
  /\ contentPc = "transform" /\ transforms = <<>>
  /\ IF zip.package \subseteq Holds(zip.files)
     THEN contentPc' = "deployed" /\ orgComponents' = orgComponents \cup zip.package
     ELSE contentPc' = "failed" /\ UNCHANGED orgComponents
  /\ UNCHANGED <<how, sources, unstripped, wanted, stripping, packageXml, zip, transforms, sourceChanges>>

\* Somebody removes a file, none of a folder or bundle, and may have package.xml made again.
RemoveSource(f) ==
  /\ contentPc = "deployed" /\ sourceChanges < MaxSourceChanges /\ f.dir \notin {"reports", "lwc"}
  /\ sources' = sources \ {f} /\ unstripped' = sources'
  /\ contentPc' \in {"list", "zip"} /\ sourceChanges' = sourceChanges + 1
  /\ UNCHANGED <<how, wanted, stripping, packageXml, zip, transforms, orgComponents>>

\* External: an org deletes all or nothing, with an object what belongs to it, and says nothing
\* of what it does not have.
PartOf(c, o) == o.type = "CustomObject" /\ IsPrefix(o.name \o <<".">>, c.name)
Delete(task, list) ==
  /\ contentPc = "deployed"
  /\ IF \E c \in list : c.type = "CustomObject" /\ c.name \in StandardObject
     THEN contentPc' = "failed" /\ UNCHANGED orgComponents
     ELSE /\ contentPc' = task
          /\ orgComponents' = {c \in orgComponents \ list : \A o \in list : ~PartOf(c, o)}
  /\ UNCHANGED <<how, sources, unstripped, wanted, stripping, packageXml, zip, transforms, sourceChanges>>

UninstallLocal == Delete("local", PackageXmlGenerator(sources, TRUE))
\* The token of names of files is replaced in the list, which has it no more.
UninstallLocalNamespacedBundles ==
  Delete("bundles", {[c EXCEPT !.name = Replaced(@, {"N"})] : c \in PackageXmlGenerator(sources, TRUE)})
UninstallPackaged == Delete("packaged", {c \in orgComponents : ~ExcludedFromDelete(c)})
\* A mutant: of types the sources have nothing of, nothing is deleted.
_package_xml_diffKnownTypes ==
  {c \in orgComponents \ packageXml : c.type # "RecordType" /\ \E d \in packageXml : d.type = c.type}
_package_xml_diff == {c \in orgComponents \ packageXml : c.type # "RecordType"}
UninstallPackagedIncremental == Delete("incremental", _package_xml_diff)

ContentsNext ==
  \/ RemoveUnwantedComponents \/ UpdatePackageXml \/ _get_package_zip \/ Transform \/ Deploy
  \/ \E f \in sources : RemoveSource(f)
  \/ UninstallLocal \/ UninstallLocalNamespacedBundles \/ UninstallPackaged \/ UninstallPackagedIncremental

ContentsSpec == ContentsInit /\ [][ContentsNext]_contentVars

-----------------------------------------------------------------------------

ToSend == contentPc = "transform" /\ transforms = <<>>
Listed(files) == PackageXmlGenerator(files, FALSE)
NoTokens == \A f \in unstripped : ~HasTokens(f.name) /\ \A c \in f.inner : ~HasTokens(c.name)

\* A list made of the files as they are names, after all transforms, what the package holds
\* and nothing else, but for the objects that were others' when it was made.
ListMatchesFiles ==
  ToSend /\ stripping # "transform" /\ packageXml = Listed(sources) /\ (how.namespace \/ NoTokens) =>
    /\ zip.package \subseteq Holds(zip.files)
    /\ \A c \in Holds(zip.files) \ zip.package :
         c.type = "CustomObject" /\ \E f \in sources : IsNamespaced(f.name) /\ c.name = Replaced(f.name, FileToken)

\* No token is sent to an org when there is a namespace to put in or to leave out.
NoTokenIsSent ==
  ToSend /\ how.namespace =>
    /\ \A c \in zip.package : ~HasTokens(c.name)
    /\ \A f \in zip.files : ~HasTokens(f.name) /\ \A c \in f.inner : ~HasTokens(c.name)

\* Stripping leaves what is wanted and no more, if its object, or folder, is wanted too.
WithWhole(c, list) ==
  /\ \A f \in unstripped : f.dir = "objects" /\ IsPrefix(f.name \o <<".">>, c.name) => Component("CustomObject", f.name) \in list
  /\ \A f \in unstripped : f.dir = "reports" /\ IsPrefix(f.name \o <<"/">>, c.name) => Component("Report", f.name) \in list
StrippedAsWanted(files) ==
  /\ \A c \in Listed(files) \cap Listed(unstripped) : c \in wanted
  /\ \A c \in wanted \cap Listed(unstripped) : WithWhole(c, wanted) /\ ~HasTokens(c.name) => c \in Listed(files)
StripKeepsTheWanted ==
  /\ contentPc = "list" /\ stripping = "task" /\ sourceChanges = 0 => StrippedAsWanted(sources)
  /\ contentPc = "transform" /\ stripping = "transform" /\ transforms # Transforms /\ ~how.namespace =>
       StrippedAsWanted(zip.files \ {File("staticresources", StaticResource, "", {})})

\* What is deleted is what the project no longer has, and all of that, where no tokens are used.
IncrementalSparesTheSources ==
  contentPc = "incremental" /\ NoTokens =>
    /\ {c \in orgComponents : c.type # "RecordType"} \subseteq packageXml
    /\ zip.package \cap packageXml \subseteq orgComponents

\* After the sources are uninstalled, nothing of them is left but what is never deleted.
UninstalledIsGone ==
  contentPc \in {"local", "bundles"} /\ NoTokens =>
    \A c \in orgComponents \cap Listed(sources) : ExcludedFromDelete(c)

ContentsAreSound ==
  /\ ContentsTypeOK
  /\ ListMatchesFiles /\ NoTokenIsSent /\ StripKeepsTheWanted /\ IncrementalSparesTheSources
  /\ UninstalledIsGone

-----------------------------------------------------------------------------
(* What is said of these tasks and does not hold.                              *)

\* The components of what is deployed are deleted with the namespace put in
\* (UninstallLocalNamespacedBundles: "If True, will insert the actual namespace prefix").
NamespacedBundlesAreGone ==
  contentPc = "bundles" =>
    \A c \in orgComponents \cap InjectPackageXml(Listed(sources)) : ExcludedFromDelete(c)

\* "Removes components from src folder which are not mentioned": those mentioned stay.
WantedAreKept ==
  contentPc = "list" /\ stripping = "task" /\ sourceChanges = 0 => wanted \subseteq Listed(sources)

\* "Deletes any metadata from the package in the target org not in the local workspace".
IncrementalSparesTokens ==
  contentPc = "incremental" => zip.package \cap InjectPackageXml(packageXml) \subseteq orgComponents

-----------------------------------------------------------------------------
(* The tasks that prepare the sources for a deployment and revert them: the       *)
(* directory is copied aside, files of it are edited in place, and after the      *)
(* deployment a tree is updated from the copy, which is then removed.  A flow may *)
(* stop between any two steps, a person edits files meanwhile, and runs the tasks *)
(* again.                                                                         *)

CONSTANTS
  Paths,          \* files of the directory
  Prepared,       \* what a preparation takes away, by kind and path
  MaxClock,       \* bound: seconds
  MaxPreparations \* bound: runs of a preparing task

\* "edit" is what a person writes: no preparation takes it away.
ASSUME RevertAssumption ==
  /\ MaxClock \in Nat /\ MaxPreparations \in Nat
  /\ \A k \in DOMAIN Prepared : \A f \in Paths : "edit" \notin Prepared[k][f]

VARIABLES
  revertPc,
  preparing,    \* kind of the preparation that ran last
  path, revert_path, \* the directory and its copy: text and time of their files
  copied,       \* the copy exists
  pathsLeft,         \* paths the running task has yet to look at
  clock, preparations,
  reverted,     \* history: a revert has been through the files
  touched       \* history: files a person edited or removed

revertVars == <<revertPc, preparing, path, revert_path, copied, pathsLeft, clock, preparations, reverted, touched>>

Original(f) == UNION {Prepared[k][f] : k \in DOMAIN Prepared}
NoTree == [f \in {} |-> 0]
With(tree, f, file) == [g \in DOMAIN tree \cup {f} |-> IF g = f THEN file ELSE tree[g]]

RevertTypeOK ==
  /\ revertPc \in {"idle", "copying", "editing", "prepared", "updating", "removing"}
  /\ DOMAIN path \subseteq Paths /\ DOMAIN revert_path \subseteq Paths /\ pathsLeft \subseteq Paths
  /\ ~copied => revert_path = NoTree
  /\ clock \in 0..MaxClock /\ preparations \in 0..MaxPreparations

RevertInit ==
  /\ revertPc = "idle" /\ preparing \in DOMAIN Prepared
  /\ path = [f \in Paths |-> [text |-> Original(f), time |-> 0]] /\ revert_path = NoTree /\ copied = FALSE
  /\ pathsLeft = {} /\ clock = 0 /\ preparations = 0 /\ reverted = FALSE /\ touched = {}

\* A mutant: a copy that is there is used again.
PrepareOver(kind) ==
  /\ revertPc = "idle" /\ preparations < MaxPreparations
  /\ revertPc' = "copying" /\ preparing' = kind /\ copied' = TRUE /\ pathsLeft' = DOMAIN path
  /\ preparations' = preparations + 1 /\ UNCHANGED <<path, revert_path, clock, reverted, touched>>
\* With a copy already there the task is refused.
Prepare(kind) ==
  /\ revertPc = "idle" /\ preparations < MaxPreparations /\ ~copied
  /\ revertPc' = "copying" /\ preparing' = kind /\ copied' = TRUE /\ pathsLeft' = DOMAIN path
  /\ preparations' = preparations + 1 /\ UNCHANGED <<path, revert_path, clock, reverted, touched>>

\* copytree keeps the times of the files.
Copy(f) ==
  /\ revertPc = "copying" /\ f \in pathsLeft /\ pathsLeft' = pathsLeft \ {f}
  /\ revert_path' = IF f \in DOMAIN path THEN With(revert_path, f, path[f]) ELSE revert_path
  /\ UNCHANGED <<revertPc, preparing, path, copied, clock, preparations, reverted, touched>>
Copied ==
  /\ revertPc = "copying" /\ pathsLeft = {} /\ revertPc' = "editing" /\ pathsLeft' = DOMAIN path
  /\ UNCHANGED <<preparing, path, revert_path, copied, clock, preparations, reverted, touched>>

\* A file that does not change is not written.
find_replace(f) ==
  /\ revertPc = "editing" /\ f \in pathsLeft /\ pathsLeft' = pathsLeft \ {f}
  /\ path' = IF f \in DOMAIN path /\ path[f].text \cap Prepared[preparing][f] # {}
             THEN With(path, f, [text |-> path[f].text \ Prepared[preparing][f], time |-> clock]) ELSE path
  /\ UNCHANGED <<revertPc, preparing, revert_path, copied, clock, preparations, reverted, touched>>
\* The flow deploys what was prepared.
EditingEnds ==
  /\ revertPc = "editing" /\ pathsLeft = {} /\ revertPc' = "prepared"
  /\ UNCHANGED <<preparing, path, revert_path, copied, pathsLeft, clock, preparations, reverted, touched>>

\* The next step of the flow, or a person after the flow has stopped.
Revert ==
  /\ revertPc \in {"idle", "prepared"} /\ copied
  /\ revertPc' = "updating" /\ pathsLeft' = DOMAIN revert_path
  /\ UNCHANGED <<preparing, path, revert_path, copied, clock, preparations, reverted, touched>>

\* A mutant: every file that differs is copied.
update_treeAll(f) ==
  /\ revertPc = "updating" /\ f \in pathsLeft /\ pathsLeft' = pathsLeft \ {f}
  /\ path' = IF f \notin DOMAIN path \/ path[f].text # revert_path[f].text
             THEN With(path, f, revert_path[f]) ELSE path
  /\ UNCHANGED <<revertPc, preparing, revert_path, copied, clock, preparations, reverted, touched>>
\* Only what is newer in the copy, or not there, is copied.
update_tree(f) ==
  /\ revertPc = "updating" /\ f \in pathsLeft /\ pathsLeft' = pathsLeft \ {f}
  /\ path' = IF f \notin DOMAIN path \/ revert_path[f].time - path[f].time > 1
             THEN With(path, f, revert_path[f]) ELSE path
  /\ UNCHANGED <<revertPc, preparing, revert_path, copied, clock, preparations, reverted, touched>>
Updated ==
  /\ revertPc = "updating" /\ pathsLeft = {} /\ revertPc' = "removing" /\ reverted' = TRUE
  /\ UNCHANGED <<preparing, path, revert_path, copied, pathsLeft, clock, preparations, touched>>
rmtree(f) ==
  /\ revertPc = "removing" /\ f \in DOMAIN revert_path
  /\ revert_path' = Restrict(revert_path, DOMAIN revert_path \ {f})
  /\ UNCHANGED <<revertPc, preparing, path, copied, pathsLeft, clock, preparations, reverted, touched>>
Removed ==
  /\ revertPc = "removing" /\ revert_path = NoTree /\ revertPc' = "idle" /\ copied' = FALSE
  /\ UNCHANGED <<preparing, path, revert_path, pathsLeft, clock, preparations, reverted, touched>>

\* The deployment fails, or the process is killed.
FlowStops ==
  /\ revertPc # "idle" /\ revertPc' = "idle" /\ pathsLeft' = {}
  /\ UNCHANGED <<preparing, path, revert_path, copied, clock, preparations, reverted, touched>>

PersonEdits(f) ==
  /\ f \in DOMAIN path /\ revertPc \in {"idle", "prepared"} /\ <<"edit", f>> \notin touched
  /\ path' = [path EXCEPT ![f] = [text |-> @.text \cup {"edit"}, time |-> clock]]
  /\ touched' = touched \cup {<<"edit", f>>}
  /\ UNCHANGED <<revertPc, preparing, revert_path, copied, pathsLeft, clock, preparations, reverted>>
PersonRemoves(f) ==
  /\ f \in DOMAIN path /\ revertPc \in {"idle", "prepared"} /\ touched = {}
  /\ path' = Restrict(path, DOMAIN path \ {f}) /\ touched' = {<<"remove", f>>}
  /\ UNCHANGED <<revertPc, preparing, revert_path, copied, pathsLeft, clock, preparations, reverted>>
Tick ==
  /\ clock < MaxClock /\ clock' = clock + 1
  /\ UNCHANGED <<revertPc, preparing, path, revert_path, copied, pathsLeft, preparations, reverted, touched>>

RevertNext ==
  \/ \E k \in DOMAIN Prepared : Prepare(k)
  \/ \E f \in Paths : Copy(f) \/ find_replace(f) \/ update_tree(f) \/ rmtree(f)
  \/ \E f \in Paths : PersonEdits(f) \/ PersonRemoves(f)
  \/ Copied \/ EditingEnds \/ Revert \/ Updated \/ Removed \/ FlowStops \/ Tick

RevertSpec == RevertInit /\ [][RevertNext]_revertVars

-----------------------------------------------------------------------------

\* What a preparation takes away is in the directory or in the copy until a revert has been
\* through, wherever flows stop and however often the tasks are run, but for what a person removed.
HasOriginal(tree, f) == f \in DOMAIN tree /\ Original(f) \subseteq tree[f].text
OriginalIsSomewhere ==
  ~reverted => \A f \in Paths : <<"remove", f>> \in touched \/ HasOriginal(path, f) \/ HasOriginal(revert_path, f)

\* What a person wrote stays in the directory.
PersonsEditsStay ==
  \A f \in Paths : <<"edit", f>> \in touched /\ <<"remove", f>> \notin touched =>
    f \in DOMAIN path /\ "edit" \in path[f].text

RevertIsSafe == RevertTypeOK /\ OriginalIsSomewhere /\ PersonsEditsStay

\* cumulusci.yml says of revert_managed_src: "Reverts the changes from create_managed_src".  After
\* it, what was taken away is back, where nobody edited the file.
RevertRestores ==
  revertPc = "removing" /\ touched = {} => \A f \in Paths : path[f].text = Original(f)
=============================================================================
