-------------------------- MODULE ServiceKeychain --------------------------
(* The services of one type in the keychain of encrypted files: a file for     *)
(* each service, a file of defaults for all projects and one for each, and     *)
(* what the process of a command has in memory. A command is one process: it   *)
(* loads, moves the files of the old layout if the new one is missing, does    *)
(* its writes one by one, and may be killed between any two or in one of them. *)
EXTENDS Integers, Sequences, FiniteSets, SequencesExt, FiniteSetsExt

CONSTANTS
  Project,      \* the directories of the projects
  NewAlias,     \* names users give to services
  MaxCommands,
  MaxCrashes

Dir == {"global"} \cup Project
Alias == Dir \cup NewAlias

ASSUME KeychainAssumption ==
  /\ {"global", "env", "none", "nofile", "torn"} \cap (Project \cup NewAlias) = {}
  /\ Project \cap NewAlias = {} /\ IsFiniteSet(Alias)
  /\ MaxCommands \in Nat /\ MaxCrashes \in Nat

VARIABLES
  keychainPc,
  old,           \* the directories with a service file of the old layout
  oldAtFirst,    \* history: those there were before the first command
  servicesDir,   \* whether the services directory exists
  files,         \* what each service file holds: the directory it comes from, "new", "torn" or "none"
  defaults,      \* the default in each file of defaults, "none", "torn" or "nofile"
  here,          \* the project of the process
  services,      \* services in memory
  memoryDefault, \* _default_services
  todo,          \* what the process has left to do to the files
  cut,           \* history: the names whose file or default a command that died had still to
                 \* change, and "torn" once a file of defaults was torn
  commands,
  crashes

keychainVars == <<keychainPc, old, oldAtFirst, servicesDir, files, defaults, here, services,
                  memoryDefault, todo, cut, commands, crashes>>

Stored == {a \in Alias : files[a] # "none"}

KeychainTypeOK ==
  /\ keychainPc \in {"idle", "migrate", "ready", "work"}
  /\ old \subseteq oldAtFirst /\ oldAtFirst \subseteq Dir
  /\ files \in [Alias -> Dir \cup {"new", "torn", "none"}]
  /\ defaults \in [Dir -> Alias \cup {"env", "none", "torn", "nofile"}]
  /\ here \in Project /\ services \subseteq Alias \cup {"env"}
  /\ memoryDefault \in Alias \cup {"env", "none"}
  /\ \A i \in DOMAIN todo : todo[i].do \in {"default", "mkdir", "move", "write", "unlink", "rename", "refer"}
  /\ cut \subseteq Alias \cup {"env", "torn"}
  /\ commands \in 0..MaxCommands /\ crashes \in 0..MaxCrashes

KeychainInit ==
  /\ keychainPc = "idle" /\ old \in SUBSET Dir /\ oldAtFirst = old /\ servicesDir = FALSE
  /\ files = [a \in Alias |-> "none"] /\ defaults = [d \in Dir |-> "nofile"]
  /\ here \in Project /\ services = {} /\ memoryDefault = "none" /\ todo = <<>>
  /\ cut = {} /\ commands = 0 /\ crashes = 0

-----------------------------------------------------------------------------
(* Loading.                                                                    *)

\* The name a service of the old layout gets: that of the project of the process, wherever
\* the file is.
MigratedAliasGlobal(d, p) == "global"
MigratedAlias(d, p) == IF d = "global" THEN "global" ELSE p

Dirs == <<"global">> \o SetToSeq(Project)

\* A default for each file of the old layout, unless the global defaults are there already.
_create_default_service_files(p) ==
  IF defaults["global"] # "nofile" THEN <<>>
  ELSE [i \in DOMAIN Dirs |->
          [do |-> "default", dir |-> Dirs[i],
           alias |-> IF Dirs[i] \in old THEN MigratedAlias(Dirs[i], p) ELSE "none"]]

_migrate_services(p) ==
  [i \in DOMAIN Dirs |-> [do |-> "move", dir |-> Dirs[i], alias |-> MigratedAlias(Dirs[i], p)]]

_load_services(p) ==
  /\ keychainPc = "idle" /\ commands < MaxCommands
  /\ commands' = commands + 1 /\ here' = p /\ keychainPc' = "migrate"
  /\ todo' = IF servicesDir THEN <<>>
             ELSE _create_default_service_files(p) \o <<[do |-> "mkdir"]>> \o _migrate_services(p)
  /\ services' = {} /\ memoryDefault' = "none"
  /\ UNCHANGED <<old, oldAtFirst, servicesDir, files, defaults, cut, crashes>>

\* The first service loaded, in any order of the files, is the default until a file says
\* otherwise; that of the project comes last.
LoadedDefaultOfFiles(first) ==
  IF defaults[here] \in {"none", "nofile"} THEN "none" ELSE defaults[here]
LoadedDefaultUnread(first) == defaults[here]
LoadedDefault(first) ==
  LET At(d, otherwise) == IF defaults[d] \in {"none", "nofile"} THEN otherwise ELSE defaults[d] IN
  At(here, At("global", first))

_load_service_files ==
  /\ keychainPc = "migrate" /\ todo = <<>>
  /\ \E env \in {{}, {"env"}} :
       /\ services' = Stored \cup env
       /\ IF "torn" \in {defaults["global"], defaults[here]}
          THEN keychainPc' = "idle" /\ memoryDefault' = "none"
          ELSE /\ keychainPc' = "ready"
               /\ \E first \in IF env # {} THEN env ELSE IF Stored = {} THEN {"none"} ELSE Stored :
                    memoryDefault' = LoadedDefault(first)
  /\ UNCHANGED <<old, oldAtFirst, servicesDir, files, defaults, here, todo, cut, commands, crashes>>

-----------------------------------------------------------------------------
(* Commands: each changes what is in memory and lists its writes.              *)

SaveDefault(d, a) == <<[do |-> "default", dir |-> d, alias |-> a]>>

\* The defaults that named a service in any file name another, or none.
ReferGlobal(a, b) == <<[do |-> "refer", dir |-> "global", alias |-> a, new |-> b]>>
Refer(a, b) == [i \in DOMAIN Dirs |-> [do |-> "refer", dir |-> Dirs[i], alias |-> a, new |-> b]]

Work(list) ==
  /\ keychainPc = "ready" /\ keychainPc' = "work" /\ todo' = list
  /\ UNCHANGED <<old, oldAtFirst, servicesDir, files, defaults, here, cut, commands, crashes>>

\* The first service of its type becomes the default of all projects; a flag or an answer
\* may make it that of all or of this one.
_set_service(a) ==
  \E chosen \in {<<>>, SaveDefault("global", a), SaveDefault(here, a)} :
    /\ Work((IF services = {} THEN SaveDefault("global", a) ELSE <<>>)
            \o <<[do |-> "write", alias |-> a]>> \o chosen)
    /\ services' = services \cup {a}
    /\ memoryDefault' = IF services = {} \/ chosen # <<>> THEN a ELSE memoryDefault

set_default_service(a, d) ==
  /\ a \in services
  /\ Work(SaveDefault(d, a)) /\ memoryDefault' = a /\ UNCHANGED services

rename_service(a, b) ==
  /\ a \in services /\ b \notin services
  /\ Work(<<[do |-> "rename", alias |-> a, new |-> b]>> \o Refer(a, b))
  /\ services' = (services \ {a}) \cup {b} /\ UNCHANGED memoryDefault

\* The new default: the only other service, or the one the user names when there are more,
\* which may be the very service that goes.
Successors(a) ==
  IF memoryDefault # a THEN {memoryDefault}
  ELSE IF Cardinality(services) > 2 THEN (services \ {a}) \cup {"none"}
  ELSE IF services = {a} THEN {"none"} ELSE services \ {a}

remove_service(a) ==
  /\ a \in services
  /\ \E next \in Successors(a) :
       /\ Work(<<[do |-> "unlink", alias |-> a]>> \o Refer(a, "none")
               \o IF memoryDefault = a /\ next # "none" THEN SaveDefault("global", next) ELSE <<>>)
       /\ memoryDefault' = next
  /\ services' = services \ {a}

-----------------------------------------------------------------------------
(* The writes.                                                                 *)

KeepKeychain ==
  UNCHANGED <<oldAtFirst, here, services, memoryDefault, commands, crashes>>

Step == Head(todo)
Doing(what) == keychainPc \in {"migrate", "work"} /\ todo # <<>> /\ Step.do = what

\* The names of the services with a file still to write or move, or a default to go over.
Unfinished == {todo[i].alias : i \in {j \in DOMAIN todo : todo[j].do \in {"write", "move", "refer"}}}

\* An error ends the command with the rest of its writes undone.
Abort == keychainPc' = "idle" /\ todo' = <<>> /\ UNCHANGED <<old, servicesDir, files, defaults>> /\ KeepKeychain

Advance == todo' = Tail(todo) /\ UNCHANGED <<keychainPc, cut>> /\ KeepKeychain

_write_default_services ==
  /\ Doing("default") /\ Advance
  /\ defaults' = [defaults EXCEPT ![Step.dir] = Step.alias]
  /\ UNCHANGED <<old, servicesDir, files>>

_create_services_dir_structure ==
  /\ Doing("mkdir") /\ Advance /\ servicesDir' = TRUE /\ UNCHANGED <<old, files, defaults>>

\* The directory is listed when its turn comes; a file whose new name is taken stays where
\* it is.
MovesAlways == Step.dir \in old
Moves == Step.dir \in old /\ Step.alias \notin Stored

_migrate_services_from_dir ==
  /\ Doing("move") /\ Advance
  /\ IF Moves
     THEN files' = [files EXCEPT ![Step.alias] = Step.dir] /\ old' = old \ {Step.dir}
     ELSE UNCHANGED <<files, old>>
  /\ UNCHANGED <<servicesDir, defaults>>

_save_encrypted_service ==
  /\ Doing("write") /\ Advance /\ files' = [files EXCEPT ![Step.alias] = "new"]
  /\ UNCHANGED <<old, servicesDir, defaults>>

\* A service of the environment has no file to remove or rename.
FileFails == (Doing("unlink") \/ Doing("rename")) /\ Step.alias \notin Stored /\ Abort /\ UNCHANGED cut

UnlinkService ==
  /\ Doing("unlink") /\ Step.alias \in Stored /\ Advance
  /\ files' = [files EXCEPT ![Step.alias] = "none"] /\ UNCHANGED <<old, servicesDir, defaults>>

RenameFile ==
  /\ Doing("rename") /\ Step.alias \in Stored /\ Advance
  /\ files' = [files EXCEPT ![Step.new] = files[Step.alias], ![Step.alias] = "none"]
  /\ UNCHANGED <<old, servicesDir, defaults>>

_remove_reference_to_alias ==
  /\ Doing("refer")
  /\ IF defaults[Step.dir] = "torn" THEN Abort /\ cut' = cut \cup Unfinished
     ELSE /\ Advance
          /\ defaults' = [defaults EXCEPT ![Step.dir] =
                            CASE @ = Step.alias -> Step.new
                              [] @ = "nofile" /\ Step.new = "none" -> "none"
                              [] OTHER -> @]
          /\ UNCHANGED <<old, servicesDir, files>>

Finish ==
  /\ keychainPc \in {"ready", "work"} /\ todo = <<>> /\ keychainPc' = "idle" /\ todo' = <<>>
  /\ UNCHANGED <<old, servicesDir, files, defaults, cut>> /\ KeepKeychain

\* The file being written is truncated first.
Killed ==
  /\ keychainPc \in {"migrate", "work"} /\ todo # <<>> /\ crashes < MaxCrashes
  /\ crashes' = crashes + 1 /\ keychainPc' = "idle" /\ todo' = <<>>
  /\ \E tear \in BOOLEAN :
       /\ defaults' = IF tear /\ Step.do \in {"default", "refer"}
                      THEN [defaults EXCEPT ![Step.dir] = "torn"] ELSE defaults
       /\ files' = IF tear /\ Step.do = "write"
                   THEN [files EXCEPT ![Step.alias] = "torn"] ELSE files
       /\ cut' = cut \cup Unfinished \cup IF defaults' # defaults THEN {"torn"} ELSE {}
  /\ UNCHANGED <<old, oldAtFirst, servicesDir, here, services, memoryDefault, commands>>

FileStep ==
  \/ _write_default_services \/ _create_services_dir_structure \/ _migrate_services_from_dir
  \/ _save_encrypted_service \/ UnlinkService \/ RenameFile \/ FileFails
  \/ _remove_reference_to_alias

KeychainNext ==
  \/ \E p \in Project : _load_services(p)
  \/ _load_service_files
  \/ \E a \in NewAlias \cup (services \ {"env"}) : _set_service(a)
  \/ \E a \in services, d \in {"global", here} : set_default_service(a, d)
  \/ \E a \in services, b \in NewAlias : rename_service(a, b)
  \/ \E a \in services : remove_service(a)
  \/ FileStep \/ Finish \/ Killed

KeychainSpec == KeychainInit /\ [][KeychainNext]_keychainVars

-----------------------------------------------------------------------------
(* Properties.                                                                 *)

\* Every default in every file names a service that is there, or one of the environment,
\* which had to be loaded to be named: set_default_service checks, rename_service and
\* remove_service go over the files of all the projects. What a kill can break it breaks only
\* for the services whose files the command had still to write or move or whose defaults it
\* had still to go over: no other command, and no later one, leaves a default of nothing.
DefaultsExist ==
  /\ keychainPc = "idle" =>
       \A d \in Dir : defaults[d] \in Stored \cup {"env", "none", "nofile"} \cup cut
  /\ crashes = 0 => cut = {}

\* A process that finds services has one to give when none is asked for by name, unless a
\* service of an environment now gone was made the default, or the default is of a service a
\* command was killed over.
DefaultIsUsable ==
  (keychainPc = "ready" /\ services # {} /\ "env" \notin {defaults["global"], defaults[here]}) =>
    memoryDefault \in services \cup cut

\* Does not hold, for a process that has loaded either: remove_service and rename_service
\* take the file away before they go over the defaults, _set_service writes the first default
\* before the file, and a command killed after the services directory is made leaves the
\* files of the old layout unmoved for good. Nothing that loads a default checks it.
DefaultsOutliveKills ==
  keychainPc = "ready" /\ memoryDefault # "none" =>
    memoryDefault \in services \/ "env" \in {defaults["global"], defaults[here]}

\* Whatever is killed, a service of the old layout stays in one file or another until a
\* command that names the file removes it or writes over it; moving and renaming overwrite
\* nothing.
Held(d) == d \in old \/ \E a \in Alias : files[a] = d
MovedNotLost ==
  [][\A d \in Dir : Held(d) /\ ~Held(d)' =>
       \E a \in Alias : /\ files[a] = d /\ todo # <<>>
                        /\ Step.do \in {"write", "unlink"} /\ Step.alias = a]_keychainVars

\* Where only the project of the command has a service of the old layout, moving keeps what
\* every project used: its own, else that of all.
MigrationKeepsDefaults ==
  keychainPc = "ready" /\ commands = 1 /\ oldAtFirst \subseteq {"global", here} =>
    \A p \in Project :
      LET d == IF defaults[p] \in {"none", "nofile"} THEN defaults["global"] ELSE defaults[p]
          own == IF p \in oldAtFirst THEN {p} ELSE oldAtFirst \cap {"global"} IN
      IF own = {} THEN d \in {"none", "nofile"} ELSE d \in Alias /\ files[d] \in own

\* The docstring of _migrate_services_from_dir: the alias is "either the name of the local
\* project directory or 'global'; depending on where the .service file is located".
MigratedUnderOwnName ==
  commands = 1 /\ keychainPc = "migrate" =>
    \A a \in Alias : files[a] \in Dir => files[a] = a
=============================================================================
