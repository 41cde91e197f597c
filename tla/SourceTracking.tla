--------------------------- MODULE SourceTracking ---------------------------
(* Which changes of an org are not in the project yet. The org counts the     *)
(* revisions of its components; a snapshot, a file, holds the revision of each *)
(* that was retrieved. Commands list the changes, retrieve them or declare    *)
(* everything known. Two may run at once; the org is edited all the time; a   *)
(* retrieval may fail, and a command may be killed, also while it writes.     *)
EXTENDS Integers, FiniteSets, Functions

CONSTANTS
  Component,
  Unmanifested,  \* components of the types that are never put in a manifest
  Command,       \* commands that may run at once
  Excludes,      \* what the options exclude
  MaxRevision, MaxCrashes

ASSUME TrackingAssumption ==
  /\ Unmanifested \subseteq Component /\ Excludes \subseteq SUBSET Component
  /\ {MaxRevision, MaxCrashes} \subseteq Nat

VARIABLES
  edited,     \* the revision of each component, 0 before it exists
  tracked,    \* the revision the org tells; it lags
  obsolete,   \* components deleted since
  local,      \* the revision of each component's source in the project
  snapshot,   \* the file: revisions by component, or torn
  forgotten,  \* external: components whose changes sf was told to forget although the
              \* project does not have them
  command,    \* the commands that run
  declared,   \* history: the revisions a command was told to take as known
  crashes

trackingVars == <<edited, tracked, obsolete, local, snapshot, forgotten, command, declared, crashes>>

None == [c \in {} |-> 0]
Torn == [c \in Component |-> -1]
Idle == [task |-> "none", at |-> "idle", loaded |-> None, changes |-> None, exclude |-> {}, snapshot |-> FALSE, ignored |-> FALSE]
Tasks == {"list_changes", "retrieve_changes", "snapshot_changes"}
Revisions == UNION {[S -> 0..MaxRevision] : S \in SUBSET Component}

CommandState ==
  [task : Tasks \cup {"none"}, at : {"idle", "load", "query", "retrieve", "store", "write", "reset"},
   loaded : Revisions, changes : Revisions, exclude : Excludes \cup {{}},
   snapshot : BOOLEAN, ignored : BOOLEAN]

TrackingTypeOK ==
  /\ edited \in [Component -> 0..MaxRevision] /\ tracked \in [Component -> 0..MaxRevision]
  /\ local \in [Component -> 0..MaxRevision] /\ declared \in [Component -> 0..MaxRevision]
  /\ obsolete \subseteq Component /\ forgotten \subseteq Component
  /\ snapshot \in Revisions \cup {Torn}
  /\ command \in [Command -> CommandState]
  /\ crashes \in 0..MaxCrashes

TrackingInit ==
  /\ edited = [c \in Component |-> 0] /\ tracked = edited /\ obsolete = {} /\ local = edited
  /\ snapshot = None /\ forgotten = {} /\ command = [k \in Command |-> Idle] /\ declared = edited
  /\ crashes = 0

-----------------------------------------------------------------------------
(* The org.                                                                    *)

Edit(c) ==
  /\ edited[c] < MaxRevision /\ edited' = [edited EXCEPT ![c] = @ + 1] /\ obsolete' = obsolete \ {c}
  /\ UNCHANGED <<tracked, local, snapshot, forgotten, command, declared, crashes>>

Track(c) ==
  /\ tracked[c] # edited[c] /\ tracked' = [tracked EXCEPT ![c] = edited[c]]
  /\ UNCHANGED <<edited, obsolete, local, snapshot, forgotten, command, declared, crashes>>

Delete(c) ==
  /\ edited[c] > 0 /\ c \notin obsolete /\ obsolete' = obsolete \cup {c}
  /\ UNCHANGED <<edited, tracked, local, snapshot, forgotten, command, declared, crashes>>

-----------------------------------------------------------------------------
(* The commands.                                                               *)

Goes(k, at) == command' = [command EXCEPT ![k].at = at]
Org == <<edited, tracked, obsolete>>

\* The option of retrieve_changes is read from the wrong place and is always set.
Start(k, task, exclude, option) ==
  /\ command[k] = Idle
  /\ command' = [command EXCEPT ![k] =
       [Idle EXCEPT !.task = task, !.exclude = exclude, !.snapshot = option \/ task # "list_changes",
                    !.at = IF task = "snapshot_changes" THEN "query" ELSE "load"]]
  /\ UNCHANGED <<Org, local, snapshot, forgotten, declared, crashes>>

\* A torn file ends the command.
_load_snapshot(k) ==
  /\ command[k].at = "load"
  /\ IF snapshot = Torn THEN command' = [command EXCEPT ![k] = Idle]
     ELSE command' = [command EXCEPT ![k].at = "query", ![k].loaded = snapshot]
  /\ UNCHANGED <<Org, local, snapshot, forgotten, declared, crashes>>

Changed(k) ==
  {c \in Component \ obsolete : tracked[c] > 0 /\ ~(c \in DOMAIN command[k].loaded /\ command[k].loaded[c] = tracked[c])}

_filter_changes(k) == IF command[k].task = "snapshot_changes" THEN Changed(k) ELSE Changed(k) \ command[k].exclude

\* snapshot_changes queries once more when it finds nothing, as if it had
\* queried later, and goes on to reset sf's tracking also when there is nothing.
_get_changes(k) ==
  LET found == [c \in _filter_changes(k) |-> tracked[c]] IN
  /\ command[k].at = "query"
  /\ command' = [command EXCEPT ![k] =
       IF @.task = "snapshot_changes" THEN [@ EXCEPT !.changes = found, !.at = IF found = None THEN "reset" ELSE "store"]
       ELSE IF @.task = "retrieve_changes" /\ found # None
            THEN [@ EXCEPT !.changes = found, !.ignored = Changed(k) \cap command[k].exclude # {}, !.at = "retrieve"]
       ELSE IF @.task = "list_changes" /\ @.snapshot THEN [@ EXCEPT !.changes = found, !.at = "store"]
       ELSE Idle]
  /\ declared' = IF command[k].task = "retrieve_changes" \/ ~command[k].snapshot THEN declared
                 ELSE [c \in Component |-> IF c \in DOMAIN found /\ found[c] > declared[c] THEN found[c] ELSE declared[c]]
  /\ UNCHANGED <<Org, local, snapshot, forgotten, crashes>>

_write_manifest(k) == DOMAIN command[k].changes \ Unmanifested

\* The retrieval brings what the org holds by then, or fails.
retrieve_components(k) ==
  /\ command[k].at = "retrieve"
  /\ \/ command' = [command EXCEPT ![k] = Idle] /\ UNCHANGED local
     \/ /\ local' = [c \in Component |->
             IF c \in _write_manifest(k) \ obsolete THEN edited[c] ELSE local[c]]
        /\ Goes(k, "store")
  /\ UNCHANGED <<Org, snapshot, forgotten, declared, crashes>>

\* The file is emptied and then written.
_open_for_writing(k) ==
  /\ command[k].at = "store" /\ snapshot' = Torn /\ Goes(k, "write")
  /\ UNCHANGED <<Org, local, forgotten, declared, crashes>>

Override(f, g) == [c \in DOMAIN f \cup DOMAIN g |-> IF c \in DOMAIN g THEN g[c] ELSE f[c]]

\* What the org tells now instead of what was found then.
_store_snapshotOfNow(k) ==
  /\ command[k].at = "write"
  /\ snapshot' = Override(command[k].loaded, [c \in DOMAIN command[k].changes |-> tracked[c]])
  /\ command' = [command EXCEPT ![k] = Idle]
  /\ UNCHANGED <<Org, local, forgotten, declared, crashes>>
_store_snapshot(k) ==
  /\ command[k].at = "write" /\ snapshot' = Override(command[k].loaded, command[k].changes)
  /\ IF command[k].task = "list_changes" \/ command[k].ignored THEN command' = [command EXCEPT ![k] = Idle]
     ELSE Goes(k, "reset")
  /\ UNCHANGED <<Org, local, forgotten, declared, crashes>>

_reset_sfdx_snapshot(k) ==
  /\ command[k].at = "reset" /\ command' = [command EXCEPT ![k] = Idle]
  /\ declared' = IF command[k].task = "snapshot_changes" THEN edited ELSE declared
  /\ forgotten' = {c \in Component \ (Unmanifested \cup obsolete) :
                     local[c] # edited[c] /\ declared'[c] # edited[c]}
  /\ UNCHANGED <<Org, local, snapshot, crashes>>

Kill(k) ==
  /\ command[k] # Idle /\ crashes < MaxCrashes /\ crashes' = crashes + 1
  /\ command' = [command EXCEPT ![k] = Idle]
  /\ UNCHANGED <<Org, local, snapshot, forgotten, declared>>

TrackingNext ==
  \/ \E c \in Component : Edit(c) \/ Track(c) \/ Delete(c)
  \/ \E k \in Command :
       \/ \E task \in Tasks, x \in Excludes, o \in BOOLEAN : Start(k, task, x, o)
       \/ _load_snapshot(k) \/ _get_changes(k) \/ retrieve_components(k)
       \/ _open_for_writing(k) \/ _store_snapshot(k) \/ _reset_sfdx_snapshot(k) \/ Kill(k)

TrackingSpec == TrackingInit /\ [][TrackingNext]_trackingVars

-----------------------------------------------------------------------------
(* What is claimed.                                                            *)

\* A component that is as it was recorded, and so is not listed any more, is in
\* the project in this state, or a command was told to take it as known: with
\* edits at any moment, a retrieval that fails, commands killed anywhere and two
\* of them at once.
HiddenMeansKnown ==
  snapshot # Torn =>
    \A c \in DOMAIN snapshot \ (Unmanifested \cup obsolete) :
      snapshot[c] = edited[c] => local[c] = edited[c] \/ declared[c] = edited[c]

\* A change that is hidden is one that is known.
TrackingIsSound == TrackingTypeOK /\ HiddenMeansKnown

\* "If all changed components were retrieved, we can reset sfdx source tracking
\* too": sf must not forget a change that the project does not have.
ResetLosesNothing == forgotten = {}

\* "snapshot: If True, all matching items will be set to be ignored".
OnlySnapshotsIfAsked ==
  [][\A k \in Command, x \in Excludes : ~(Start(k, "retrieve_changes", x, FALSE) /\ command'[k].snapshot)]_trackingVars

\* A killed command leaves a file that the next one can read.
SnapshotIsReadable == (\A k \in Command : command[k] = Idle) => snapshot # Torn
=============================================================================
