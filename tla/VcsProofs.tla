----------------------------- MODULE VcsProofs ------------------------------
(* What holds of source tracking, of publishing, of promotion, of merges and of *)
(* the sources of projects for every value of the constants: of the components, *)
(* and of the suite that TLC checks them in. Each part has an invariant that is *)
(* stronger than what is claimed and is kept by every step.                     *)
EXTENDS MCVcs, SequenceTheorems, FiniteSetTheorems, WellFoundedInduction, TLAPS

-----------------------------------------------------------------------------
(* Source tracking.                                                         *)

LEMMA RevisionsAre ==
  ASSUME NEW S \in SUBSET Component, NEW f \in [S -> 0..MaxRevision]
  PROVE  f \in Revisions
BY DEF Revisions

LEMMA RevisionOf ==
  ASSUME NEW f \in Revisions
  PROVE  /\ DOMAIN f \subseteq Component /\ f = [c \in DOMAIN f |-> f[c]]
         /\ \A c \in DOMAIN f : f[c] \in 0..MaxRevision
BY DEF Revisions

LEMMA NoneTyped == None \in Revisions
<1>1. None \in [{} -> 0..MaxRevision]
  BY DEF None
<1> QED BY <1>1, RevisionsAre

LEMMA IdleTyped == Idle \in CommandState
BY NoneTyped DEF Idle, CommandState

LEMMA OverrideTyped ==
  ASSUME NEW f \in Revisions, NEW g \in Revisions
  PROVE  Override(f, g) \in Revisions
<1>1. Override(f, g) \in [DOMAIN f \cup DOMAIN g -> 0..MaxRevision]
  BY RevisionOf DEF Override
<1>2. DOMAIN f \cup DOMAIN g \subseteq Component
  BY RevisionOf
<1> QED BY <1>1, <1>2, RevisionsAre

\* What a query finds is a record of revisions.
LEMMA FoundTyped ==
  ASSUME TrackingTypeOK, NEW k \in Command
  PROVE  [c \in _filter_changes(k) |-> tracked[c]] \in Revisions
<1>1. _filter_changes(k) \subseteq Component
  BY DEF _filter_changes, Changed
<1> QED BY <1>1, RevisionsAre DEF TrackingTypeOK

LEMMA TrackingTypeInit == TrackingInit => TrackingTypeOK
BY TrackingAssumption, NoneTyped, IdleTyped DEF TrackingInit, TrackingTypeOK

LEMMA TrackingTypeStep == TrackingTypeOK /\ [TrackingNext]_trackingVars => TrackingTypeOK'
<1> SUFFICES ASSUME TrackingTypeOK, [TrackingNext]_trackingVars
             PROVE  TrackingTypeOK'
  OBVIOUS
<1> USE TrackingAssumption DEF TrackingTypeOK
<1>1. ASSUME NEW c \in Component, Edit(c)
      PROVE  TrackingTypeOK'
  BY <1>1 DEF Edit
<1>2. ASSUME NEW c \in Component, Track(c)
      PROVE  TrackingTypeOK'
  BY <1>2 DEF Track
<1>3. ASSUME NEW c \in Component, Delete(c)
      PROVE  TrackingTypeOK'
  BY <1>3 DEF Delete
<1>4. ASSUME NEW k \in Command, NEW task \in Tasks, NEW x \in Excludes, NEW o \in BOOLEAN, Start(k, task, x, o)
      PROVE  TrackingTypeOK'
  BY <1>4, IdleTyped DEF Start, CommandState, Idle, Org, Tasks
<1>5. ASSUME NEW k \in Command, _load_snapshot(k)
      PROVE  TrackingTypeOK'
  BY <1>5, IdleTyped DEF _load_snapshot, CommandState, Org
<1>6. ASSUME NEW k \in Command, _get_changes(k)
      PROVE  TrackingTypeOK'
  <2> DEFINE those == [c \in _filter_changes(k) |-> tracked[c]]
  <2>1. those \in Revisions
    BY FoundTyped
  <2>2. command' \in [Command -> CommandState]
    <3>1. /\ (Changed(k) \cap command[k].exclude # {}) \in BOOLEAN
          /\ command[k] \in CommandState
      OBVIOUS
    <3>2. [command[k] EXCEPT !.changes = those, !.at = IF those = None THEN "reset" ELSE "store"] \in CommandState
      BY <2>1, <3>1 DEF CommandState
    <3>3. [command[k] EXCEPT !.changes = those, !.ignored = Changed(k) \cap command[k].exclude # {}, !.at = "retrieve"] \in CommandState
      BY <2>1, <3>1 DEF CommandState
    <3>4. [command[k] EXCEPT !.changes = those, !.at = "store"] \in CommandState
      BY <2>1, <3>1 DEF CommandState
    <3>5. PICK s \in CommandState : command' = [command EXCEPT ![k] = s]
      BY <1>6, <3>2, <3>3, <3>4, IdleTyped DEF _get_changes
    <3> QED BY <3>5
  <2>3. declared' \in [Component -> 0..MaxRevision]
    BY <1>6, <2>1, RevisionOf DEF _get_changes
  <2> QED BY <1>6, <2>2, <2>3 DEF _get_changes, Org
<1>7. ASSUME NEW k \in Command, retrieve_components(k)
      PROVE  TrackingTypeOK'
  BY <1>7, IdleTyped DEF retrieve_components, CommandState, Org, Goes
<1>8. ASSUME NEW k \in Command, _open_for_writing(k)
      PROVE  TrackingTypeOK'
  BY <1>8, IdleTyped DEF _open_for_writing, CommandState, Org, Goes
<1>9. ASSUME NEW k \in Command, _store_snapshot(k)
      PROVE  TrackingTypeOK'
  <2>1. Override(command[k].loaded, command[k].changes) \in Revisions
    BY OverrideTyped DEF CommandState
  <2> QED BY <1>9, <2>1, IdleTyped DEF _store_snapshot, CommandState, Org, Goes
<1>10. ASSUME NEW k \in Command, _reset_sfdx_snapshot(k)
      PROVE  TrackingTypeOK'
  BY <1>10, IdleTyped DEF _reset_sfdx_snapshot, CommandState, Org
<1>11. ASSUME NEW k \in Command, Kill(k)
      PROVE  TrackingTypeOK'
  BY <1>11, IdleTyped DEF Kill, Org
<1>12. CASE UNCHANGED trackingVars
  BY <1>12 DEF trackingVars
<1> QED BY <1>1, <1>2, <1>3, <1>4, <1>5, <1>6, <1>7, <1>8, <1>9, <1>10, <1>11, <1>12 DEF TrackingNext

-----------------------------------------------------------------------------
\* A component as it is now is in the project, or declared known.
Known(c) == local[c] = edited[c] \/ declared[c] = edited[c]

\* Revisions that were recorded: none is of the future, and those that are still what the
\* org holds are known.
Recorded(f) ==
  \A c \in DOMAIN f :
    /\ f[c] <= edited[c]
    /\ c \notin Unmanifested \cup obsolete /\ f[c] = edited[c] => Known(c)

\* The strengthening: nobody knows a revision that the org has not had yet, what a command has
\* loaded is as good as the file was, and what it is about to write is known by then.
Bounded == \A c \in Component : tracked[c] <= edited[c] /\ local[c] <= edited[c] /\ declared[c] <= edited[c]

CommandRecords(k) ==
  /\ Recorded(command[k].loaded)
  /\ \A c \in DOMAIN command[k].changes : command[k].changes[c] <= edited[c]
  /\ command[k].at \in {"store", "write"} => Recorded(command[k].changes)
  /\ command[k].task = "snapshot_changes" => command[k].snapshot

TrackingInv ==
  /\ TrackingTypeOK /\ Bounded
  /\ snapshot # Torn => Recorded(snapshot)
  /\ \A k \in Command : CommandRecords(k)

LEMMA NoneRecorded == Recorded(None) /\ DOMAIN None = {}
BY DEF Recorded, None

LEMMA OverrideRecorded ==
  ASSUME NEW f, NEW g, Recorded(f), Recorded(g)
  PROVE  Recorded(Override(f, g))
BY DEF Recorded, Override

\* While the org is not edited, what was known stays known.
LEMMA IdleRecords ==
  ASSUME NEW k, command[k] = Idle
  PROVE  CommandRecords(k)
BY NoneRecorded DEF CommandRecords, Idle

LEMMA TrackingInvInit == TrackingInit => TrackingInv
<1> SUFFICES ASSUME TrackingInit PROVE TrackingInv
  OBVIOUS
<1>1. TrackingTypeOK
  BY TrackingTypeInit
<1>2. \A k \in Command : CommandRecords(k)
  BY IdleRecords DEF TrackingInit
<1> QED BY <1>1, <1>2, NoneRecorded DEF TrackingInit, TrackingInv, Bounded

LEMMA TrackingInvStep == TrackingInv /\ [TrackingNext]_trackingVars => TrackingInv'
<1> SUFFICES ASSUME TrackingInv, [TrackingNext]_trackingVars PROVE TrackingInv'
  OBVIOUS
<1>t. TrackingTypeOK /\ TrackingTypeOK'
  BY TrackingTypeStep DEF TrackingInv
<1>d. /\ snapshot # Torn => snapshot \in Revisions
      /\ \A k \in Command : command[k].loaded \in Revisions /\ command[k].changes \in Revisions
  BY <1>t DEF TrackingTypeOK, CommandState
<1>b. \A c \in Component :
        /\ {edited[c], tracked[c], local[c], declared[c]} \subseteq Nat
        /\ {edited[c], tracked[c], local[c], declared[c]}' \subseteq Nat
  BY <1>t, TrackingAssumption DEF TrackingTypeOK
<1>f. ASSUME NEW f \in Revisions PROVE \A c \in DOMAIN f : c \in Component /\ f[c] \in Nat
  BY RevisionOf, TrackingAssumption
\* The steps that leave the org's revisions, and lose nothing that is known.
<1>s. ASSUME UNCHANGED edited, obsolete \subseteq obsolete', \A c \in Component : Known(c) => Known(c)',
             NEW f \in Revisions, Recorded(f)
      PROVE  Recorded(f)'
  BY <1>s, <1>f DEF Recorded
<1>c. ASSUME UNCHANGED <<edited, command>>, obsolete \subseteq obsolete', \A c \in Component : Known(c) => Known(c)',
             NEW k \in Command
      PROVE  CommandRecords(k)'
  BY <1>c, <1>s, <1>d DEF TrackingInv, CommandRecords
\* The org.
<1>1. ASSUME NEW c \in Component, Edit(c) PROVE TrackingInv'
  <2>1. ASSUME NEW f \in Revisions, Recorded(f) PROVE Recorded(f)'
    BY <1>1, <1>t, <1>b, <1>f, <2>1 DEF Edit, Recorded, Known, TrackingTypeOK
  <2>2. snapshot' # Torn => Recorded(snapshot)'
    BY <1>1, <1>d, <2>1 DEF Edit, TrackingInv, Recorded, Known
  <2>3. ASSUME NEW k \in Command PROVE CommandRecords(k)'
    <3>1. \A x \in DOMAIN command[k].changes : command[k].changes[x] <= edited'[x]
      BY <1>1, <1>b, <1>d, <1>f, <1>t DEF Edit, TrackingInv, TrackingTypeOK, CommandRecords
    <3> QED BY <1>1, <1>d, <2>1, <3>1 DEF Edit, TrackingInv, CommandRecords
  <2>4. Bounded'
    BY <1>1, <1>b, <1>t DEF Edit, TrackingInv, Bounded, TrackingTypeOK
  <2> QED BY <1>t, <2>2, <2>3, <2>4 DEF TrackingInv
<1>2. ASSUME NEW c \in Component, Track(c) PROVE TrackingInv'
  <2>1. UNCHANGED <<edited, obsolete, command, snapshot>> /\ \A x \in Component : Known(x) => Known(x)'
    BY <1>2 DEF Track, Known
  <2>2. snapshot' # Torn => Recorded(snapshot)'
    BY <1>d, <1>s, <2>1 DEF TrackingInv
  <2>3. Bounded'
    BY <1>2, <1>b, <1>t DEF Track, TrackingInv, Bounded, TrackingTypeOK
  <2> QED BY <1>t, <1>c, <2>1, <2>2, <2>3 DEF TrackingInv
<1>3. ASSUME NEW c \in Component, Delete(c) PROVE TrackingInv'
  <2>1. /\ UNCHANGED <<edited, command, snapshot>> /\ obsolete \subseteq obsolete'
        /\ \A x \in Component : Known(x) => Known(x)'
    BY <1>3 DEF Delete, Known
  <2>2. snapshot' # Torn => Recorded(snapshot)'
    BY <1>d, <1>s, <2>1 DEF TrackingInv
  <2>3. Bounded'
    BY <1>3 DEF Delete, TrackingInv, Bounded
  <2> QED BY <1>t, <1>c, <2>1, <2>2, <2>3 DEF TrackingInv
\* The commands: each looks after its own records and what it writes.
<1>g. ASSUME NEW k \in Command, UNCHANGED <<edited, obsolete>>, \A c \in Component : Known(c) => Known(c)',
             \A j \in Command \ {k} : command'[j] = command[j],
             CommandRecords(k)', snapshot' # Torn => Recorded(snapshot)', Bounded'
      PROVE  TrackingInv'
  <2>1. ASSUME NEW j \in Command \ {k} PROVE CommandRecords(j)'
    BY <1>g, <1>s, <1>d DEF TrackingInv, CommandRecords
  <2> QED BY <1>g, <1>t, <2>1 DEF TrackingInv
\* Steps that change the commands only.
<1>h. ASSUME NEW k \in Command, UNCHANGED <<edited, tracked, obsolete, local, declared, snapshot>>,
             \A j \in Command \ {k} : command'[j] = command[j], CommandRecords(k)'
      PROVE  TrackingInv'
  <2>1. \A c \in Component : Known(c) => Known(c)'
    BY <1>h DEF Known
  <2>2. snapshot' # Torn => Recorded(snapshot)'
    BY <1>d, <1>h, <1>s, <2>1 DEF TrackingInv
  <2>3. Bounded'
    BY <1>h DEF TrackingInv, Bounded
  <2> QED BY <1>g, <1>h, <2>1, <2>2, <2>3
<1>4. ASSUME NEW k \in Command, NEW task \in Tasks, NEW x \in Excludes, NEW o \in BOOLEAN, Start(k, task, x, o)
      PROVE  TrackingInv'
  <2>1. /\ command'[k].loaded = None /\ command'[k].changes = None
        /\ command'[k].task = "snapshot_changes" => command'[k].snapshot
        /\ \A j \in Command \ {k} : command'[j] = command[j]
    BY <1>4, <1>t DEF Start, TrackingTypeOK, Idle
  <2>2. CommandRecords(k)'
    BY <2>1 DEF CommandRecords, Recorded, None
  <2> QED BY <1>4, <1>h, <2>1, <2>2 DEF Start, Org
<1>5. ASSUME NEW k \in Command, _load_snapshot(k) PROVE TrackingInv'
  <2>1. \A j \in Command \ {k} : command'[j] = command[j]
    BY <1>5, <1>t DEF _load_snapshot, TrackingTypeOK
  <2>2. CommandRecords(k)'
    <3>1. CASE snapshot = Torn
      <4>1. command'[k] = Idle
        BY <1>5, <1>t, <3>1 DEF _load_snapshot, TrackingTypeOK
      <4> QED BY <4>1, NoneRecorded DEF CommandRecords, Idle, Recorded
    <3>2. CASE snapshot # Torn
      <4>1. command'[k].loaded = snapshot /\ command'[k].changes = command[k].changes /\ command'[k].at = "query"
            /\ command'[k].task = command[k].task /\ command'[k].snapshot = command[k].snapshot
        BY <1>5, <1>t, <3>2 DEF _load_snapshot, TrackingTypeOK, CommandState
      <4>2. UNCHANGED <<edited, obsolete, local, declared>>
        BY <1>5 DEF _load_snapshot, Org
      <4> QED BY <3>2, <4>1, <4>2 DEF TrackingInv, CommandRecords, Recorded, Known
    <3> QED BY <3>1, <3>2
  <2> QED BY <1>5, <1>h, <2>1, <2>2 DEF _load_snapshot, Org
<1>6. ASSUME NEW k \in Command, _get_changes(k) PROVE TrackingInv'
  <2> DEFINE those == [c \in _filter_changes(k) |-> tracked[c]]
  <2>f. those \in Revisions /\ DOMAIN those \subseteq Component /\ \A c \in DOMAIN those : those[c] = tracked[c]
    BY <1>t, FoundTyped DEF _filter_changes, Changed
  <2>u. UNCHANGED <<edited, tracked, obsolete, local, snapshot>>
    BY <1>6 DEF _get_changes, Org
  <2>o. \A j \in Command \ {k} : command'[j] = command[j]
    BY <1>6, <1>t DEF _get_changes, TrackingTypeOK
  <2>1. \A c \in Component :
          /\ declared'[c] \in {declared[c]} \cup (IF c \in DOMAIN those THEN {those[c]} ELSE {})
          /\ declared'[c] >= declared[c]
    BY <1>6, <1>t, <1>b, <2>f DEF _get_changes, TrackingTypeOK
  <2>2. Bounded'
    BY <1>b, <2>f, <2>u, <2>1 DEF TrackingInv, Bounded
  <2>3. \A c \in Component : Known(c) => Known(c)'
    BY <1>b, <2>u, <2>1, <2>2 DEF Known, Bounded
  <2>4. snapshot' # Torn => Recorded(snapshot)'
    BY <1>d, <1>s, <2>u, <2>3 DEF TrackingInv
  <2>5. CASE command'[k] = Idle
    <3>1. CommandRecords(k)'
      BY <2>5, NoneRecorded DEF CommandRecords, Idle, Recorded
    <3> QED BY <1>g, <2>u, <2>o, <2>2, <2>3, <2>4, <3>1
  <2>6. CASE command'[k] # Idle
    <3>1. /\ command'[k].loaded = command[k].loaded /\ command'[k].changes = those
          /\ command'[k].task = command[k].task /\ command'[k].snapshot = command[k].snapshot
          /\ command'[k].at # "write"
          /\ command'[k].at = "store" => command[k].task # "retrieve_changes" /\ command[k].snapshot
      <4>1. command'[k] \in
              {IF command[k].task = "snapshot_changes"
                 THEN [command[k] EXCEPT !.changes = those, !.at = IF those = None THEN "reset" ELSE "store"]
               ELSE IF command[k].task = "retrieve_changes"
                 THEN [command[k] EXCEPT !.changes = those, !.ignored = Changed(k) \cap command[k].exclude # {}, !.at = "retrieve"]
               ELSE [command[k] EXCEPT !.changes = those, !.at = "store"]}
        BY <1>6, <1>t, <2>6 DEF _get_changes, TrackingTypeOK
      <4>2. command[k].at = "query" /\ command[k] \in CommandState /\ (command[k].task = "snapshot_changes" => command[k].snapshot)
        BY <1>6, <1>t DEF _get_changes, TrackingTypeOK, TrackingInv, CommandRecords
      <4>3. command[k].task \notin {"snapshot_changes", "retrieve_changes"} => command[k].snapshot
        BY <1>6, <1>t, <2>6 DEF _get_changes, TrackingTypeOK
      <4> DEFINE some == Changed(k) \cap command[k].exclude # {}
      <4> HIDE DEF those, some
      <4>4. CASE command[k].task = "snapshot_changes"
        BY <4>1, <4>2, <4>4 DEF CommandState
      <4>5. CASE command[k].task = "retrieve_changes"
        <5>1. command'[k] = [command[k] EXCEPT !.changes = those, !.ignored = some, !.at = "retrieve"]
          BY <4>1, <4>5 DEF some
        <5> QED BY <5>1, <4>2, <4>5 DEF CommandState
      <4>6. CASE command[k].task \notin {"snapshot_changes", "retrieve_changes"}
        BY <4>1, <4>2, <4>3, <4>6 DEF CommandState
      <4> QED BY <4>4, <4>5, <4>6
    <3>2. Recorded(command[k].loaded)'
      BY <1>d, <1>s, <2>u, <2>3, <3>1 DEF TrackingInv, CommandRecords
    <3>3. \A c \in DOMAIN those : those[c] <= edited'[c]
      BY <2>f, <2>u DEF TrackingInv, Bounded
    <3>4. CASE command[k].task # "retrieve_changes" /\ command[k].snapshot
      <4>1. \A c \in DOMAIN those : declared'[c] >= those[c]
        BY <1>6, <1>b, <2>f, <3>4 DEF _get_changes
      <4>2. Recorded(command[k].changes)'
        BY <1>b, <2>f, <2>2, <3>1, <3>3, <4>1 DEF Recorded, Known, Bounded
      <4> QED BY <1>g, <2>u, <2>o, <2>2, <2>3, <2>4, <3>1, <3>2, <3>3, <4>2 DEF CommandRecords, TrackingInv
    <3> QED BY <1>g, <2>u, <2>o, <2>2, <2>3, <2>4, <3>1, <3>2, <3>3, <3>4 DEF CommandRecords, TrackingInv
  <2> QED BY <2>5, <2>6
<1>7. ASSUME NEW k \in Command, retrieve_components(k) PROVE TrackingInv'
  <2>u. UNCHANGED <<edited, tracked, obsolete, declared, snapshot>>
    BY <1>7 DEF retrieve_components, Org
  <2>o. \A j \in Command \ {k} : command'[j] = command[j]
    BY <1>7, <1>t DEF retrieve_components, TrackingTypeOK, Goes
  <2>1. \A c \in Component : local'[c] \in {local[c], edited[c]}
    BY <1>7, <1>t DEF retrieve_components, TrackingTypeOK
  <2>2. Bounded'
    BY <1>b, <2>u, <2>1 DEF TrackingInv, Bounded
  <2>3. \A c \in Component : Known(c) => Known(c)'
    BY <2>u, <2>1 DEF Known
  <2>4. snapshot' # Torn => Recorded(snapshot)'
    BY <1>d, <1>s, <2>u, <2>3 DEF TrackingInv
  <2>5. CASE command'[k] = Idle
    <3>1. CommandRecords(k)'
      BY <2>5, NoneRecorded DEF CommandRecords, Idle, Recorded
    <3> QED BY <1>g, <2>u, <2>o, <2>2, <2>3, <2>4, <3>1
  <2>6. CASE command'[k] # Idle
    <3>1. /\ command'[k].loaded = command[k].loaded /\ command'[k].changes = command[k].changes
          /\ command'[k].task = command[k].task /\ command'[k].snapshot = command[k].snapshot
          /\ local' = [c \in Component |-> IF c \in _write_manifest(k) \ obsolete THEN edited[c] ELSE local[c]]
      BY <1>7, <1>t, <2>6 DEF retrieve_components, TrackingTypeOK, CommandState, Goes
    <3>2. Recorded(command[k].loaded)'
      BY <1>d, <1>s, <2>u, <2>3, <3>1 DEF TrackingInv, CommandRecords
    <3>3. Recorded(command[k].changes)'
      BY <1>d, <1>f, <2>u, <3>1 DEF Recorded, Known, _write_manifest, TrackingInv, CommandRecords
    <3>4. CommandRecords(k)'
      BY <2>u, <3>1, <3>2, <3>3 DEF CommandRecords, TrackingInv
    <3> QED BY <1>g, <2>u, <2>o, <2>2, <2>3, <2>4, <3>4
  <2> QED BY <2>5, <2>6
<1>8. ASSUME NEW k \in Command, _open_for_writing(k) PROVE TrackingInv'
  <2>u. UNCHANGED <<edited, tracked, obsolete, local, declared>> /\ snapshot' = Torn
    BY <1>8 DEF _open_for_writing, Org
  <2>o. /\ command' = [command EXCEPT ![k].at = "write"] /\ command[k].at = "store"
        /\ \A j \in Command \ {k} : command'[j] = command[j]
    BY <1>8, <1>t DEF _open_for_writing, TrackingTypeOK, Goes
  <2>1. CommandRecords(k)'
    BY <1>t, <2>u, <2>o DEF CommandRecords, TrackingInv, Recorded, Known, TrackingTypeOK, CommandState
  <2>2. Bounded' /\ \A c \in Component : Known(c) => Known(c)'
    BY <2>u DEF TrackingInv, Bounded, Known
  <2> QED BY <1>g, <2>u, <2>o, <2>1, <2>2
<1>9. ASSUME NEW k \in Command, _store_snapshot(k) PROVE TrackingInv'
  <2>u. /\ UNCHANGED <<edited, tracked, obsolete, local, declared>>
        /\ snapshot' = Override(command[k].loaded, command[k].changes)
    BY <1>9 DEF _store_snapshot, Org
  <2>o. \A j \in Command \ {k} : command'[j] = command[j]
    BY <1>9, <1>t DEF _store_snapshot, TrackingTypeOK, Goes
  <2>1. Recorded(snapshot')
    BY <1>9, <2>u, OverrideRecorded DEF _store_snapshot, TrackingInv, CommandRecords
  <2>2. Recorded(snapshot)'
    BY <2>u, <2>1 DEF Recorded, Known
  <2>3. CommandRecords(k)'
    <3>1. CASE command'[k] = Idle
      BY <3>1, NoneRecorded DEF CommandRecords, Idle, Recorded
    <3>2. CASE command' = [command EXCEPT ![k].at = "reset"]
      BY <1>t, <2>u, <3>2 DEF CommandRecords, TrackingInv, Recorded, Known, TrackingTypeOK, CommandState
    <3> QED BY <1>9, <1>t, <3>1, <3>2 DEF _store_snapshot, Goes, TrackingTypeOK
  <2>4. Bounded' /\ \A c \in Component : Known(c) => Known(c)'
    BY <2>u DEF TrackingInv, Bounded, Known
  <2> QED BY <1>g, <2>u, <2>o, <2>2, <2>3, <2>4
<1>10. ASSUME NEW k \in Command, _reset_sfdx_snapshot(k) PROVE TrackingInv'
  <2>u. UNCHANGED <<edited, tracked, obsolete, local, snapshot>> /\ declared' \in {declared, edited}
    BY <1>10 DEF _reset_sfdx_snapshot, Org
  <2>o. command'[k] = Idle /\ \A j \in Command \ {k} : command'[j] = command[j]
    BY <1>10, <1>t DEF _reset_sfdx_snapshot, TrackingTypeOK
  <2>1. CommandRecords(k)'
    BY <2>o, NoneRecorded DEF CommandRecords, Idle, Recorded
  <2>2. Bounded' /\ \A c \in Component : Known(c) => Known(c)'
    BY <1>b, <2>u DEF TrackingInv, Bounded, Known
  <2>3. snapshot' # Torn => Recorded(snapshot)'
    BY <1>d, <1>s, <2>u, <2>2 DEF TrackingInv
  <2> QED BY <1>g, <2>u, <2>o, <2>1, <2>2, <2>3
<1>11. ASSUME NEW k \in Command, Kill(k) PROVE TrackingInv'
  <2>1. command'[k] = Idle /\ \A j \in Command \ {k} : command'[j] = command[j]
    BY <1>11, <1>t DEF Kill, TrackingTypeOK
  <2>2. CommandRecords(k)'
    BY <2>1, NoneRecorded DEF CommandRecords, Idle, Recorded
  <2> QED BY <1>11, <1>h, <2>1, <2>2 DEF Kill, Org
<1>12. CASE UNCHANGED trackingVars
  BY <1>12, <1>t DEF trackingVars, TrackingInv, Bounded, CommandRecords, Recorded, Known
<1> QED BY <1>1, <1>2, <1>3, <1>4, <1>5, <1>6, <1>7, <1>8, <1>9, <1>10, <1>11, <1>12 DEF TrackingNext

LEMMA TrackingInvImplies == TrackingInv => HiddenMeansKnown
BY DEF TrackingInv, HiddenMeansKnown, Recorded, Known

THEOREM TrackingSound == TrackingSpec => []TrackingIsSound
<1>1. TrackingSpec => []TrackingInv
  BY TrackingInvInit, TrackingInvStep, PTL DEF TrackingSpec
<1>2. TrackingInv => TrackingIsSound
  BY TrackingInvImplies DEF TrackingInv, TrackingIsSound
<1> QED BY <1>1, <1>2, PTL

-----------------------------------------------------------------------------
(* Publishing.                                                              *)

\* The files f are those of tag t, in a project with these commits and tags.
Holds(f, t, from, at) == \A p \in Include : ~p.dot => f[p] = from[at[t]][p]

\* What a task in state x relies on, by its step: the commits and tags of the
\* project, and the commits of the target.
TaskOK(x, from, at, there) ==
  /\ x.at \in {"verify", "ref", "tag", "release"} =>
       x.kind = "release" /\ x.tag \in ReleaseTag /\ x.commit \in 1..Len(from)
  /\ x.at \in {"download", "announce"} => x.kind = "publish" /\ x.tag \in ReleaseTag
  /\ x.at \in {"read", "head"} =>
       \/ x.kind = "docs"
       \/ x.kind = "publish" /\ x.tag \in ReleaseTag /\ at[x.tag] # 0 /\ Holds(x.files, x.tag, from, at)
  /\ x.at = "head" => x.base \in 1..Len(there)
  /\ x.at = "published" =>
       /\ x.kind = "publish" /\ x.tag \in ReleaseTag /\ x.commit \in 1..Len(there)
       /\ at[x.tag] # 0 /\ Holds(there[x.commit], x.tag, from, at)

\* The strengthening of TagsAgree: a tag is published of a tag that is there.
PublishInv ==
  /\ PublishTypeOK
  /\ Len(source) >= 1 /\ Len(target) >= 1
  /\ \A t \in ReleaseTag : targetTags[t] # 0 => tags[t] # 0 /\ Holds(target[targetTags[t]], t, source, tags)
  /\ \A k \in PubTask : TaskOK(pubTask[k], source, tags, target)

LEMMA RestTyped == Rest \in PubTaskState
BY DEF Rest, PubTaskState, Files, NoFiles

LEMMA FilesExcept ==
  ASSUME NEW f \in Files, NEW p, NEW v \in 0..2
  PROVE  [f EXCEPT ![p] = v] \in Files
BY DEF Files

LEMMA PublishInvInit == PublishInit => PublishInv
<1> SUFFICES ASSUME PublishInit PROVE PublishInv
  OBVIOUS
<1> DEFINE first == [NoFiles EXCEPT ![CHOOSE p \in Path : p \in Include /\ ~p.dot] = 1]
<1>1. first \in Files /\ NoFiles \in Files
  <2>1. NoFiles \in Files
    BY DEF NoFiles, Files
  <2>2. ASSUME NEW x PROVE [NoFiles EXCEPT ![x] = 1] \in Files
    <3>1. 1 \in 0..2
      OBVIOUS
    <3> QED BY <2>1, <3>1, FilesExcept, Zenon
  <2> QED BY <2>1, <2>2, Zenon
<1>2. /\ source \in Seq(Files) /\ Len(source) = 1
      /\ target \in Seq(Files) /\ Len(target) = 1
  <2> HIDE DEF first
  <2> QED BY <1>1 DEF PublishInit, first
<1>3. PublishTypeOK
  BY <1>2, RestTyped, PublishingAssumption DEF PublishInit, PublishTypeOK
<1>4. \A t \in ReleaseTag : targetTags[t] = 0
  BY DEF PublishInit
<1>5. \A k \in PubTask : TaskOK(pubTask[k], source, tags, target)
  BY DEF PublishInit, TaskOK, Rest
<1> QED BY <1>2, <1>3, <1>4, <1>5 DEF PublishInv

LEMMA AppendTo ==
  ASSUME NEW S, NEW s \in Seq(S), NEW x \in S
  PROVE  /\ Append(s, x) \in Seq(S) /\ Len(Append(s, x)) = Len(s) + 1
         /\ \A i \in 1..Len(s) : Append(s, x)[i] = s[i]
         /\ Append(s, x)[Len(s) + 1] = x
OBVIOUS

\* No step takes a commit away, or moves a tag of the project.
Grows ==
  /\ source' \in Seq(Files) /\ target' \in Seq(Files)
  /\ Len(source') >= Len(source) /\ \A i \in 1..Len(source) : source'[i] = source[i]
  /\ Len(target') >= Len(target) /\ \A i \in 1..Len(target) : target'[i] = target[i]
  /\ tags' \in [ReleaseTag -> 0..Len(source')] /\ \A t \in ReleaseTag : tags[t] # 0 => tags'[t] = tags[t]

LEMMA SameGrows ==
  ASSUME PublishInv, UNCHANGED <<source, tags, target>>
  PROVE  Grows
BY DEF PublishInv, PublishTypeOK, Grows

\* The next commits: whatever is committed, it is of files.
LEMMA DevelopGrows ==
  ASSUME PublishInv, NEW p \in Path, NEW v \in 0..1, Develop(p, v)
  PROVE  Grows
<1> DEFINE last == source[Len(source)]
           new == [last EXCEPT ![p] = v]
<1>1. source \in Seq(Files) /\ last \in Files /\ v \in 0..2
  BY DEF PublishInv, PublishTypeOK
<1>2. new \in Files
  BY <1>1, FilesExcept
<1>3. source' = Append(source, new) /\ UNCHANGED <<tags, target>>
  BY DEF Develop
<1> HIDE DEF new, last
<1>4. /\ source' \in Seq(Files) /\ Len(source') = Len(source) + 1
      /\ \A i \in 1..Len(source) : source'[i] = source[i]
  BY <1>1, <1>2, <1>3, AppendTo
<1> QED BY <1>1, <1>3, <1>4 DEF PublishInv, PublishTypeOK, Grows

LEMMA TargetGrows ==
  ASSUME PublishInv, NEW new \in Files, target' = Append(target, new), UNCHANGED <<source, tags>>
  PROVE  Grows
<1>1. target \in Seq(Files) /\ source \in Seq(Files)
  BY DEF PublishInv, PublishTypeOK
<1>2. /\ target' \in Seq(Files) /\ Len(target') = Len(target) + 1
      /\ \A i \in 1..Len(target) : target'[i] = target[i]
  BY <1>1, AppendTo
<1> QED BY <1>1, <1>2 DEF PublishInv, PublishTypeOK, Grows

LEMMA PushGrows ==
  ASSUME PublishInv, NEW p \in Path, NEW v \in 0..1, PushToTarget(p, v)
  PROVE  Grows
<1>1. Tip \in Files /\ v \in 0..2
  BY DEF PublishInv, PublishTypeOK, Tip
<1>2. [Tip EXCEPT ![p] = v] \in Files
  BY <1>1, FilesExcept
<1> QED BY <1>2, TargetGrows DEF PushToTarget

LEMMA TagGrows ==
  ASSUME PublishInv, NEW k \in PubTask, create_tag(k)
  PROVE  Grows
<1>1. pubTask[k].at = "tag" /\ pubTask[k].tag \in ReleaseTag /\ pubTask[k].commit \in 1..Len(source)
  BY DEF PublishInv, TaskOK, create_tag
<1> DEFINE t == pubTask[k].tag
           c == pubTask[k].commit
<1>2. tags' = IF tags[t] = 0 THEN [tags EXCEPT ![t] = c] ELSE tags
  BY DEF create_tag
<1>3. UNCHANGED <<source, target>>
  BY DEF create_tag
<1>4. tags \in [ReleaseTag -> 0..Len(source)] /\ source \in Seq(Files) /\ target \in Seq(Files)
  BY DEF PublishInv, PublishTypeOK
<1> HIDE DEF t, c
<1>5. t \in ReleaseTag /\ c \in 0..Len(source)
  BY <1>1, <1>4 DEF t, c
<1> QED BY <1>2, <1>3, <1>4, <1>5 DEF Grows

\* The files a task commits are files.
LEMMA TreeTyped ==
  ASSUME PublishInv, NEW k \in PubTask, NEW base \in Files
  PROVE  NewTree(k, base) \in Files
<1>1. pubTask[k].files \in Files
  BY DEF PublishInv, PublishTypeOK, PubTaskState
<1>2. \A p \in Path : Local(k, p) \in 0..2 /\ base[p] \in 0..2
  BY <1>1 DEF Local, Files
<1>3. \A p \in Path : _create_new_tree_item(k, p, base[p]) \in 0..2 /\ _add_new_files_to_tree(k, p, base[p]) \in 0..2
  BY <1>2 DEF _create_new_tree_item, _add_new_files_to_tree
<1> QED BY <1>2, <1>3 DEF NewTree, Files

LEMMA HeadGrows ==
  ASSUME PublishInv, NEW k \in PubTask, _update_head(k)
  PROVE  Grows
<1> DEFINE base == pubTask[k].base
           tree == NewTree(k, target[base])
<1>1. base \in 1..Len(target)
  BY DEF PublishInv, TaskOK, _update_head
<1>2. target[base] \in Files
  BY <1>1 DEF PublishInv, PublishTypeOK
<1>3. tree \in Files
  BY <1>2, TreeTyped
<1>4. (target' = target \/ target' = Append(target, tree)) /\ UNCHANGED <<source, tags>>
  BY DEF _update_head
<1> HIDE DEF tree
<1> QED BY <1>3, <1>4, SameGrows, TargetGrows

LEMMA PublishGrows ==
  ASSUME PublishInv, PublishNext
  PROVE  Grows
<1>1. CASE \E p \in Path, v \in 0..1 : Develop(p, v) \/ PushToTarget(p, v)
  BY <1>1, DevelopGrows, PushGrows
<1>2. CASE \E k \in PubTask : create_tag(k) \/ _update_head(k)
  BY <1>2, TagGrows, HeadGrows
<1>3. CASE UNCHANGED <<source, tags, target>>
  BY <1>3, SameGrows
<1> QED
  BY <1>1, <1>2, <1>3
  DEF PublishNext, StartPublish, StartRelease, _verify_release, get_ref_for_tag, create_release, StartDocs,
      _download_repo_and_extract, _set_git_data, _create_release, ReleaseInTarget, KillTask

\* What holds the files of a tag goes on holding them.
LEMMA HoldsStays ==
  ASSUME PublishInv, Grows, NEW f, NEW t \in ReleaseTag, tags[t] # 0, Holds(f, t, source, tags)
  PROVE  tags'[t] # 0 /\ Holds(f, t, source', tags')
<1>1. tags[t] \in 1..Len(source) /\ tags'[t] = tags[t]
  BY DEF PublishInv, PublishTypeOK, Grows
<1>2. source'[tags'[t]] = source[tags[t]]
  BY <1>1 DEF Grows
<1> QED BY <1>1, <1>2 DEF Holds

\* No step takes away what a task relies on.
LEMMA TaskStays ==
  ASSUME PublishInv, Grows, NEW x \in PubTaskState, TaskOK(x, source, tags, target)
  PROVE  TaskOK(x, source', tags', target')
<1>1. Len(source) \in Nat /\ Len(target) \in Nat /\ Len(source') \in Nat /\ Len(target') \in Nat
  BY DEF PublishInv, PublishTypeOK, Grows
<1>2. /\ x.at \in {"verify", "ref", "tag", "release"} =>
           x.kind = "release" /\ x.tag \in ReleaseTag /\ x.commit \in 1..Len(source')
      /\ x.at \in {"download", "announce"} => x.kind = "publish" /\ x.tag \in ReleaseTag
      /\ x.at = "head" => x.base \in 1..Len(target')
  BY <1>1 DEF TaskOK, Grows
<1>3. x.at \in {"read", "head"} =>
       \/ x.kind = "docs"
       \/ x.kind = "publish" /\ x.tag \in ReleaseTag /\ tags'[x.tag] # 0 /\ Holds(x.files, x.tag, source', tags')
  BY HoldsStays DEF TaskOK
<1>4. ASSUME x.at = "published"
      PROVE  /\ x.kind = "publish" /\ x.tag \in ReleaseTag /\ x.commit \in 1..Len(target')
             /\ tags'[x.tag] # 0 /\ Holds(target'[x.commit], x.tag, source', tags')
  <2>1. /\ x.kind = "publish" /\ x.tag \in ReleaseTag /\ x.commit \in 1..Len(target)
        /\ tags[x.tag] # 0 /\ Holds(target[x.commit], x.tag, source, tags)
    BY <1>4 DEF TaskOK
  <2>2. target'[x.commit] = target[x.commit] /\ x.commit \in 1..Len(target')
    BY <1>1, <2>1 DEF Grows
  <2> QED BY <2>1, <2>2, HoldsStays
<1> QED BY <1>2, <1>3, <1>4 DEF TaskOK

TasksGoOn ==
  /\ pubTask' \in [PubTask -> PubTaskState]
  /\ \A k \in PubTask : TaskOK(pubTask'[k], source', tags', target')

\* A step of task j alone: it goes to the state y.
LEMMA TaskMoves ==
  ASSUME PublishInv, Grows, NEW j \in PubTask, NEW y \in PubTaskState,
         pubTask' = [pubTask EXCEPT ![j] = y], TaskOK(y, source', tags', target')
  PROVE  TasksGoOn
<1>1. pubTask \in [PubTask -> PubTaskState]
  BY DEF PublishInv, PublishTypeOK
<1>2. ASSUME NEW k \in PubTask PROVE TaskOK(pubTask'[k], source', tags', target')
  <2>1. CASE k = j
    BY <1>1, <2>1
  <2>2. CASE k # j
    <3>1. pubTask'[k] = pubTask[k] /\ pubTask[k] \in PubTaskState /\ TaskOK(pubTask[k], source, tags, target)
      BY <1>1, <2>2 DEF PublishInv
    <3> QED BY <3>1, TaskStays
  <2> QED BY <2>1, <2>2
<1> QED BY <1>1, <1>2 DEF TasksGoOn

LEMMA TaskEnds ==
  ASSUME PublishInv, Grows, NEW j \in PubTask, Ends(j)
  PROVE  TasksGoOn
<1>1. TaskOK(Rest, source', tags', target')
  BY DEF Rest, TaskOK
<1> QED BY <1>1, RestTyped, TaskMoves DEF Ends

\* Tasks that release.
LEMMA ReleaserStep ==
  ASSUME PublishInv, Grows, NEW j \in PubTask,
         \/ \E t \in ReleaseTag, c \in DOMAIN source : StartRelease(j, t, c)
         \/ _verify_release(j) \/ get_ref_for_tag(j) \/ create_tag(j) \/ create_release(j)
  PROVE  TasksGoOn
<1> DEFINE x == pubTask[j]
<1>0. x \in PubTaskState /\ TaskOK(x, source, tags, target) /\ source \in Seq(Files) /\ source' \in Seq(Files)
  BY DEF PublishInv, PublishTypeOK, Grows
<1>1. CASE \E t \in ReleaseTag, c \in DOMAIN source : StartRelease(j, t, c)
  <2> PICK t \in ReleaseTag, c \in DOMAIN source : StartRelease(j, t, c)
    BY <1>1
  <2> DEFINE y == [Rest EXCEPT !.kind = "release", !.at = "verify", !.tag = t, !.commit = c]
  <2>0. c \in 1..Len(source) /\ c \in Nat
    BY <1>0
  <2>1. y \in PubTaskState /\ y.at = "verify" /\ y.kind = "release" /\ y.tag = t /\ y.commit = c
    BY <2>0, RestTyped DEF PubTaskState
  <2>2. c \in 1..Len(source')
    BY <1>0 DEF Grows
  <2>3. TaskOK(y, source', tags', target')
    BY <2>1, <2>2 DEF TaskOK
  <2> QED BY <2>1, <2>3, TaskMoves DEF StartRelease
<1>2. ASSUME NEW at \in {"ref", "tag", "release"}, x.at \in {"verify", "ref", "tag"}, Becomes(j, at)
      PROVE  TasksGoOn
  <2> DEFINE y == [x EXCEPT !.at = at]
  <2>1. y \in PubTaskState /\ y.at = at /\ y.kind = x.kind /\ y.tag = x.tag /\ y.commit = x.commit
    BY <1>0 DEF PubTaskState
  <2>2. x.kind = "release" /\ x.tag \in ReleaseTag /\ x.commit \in 1..Len(source')
    BY <1>0, <1>2 DEF TaskOK, Grows
  <2>3. TaskOK(y, source', tags', target')
    BY <2>1, <2>2 DEF TaskOK
  <2>4. pubTask' = [pubTask EXCEPT ![j] = y]
    BY <1>2 DEF Becomes
  <2> QED BY <2>1, <2>3, <2>4, TaskMoves
<1> QED
  BY <1>1, <1>2, TaskEnds DEF _verify_release, get_ref_for_tag, create_tag, create_release

\* Tasks that commit files, up to the moving of the branch.
LEMMA CommitterStep ==
  ASSUME PublishInv, Grows, NEW j \in PubTask,
         \/ \E t \in ReleaseTag : StartPublish(j, t)
         \/ \E p \in Path : StartDocs(j, p)
         \/ _download_repo_and_extract(j) \/ _set_git_data(j)
  PROVE  TasksGoOn
<1> DEFINE x == pubTask[j]
<1>0. x \in PubTaskState /\ TaskOK(x, source, tags, target) /\ source \in Seq(Files) /\ target \in Seq(Files)
      /\ Len(target) >= 1 /\ pubTask \in [PubTask -> PubTaskState]
  BY DEF PublishInv, PublishTypeOK, Grows
<1>1. CASE \E t \in ReleaseTag : StartPublish(j, t)
  <2> PICK t \in ReleaseTag : StartPublish(j, t)
    BY <1>1
  <2> DEFINE y == [Rest EXCEPT !.kind = "publish", !.at = "download", !.tag = t]
  <2>1. y \in PubTaskState /\ y.at = "download" /\ y.kind = "publish" /\ y.tag = t
    BY RestTyped DEF PubTaskState
  <2>3. TaskOK(y, source', tags', target')
    BY <2>1 DEF TaskOK
  <2> QED BY <2>1, <2>3, TaskMoves DEF StartPublish
<1>2. CASE \E p \in Path : StartDocs(j, p)
  <2> PICK p \in Path : StartDocs(j, p)
    BY <1>2
  <2> DEFINE y == [Rest EXCEPT !.kind = "docs", !.at = "read", !.files[p] = 2]
  <2>0. [NoFiles EXCEPT ![p] = 2] \in Files
    <3>1. NoFiles \in Files /\ 2 \in 0..2
      BY DEF NoFiles, Files
    <3> QED BY <3>1, FilesExcept
  <2>1. y \in PubTaskState /\ y.at = "read" /\ y.kind = "docs"
    BY <2>0 DEF PubTaskState, Rest
  <2>3. TaskOK(y, source', tags', target')
    BY <2>1 DEF TaskOK
  <2> QED BY <2>1, <2>3, TaskMoves DEF StartDocs
<1>3. CASE _download_repo_and_extract(j) /\ tags[x.tag] # 0
  <2> DEFINE files == [p \in Path |-> IF p \in Include THEN source[tags[x.tag]][p] ELSE 0]
             y == [x EXCEPT !.files = files, !.at = "read"]
  <2>1. x.kind = "publish" /\ x.tag \in ReleaseTag
    BY <1>0, <1>3 DEF TaskOK, _download_repo_and_extract
  <2>2. tags[x.tag] \in 1..Len(source)
    BY <1>3, <2>1 DEF PublishInv, PublishTypeOK
  <2>3. source[tags[x.tag]] \in Files
    BY <1>0, <2>2
  <2>4. files \in Files
    BY <2>3 DEF Files
  <2>5. Holds(files, x.tag, source, tags)
    BY PublishingAssumption DEF Holds
  <2>6. pubTask' = [pubTask EXCEPT ![j] = y]
    BY <1>3 DEF _download_repo_and_extract
  <2> HIDE DEF files
  <2>7. y \in PubTaskState /\ y.at = "read" /\ y.kind = "publish" /\ y.tag = x.tag /\ y.files = files
    BY <1>0, <2>1, <2>4 DEF PubTaskState
  <2>8. Holds(files, x.tag, source', tags') /\ tags'[x.tag] # 0
    BY <1>3, <2>1, <2>5, HoldsStays
  <2>9. TaskOK(y, source', tags', target')
    BY <2>1, <2>7, <2>8 DEF TaskOK
  <2> QED BY <2>6, <2>7, <2>9, TaskMoves
<1>4. CASE _set_git_data(j)
  <2> DEFINE y == [x EXCEPT !.base = Len(target), !.at = "head"]
  <2>1. /\ y \in PubTaskState /\ y.at = "head" /\ y.kind = x.kind /\ y.tag = x.tag
        /\ y.files = x.files /\ y.base = Len(target)
    <3>1. Len(target) \in Nat
      BY <1>0
    <3> QED BY <1>0, <3>1 DEF PubTaskState
  <2>2. \/ x.kind = "docs"
        \/ x.kind = "publish" /\ x.tag \in ReleaseTag /\ tags'[x.tag] # 0 /\ Holds(x.files, x.tag, source', tags')
    <3>1. \/ x.kind = "docs"
          \/ x.kind = "publish" /\ x.tag \in ReleaseTag /\ tags[x.tag] # 0 /\ Holds(x.files, x.tag, source, tags)
      BY <1>0, <1>4 DEF TaskOK, _set_git_data
    <3> HIDE DEF x
    <3> QED BY <3>1, HoldsStays
  <2>3. Len(target) \in 1..Len(target')
    BY <1>0 DEF Grows
  <2>4. TaskOK(y, source', tags', target')
    BY <2>1, <2>2, <2>3 DEF TaskOK
  <2>5. pubTask' = [pubTask EXCEPT ![j] = y]
    BY <1>4 DEF _set_git_data
  <2> QED BY <2>1, <2>4, <2>5, TaskMoves
<1> QED
  BY <1>1, <1>2, <1>3, <1>4, TaskEnds DEF _download_repo_and_extract

\* The commit: it holds, of what is not hidden, what the task has.
LEMMA TreeHolds ==
  ASSUME PublishInv, NEW j \in PubTask, NEW base \in Files, pubTask[j].kind = "publish"
  PROVE  \A p \in Include : ~p.dot => NewTree(j, base)[p] = pubTask[j].files[p]
BY PublishingAssumption DEF NewTree, _create_new_tree_item, _add_new_files_to_tree, InDir, Local

LEMMA HeadStep ==
  ASSUME PublishInv, Grows, NEW j \in PubTask, _update_head(j)
  PROVE  TasksGoOn
<1> DEFINE x == pubTask[j]
           base == x.base
           tree == NewTree(j, target[base])
           same == tree = target[base]
           commit == IF same THEN base ELSE base + 1
           y == [x EXCEPT !.commit = commit, !.at = "published"]
<1>1. x \in PubTaskState /\ TaskOK(x, source, tags, target) /\ x.at = "head" /\ target \in Seq(Files)
  BY DEF PublishInv, PublishTypeOK, _update_head
<1>2. base \in 1..Len(target)
  BY <1>1 DEF TaskOK
<1>3. target[base] \in Files
  BY <1>1, <1>2
<1>4. tree \in Files
  BY <1>3, TreeTyped
<1>5. CASE pubTask' = [pubTask EXCEPT ![j] = Rest]
  BY <1>5, TaskEnds DEF Ends
<1>6. CASE /\ x.kind # "docs" /\ (same \/ Len(target) = base) /\ pubTask' = [pubTask EXCEPT ![j] = y]
           /\ target' = IF same THEN target ELSE Append(target, tree)
  <2>1. x.kind = "publish" /\ x.tag \in ReleaseTag /\ tags[x.tag] # 0 /\ Holds(x.files, x.tag, source, tags)
    BY <1>1, <1>6 DEF TaskOK
  <2>2. Holds(tree, x.tag, source, tags)
    BY <1>3, <2>1, TreeHolds DEF Holds
  <2>3. Holds(tree, x.tag, source', tags') /\ tags'[x.tag] # 0
    BY <2>1, <2>2, HoldsStays
  <2>4. commit \in 1..Len(target') /\ target'[commit] = tree
    <3>1. CASE same
      BY <1>2, <1>6, <3>1
    <3>2. CASE ~same
      <4>1. target' = Append(target, tree) /\ commit = Len(target) + 1
        BY <1>6, <3>2
      <4> HIDE DEF tree, commit
      <4> QED BY <1>1, <1>4, <4>1, AppendTo
    <3> QED BY <3>1, <3>2
  <2>5. y \in PubTaskState /\ y.at = "published" /\ y.kind = "publish" /\ y.tag = x.tag /\ y.commit = commit
    <3>1. commit \in Nat
      BY <1>2
    <3> HIDE DEF commit
    <3> QED BY <1>1, <2>1, <3>1 DEF PubTaskState
  <2>6. TaskOK(y, source', tags', target')
    <3> HIDE DEF tree, commit, y
    <3> QED BY <2>1, <2>3, <2>4, <2>5 DEF TaskOK
  <2> QED BY <1>6, <2>5, <2>6, TaskMoves
<1>7. pubTask \in [PubTask -> PubTaskState]
  BY DEF PublishInv, PublishTypeOK
<1> QED BY <1>5, <1>6 DEF _update_head

LEMMA AnnouncerStep ==
  ASSUME PublishInv, Grows, NEW j \in PubTask, _create_release(j) \/ ReleaseInTarget(j) \/ KillTask(j)
  PROVE  TasksGoOn
<1> DEFINE x == pubTask[j]
           y == [x EXCEPT !.at = "announce"]
<1>1. CASE _create_release(j) /\ Becomes(j, "announce")
  <2>1. x \in PubTaskState /\ x.kind = "publish" /\ x.tag \in ReleaseTag
    BY <1>1 DEF PublishInv, PublishTypeOK, TaskOK, _create_release
  <2>2. y \in PubTaskState /\ y.at = "announce" /\ y.kind = x.kind /\ y.tag = x.tag
    BY <2>1 DEF PubTaskState
  <2>3. TaskOK(y, source', tags', target')
    BY <2>1, <2>2 DEF TaskOK
  <2> QED BY <1>1, <2>2, <2>3, TaskMoves DEF Becomes
<1> QED BY <1>1, TaskEnds DEF _create_release, ReleaseInTarget, KillTask

\* People push, no task moves.
LEMMA PeopleStep ==
  ASSUME PublishInv, Grows, UNCHANGED pubTask
  PROVE  TasksGoOn
BY TaskStays DEF PublishInv, PublishTypeOK, TasksGoOn

\* What is published of a tag is put there by a task that has just committed it.
LEMMA PublishedStep ==
  ASSUME PublishInv, Grows, PublishNext
  PROVE  /\ targetTags' \in [ReleaseTag -> 0..Len(target')]
         /\ \A t \in ReleaseTag : targetTags'[t] # 0 =>
              tags'[t] # 0 /\ Holds(target'[targetTags'[t]], t, source', tags')
<1>1. /\ targetTags \in [ReleaseTag -> 0..Len(target)] /\ target \in Seq(Files)
      /\ Len(target) \in Nat /\ Len(target') \in Nat /\ Len(target') >= Len(target)
  BY DEF PublishInv, PublishTypeOK, Grows
<1>2. ASSUME NEW t \in ReleaseTag, NEW c \in 1..Len(target), tags[t] # 0, Holds(target[c], t, source, tags)
      PROVE  c \in 0..Len(target') /\ tags'[t] # 0 /\ Holds(target'[c], t, source', tags')
  <2>1. target'[c] = target[c] /\ c \in 0..Len(target')
    BY <1>1 DEF Grows
  <2> QED BY <1>2, <2>1, HoldsStays
<1>3. ASSUME NEW t \in ReleaseTag, targetTags'[t] = targetTags[t], targetTags[t] # 0
      PROVE  tags'[t] # 0 /\ Holds(target'[targetTags[t]], t, source', tags')
  <2>1. targetTags[t] \in 1..Len(target)
    BY <1>1, <1>3
  <2>2. tags[t] # 0 /\ Holds(target[targetTags[t]], t, source, tags)
    BY <1>3 DEF PublishInv
  <2> QED BY <1>2, <2>1, <2>2
<1>4. CASE UNCHANGED targetTags
  BY <1>1, <1>3, <1>4
<1>5. ASSUME NEW k \in PubTask, _create_release(k), targetTags' # targetTags
      PROVE  /\ targetTags' \in [ReleaseTag -> 0..Len(target')]
             /\ \A t \in ReleaseTag : targetTags'[t] # 0 =>
                  tags'[t] # 0 /\ Holds(target'[targetTags'[t]], t, source', tags')
  <2> DEFINE x == pubTask[k]
             s == x.tag
             c == x.commit
  <2>1. /\ s \in ReleaseTag /\ c \in 1..Len(target)
        /\ tags[s] # 0 /\ Holds(target[c], s, source, tags)
    BY <1>5 DEF PublishInv, TaskOK, _create_release
  <2>2. targetTags' = [targetTags EXCEPT ![s] = c]
    BY <1>5 DEF _create_release
  <2> HIDE DEF s, c
  <2>3. c \in 0..Len(target') /\ tags'[s] # 0 /\ Holds(target'[c], s, source', tags')
    BY <1>2, <2>1
  <2>4. targetTags' \in [ReleaseTag -> 0..Len(target')]
    BY <1>1, <2>1, <2>2, <2>3
  <2>5. targetTags'[s] = c
    BY <1>1, <2>1, <2>2
  <2>6. ASSUME NEW t \in ReleaseTag, targetTags'[t] # 0, t # s
        PROVE  tags'[t] # 0 /\ Holds(target'[targetTags'[t]], t, source', tags')
    <3>1. targetTags'[t] = targetTags[t]
      BY <1>1, <2>2, <2>6
    <3> QED BY <1>3, <2>6, <3>1
  <2> QED BY <2>3, <2>4, <2>5, <2>6
<1> QED
  BY <1>4, <1>5
  DEF PublishNext, Develop, PushToTarget, StartPublish, StartRelease, _verify_release, get_ref_for_tag, create_tag,
      create_release, StartDocs, _download_repo_and_extract, _set_git_data, _update_head, ReleaseInTarget, KillTask

LEMMA PublishTasksStep ==
  ASSUME PublishInv, Grows, PublishNext
  PROVE  TasksGoOn
BY PeopleStep, ReleaserStep, CommitterStep, HeadStep, AnnouncerStep
DEF PublishNext, Develop, PushToTarget

\* The releases are of tags, and what is left of a kill is counted.
LEMMA ReleasesStep ==
  ASSUME PublishInv, PublishNext
  PROVE  releases' \subseteq ReleaseTag /\ targetReleases' \subseteq ReleaseTag /\ kills' \in 0..MaxKills
<1>1. /\ releases \subseteq ReleaseTag /\ targetReleases \subseteq ReleaseTag /\ kills \in 0..MaxKills
      /\ MaxKills \in Nat
  BY PublishingAssumption DEF PublishInv, PublishTypeOK
<1>2. CASE UNCHANGED <<releases, targetReleases, kills>>
  BY <1>1, <1>2
<1>3. ASSUME NEW k \in PubTask, create_release(k) \/ ReleaseInTarget(k)
      PROVE  pubTask[k].tag \in ReleaseTag
  BY <1>3 DEF PublishInv, TaskOK, create_release, ReleaseInTarget
<1>4. CASE \E k \in PubTask : create_release(k) \/ ReleaseInTarget(k)
  BY <1>1, <1>3, <1>4 DEF create_release, ReleaseInTarget
<1>5. CASE \E k \in PubTask : KillTask(k)
  BY <1>1, <1>5 DEF KillTask
<1> QED
  BY <1>2, <1>4, <1>5
  DEF PublishNext, Develop, PushToTarget, StartPublish, StartRelease, _verify_release, get_ref_for_tag, create_tag,
      StartDocs, _download_repo_and_extract, _set_git_data, _update_head, _create_release

LEMMA PublishInvStep == PublishInv /\ [PublishNext]_pubVars => PublishInv'
<1>1. ASSUME PublishInv, PublishNext PROVE PublishInv'
  <2>1. Grows
    BY <1>1, PublishGrows
  <2>2. TasksGoOn
    BY <1>1, <2>1, PublishTasksStep
  <2>3. /\ targetTags' \in [ReleaseTag -> 0..Len(target')]
        /\ \A t \in ReleaseTag : targetTags'[t] # 0 =>
             tags'[t] # 0 /\ Holds(target'[targetTags'[t]], t, source', tags')
    BY <1>1, <2>1, PublishedStep
  <2>4. PublishTypeOK'
    BY <1>1, <2>1, <2>2, <2>3, ReleasesStep DEF PublishTypeOK, Grows, TasksGoOn
  <2>5. Len(source') >= 1 /\ Len(target') >= 1
    BY <1>1, <2>1 DEF PublishInv, PublishTypeOK, Grows
  <2> QED BY <2>2, <2>3, <2>4, <2>5 DEF PublishInv, TasksGoOn
<1>2. ASSUME PublishInv, UNCHANGED pubVars PROVE PublishInv'
  BY <1>2 DEF PublishInv, PublishTypeOK, pubVars
<1> QED BY <1>1, <1>2

LEMMA PublishInvImplies == PublishInv => PublishTypeOK /\ TagsAgree
BY DEF PublishInv, TagsAgree, Holds

\* A published tag stands for the files of the tag of the project.
THEOREM PublishedAgrees == PublishSpec => [](PublishTypeOK /\ TagsAgree)
<1>1. PublishSpec => []PublishInv
  BY PublishInvInit, PublishInvStep, PTL DEF PublishSpec
<1> QED BY <1>1, PublishInvImplies, PTL

\* The two ways the state of a task that is about to move the branch can change.
LEMMA HeadMoves ==
  ASSUME PublishInv, PublishNext, NEW k \in PubTask, pubTask[k].at = "head", pubTask'[k] # pubTask[k]
  PROVE  _update_head(k) \/ KillTask(k)
<1>1. pubTask \in [PubTask -> PubTaskState]
  BY DEF PublishInv, PublishTypeOK
<1>2. pubTask[k] # Rest
  BY DEF Rest
<1>3. PICK j \in PubTask :
        \/ \E t \in ReleaseTag : StartPublish(j, t) \/ \E c \in DOMAIN source : StartRelease(j, t, c)
        \/ _verify_release(j) \/ get_ref_for_tag(j) \/ create_tag(j) \/ create_release(j)
        \/ _download_repo_and_extract(j) \/ (\E p \in Path : StartDocs(j, p))
        \/ _set_git_data(j) \/ _update_head(j) \/ _create_release(j) \/ ReleaseInTarget(j) \/ KillTask(j)
  BY DEF PublishNext, Develop, PushToTarget
<1>4. j = k
  <2>1. \A y : (pubTask' = [pubTask EXCEPT ![j] = y]) => j = k
    BY <1>1
  <2> QED
    BY <1>3, <2>1
    DEF StartPublish, StartRelease, _verify_release, get_ref_for_tag, create_tag, create_release, StartDocs, Ends, Becomes,
        _download_repo_and_extract, _set_git_data, _update_head, _create_release, ReleaseInTarget, KillTask
<1> QED
  BY <1>2, <1>3, <1>4
  DEF StartPublish, StartRelease, _verify_release, get_ref_for_tag, create_tag, create_release, StartDocs,
      _download_repo_and_extract, _set_git_data, _create_release, ReleaseInTarget

\* What the new tree holds outside the directory of the task is what was there.
LEMMA OutsideStays ==
  ASSUME PublishInv, NEW k \in PubTask, NEW base \in Files, NEW p \in Path, ~InDir(k, p)
  PROVE  NewTree(k, base)[p] = base[p]
BY PublishingAssumption DEF NewTree, _create_new_tree_item, _add_new_files_to_tree, InDir, Local

LEMMA OthersWorkStep ==
  ASSUME PublishInv, PublishNext, NEW k \in PubTask, NEW p \in Path,
         pubTask[k].at = "head", pubTask'[k] # pubTask[k],
         Tip[p] # target[pubTask[k].base][p] \/ ~InDir(k, p)
  PROVE  target'[Len(target')][p] = Tip[p]
<1> DEFINE base == pubTask[k].base
           tree == NewTree(k, target[base])
<1>1. base \in 1..Len(target) /\ target \in Seq(Files)
  BY DEF PublishInv, PublishTypeOK, TaskOK
<1>2. CASE KillTask(k)
  BY <1>2 DEF KillTask, Tip
<1>3. CASE _update_head(k)
  <2>1. target' = target \/ (Len(target) = base /\ target' = Append(target, tree))
    BY <1>3 DEF _update_head
  <2>2. CASE target' = target
    BY <2>2 DEF Tip
  <2>3. CASE Len(target) = base /\ target' = Append(target, tree)
    <3>1. target[base] \in Files
      BY <1>1
    <3>0. ~InDir(k, p)
      BY <2>3 DEF Tip
    <3>2. tree \in Files /\ tree[p] = target[base][p]
      BY <3>0, <3>1, TreeTyped, OutsideStays
    <3> HIDE DEF tree
    <3>3. target'[Len(target')] = tree
      BY <1>1, <2>3, <3>2, AppendTo
    <3> QED BY <2>3, <3>2, <3>3 DEF Tip
  <2> QED BY <2>1, <2>2, <2>3
<1> QED BY <1>2, <1>3, HeadMoves

\* What was pushed since the task has read the branch stays, and so does all that is
\* outside its directory.
THEOREM OthersWorkIsLeft == PublishSpec => OthersWorkStays
<1>1. PublishSpec => []PublishInv
  BY PublishInvInit, PublishInvStep, PTL DEF PublishSpec
<1>2. PublishInv /\ [PublishNext]_pubVars =>
        [\A k \in PubTask, p \in Path :
           /\ pubTask[k].at = "head" /\ pubTask'[k] # pubTask[k]
           /\ Tip[p] # target[pubTask[k].base][p] \/ ~InDir(k, p)
           => target'[Len(target')][p] = Tip[p]]_pubVars
  BY OthersWorkStep
<1> QED BY <1>1, <1>2, PTL DEF PublishSpec, OthersWorkStays

-----------------------------------------------------------------------------
(* Promotion.                                                               *)

\* What a task relies on: what it has not promoted itself, of what its package
\* needs, is promoted.
PromoterOK(x, done) ==
  LET needs == Needs[x.package] IN
  /\ x.at # "off" => x.package \in PackageNames
  /\ x.at = "promote" =>
       /\ x.toPromote \subseteq DOMAIN needs
       /\ \A i \in DOMAIN needs : IF needs[i] \in SecondGen THEN needs[i] \in done \/ i \in x.toPromote ELSE i \notin x.toPromote
  /\ x.at = "itself" => \A i \in DOMAIN needs : needs[i] \in SecondGen => needs[i] \in done

PromotionInv ==
  /\ PromotionTypeOK /\ DependenciesPromotedFirst
  /\ \A k \in Promoter : PromoterOK(promoter[k], promoted)

LEMMA PromotionInvInit == PromotionInit => PromotionInv
<1> SUFFICES ASSUME PromotionInit PROVE PromotionInv
  OBVIOUS
<1>1. Off \in PromoterState /\ Off.at = "off"
  BY DEF Off, PromoterState
<1>2. PromotionTypeOK
  BY <1>1, PromotionAssumption DEF PromotionInit, PromotionTypeOK
<1> QED BY <1>1, <1>2 DEF PromotionInit, PromotionInv, PromoterOK, DependenciesPromotedFirst

\* Nothing that is promoted becomes unpromoted, so the other tasks go on.
LEMMA PromoterMoves ==
  ASSUME PromotionInv, NEW j \in Promoter, NEW y \in PromoterState, promoter' = [promoter EXCEPT ![j] = y],
         promoted \subseteq promoted', PromoterOK(y, promoted')
  PROVE  /\ promoter' \in [Promoter -> PromoterState]
         /\ \A k \in Promoter : PromoterOK(promoter'[k], promoted')
<1>1. promoter \in [Promoter -> PromoterState]
  BY DEF PromotionInv, PromotionTypeOK
<1>2. ASSUME NEW k \in Promoter, k # j PROVE PromoterOK(promoter'[k], promoted')
  <2>1. promoter'[k] = promoter[k] /\ PromoterOK(promoter[k], promoted)
    BY <1>1, <1>2 DEF PromotionInv
  <2> QED BY <2>1 DEF PromoterOK
<1> QED BY <1>1, <1>2

LEMMA PromoterEnds ==
  ASSUME PromotionInv, NEW j \in Promoter, promoter' = [promoter EXCEPT ![j] = Off], promoted \subseteq promoted'
  PROVE  /\ promoter' \in [Promoter -> PromoterState]
         /\ \A k \in Promoter : PromoterOK(promoter'[k], promoted')
<1>1. Off \in PromoterState /\ PromoterOK(Off, promoted')
  BY DEF Off, PromoterState, PromoterOK
<1> QED BY <1>1, PromoterMoves

\* A package whose dependencies are promoted may be promoted.
LEMMA MayBePromoted ==
  ASSUME PromotionInv, NEW p \in SecondGen, promoted' \in {promoted, promoted \cup {p}},
         \A d \in ToSet(Needs[p]) : d \in SecondGen => d \in promoted
  PROVE  promoted' \subseteq SecondGen /\ DependenciesPromotedFirst'
BY DEF PromotionInv, PromotionTypeOK, DependenciesPromotedFirst

LEMMA NeededBefore ==
  ASSUME NEW p \in PackageNames, NEW i \in DOMAIN Needs[p], NEW d \in ToSet(Needs[Needs[p][i]])
  PROVE  \E j \in DOMAIN Needs[p] : j < i /\ Needs[p][j] = d
BY PromotionAssumption

\* What comes first in what is left to promote needs nothing that is left.
LEMMA FirstMayBePromoted ==
  ASSUME PromotionInv, NEW k \in Promoter, promoter[k].at = "promote", NEW i \in promoter[k].toPromote,
         \A j \in promoter[k].toPromote : i <= j
  PROVE  /\ Needs[promoter[k].package][i] \in SecondGen
         /\ \A d \in ToSet(Needs[Needs[promoter[k].package][i]]) : d \in SecondGen => d \in promoted
<1> DEFINE x == promoter[k]
           needs == Needs[x.package]
<1>1. /\ x.package \in PackageNames /\ x.toPromote \subseteq DOMAIN needs
      /\ \A j \in DOMAIN needs : IF needs[j] \in SecondGen THEN needs[j] \in promoted \/ j \in x.toPromote ELSE j \notin x.toPromote
  BY DEF PromotionInv, PromoterOK
<1>2. i \in DOMAIN needs /\ needs[i] \in SecondGen
  BY <1>1
<1>3. ASSUME NEW d \in ToSet(Needs[needs[i]]), d \in SecondGen PROVE d \in promoted
  <2>1. PICK j \in DOMAIN needs : j < i /\ needs[j] = d
    BY <1>1, <1>2, <1>3, NeededBefore
  <2>2. j \notin x.toPromote
    <3>1. i \in Nat /\ j \in Nat
      BY <1>1, <1>2, PromotionAssumption
    <3> QED BY <2>1, <3>1
  <2> QED BY <1>1, <1>3, <2>1, <2>2
<1> QED BY <1>2, <1>3

LEMMA PromotionInvStep == PromotionInv /\ [PromotionNext]_promotionVars => PromotionInv'
<1> SUFFICES ASSUME PromotionInv, [PromotionNext]_promotionVars PROVE PromotionInv'
  OBVIOUS
<1>0. /\ promoter \in [Promoter -> PromoterState] /\ promoted \subseteq SecondGen /\ started \in 0..MaxPromotions
      /\ MaxPromotions \in Nat
  BY PromotionAssumption DEF PromotionInv, PromotionTypeOK
<1>1. ASSUME NEW k \in Promoter, NEW p \in PackageNames, NEW b \in BOOLEAN, StartPromotion(k, p, b)
      PROVE  PromotionInv'
  <2> DEFINE y == [at |-> "query", package |-> p, withDependencies |-> b, toPromote |-> {}]
  <2>1. y \in PromoterState /\ PromoterOK(y, promoted')
    BY DEF PromoterState, PromoterOK
  <2>2. promoter' = [promoter EXCEPT ![k] = y] /\ promoted' = promoted /\ started' \in 0..MaxPromotions
    BY <1>0, <1>1 DEF StartPromotion
  <2> HIDE DEF y
  <2> QED BY <2>1, <2>2, PromoterMoves DEF PromotionInv, PromotionTypeOK, DependenciesPromotedFirst
<1>2. ASSUME NEW k \in Promoter, _process_two_gp_deps(k)
      PROVE  PromotionInv'
  <2> DEFINE x == promoter[k]
             needs == Needs[x.package]
             those == _filter_unpromoted_two_gp_deps(x.package)
             y == [x EXCEPT !.at = "itself"]
             z == [x EXCEPT !.at = "promote", !.toPromote = those]
  <2>1. x \in PromoterState /\ x.at = "query" /\ x.package \in PackageNames /\ UNCHANGED <<promoted, started>>
    BY <1>0, <1>2 DEF _process_two_gp_deps, PromotionInv, PromoterOK
  <2>2. needs \in Seq(PackageNames) /\ DOMAIN needs \subseteq Nat
    BY <2>1, PromotionAssumption
  <2>3. those = {i \in DOMAIN needs : needs[i] \in SecondGen \ promoted}
    BY DEF _filter_unpromoted_two_gp_deps
  <2>4. ASSUME those = {} PROVE y \in PromoterState /\ PromoterOK(y, promoted')
    <3>1. y \in PromoterState /\ y.at = "itself" /\ y.package = x.package
      BY <2>1 DEF PromoterState
    <3>2. \A i \in DOMAIN needs : needs[i] \in SecondGen => needs[i] \in promoted'
      BY <2>1, <2>3, <2>4
    <3> QED BY <2>1, <3>1, <3>2 DEF PromoterOK
  <2>5. z \in PromoterState /\ PromoterOK(z, promoted')
    <3>1. those \in SUBSET Nat
      BY <2>2, <2>3
    <3>2. z \in PromoterState /\ z.at = "promote" /\ z.package = x.package /\ z.toPromote = those
      <4> HIDE DEF those
      <4> QED BY <2>1, <3>1 DEF PromoterState
    <3> QED BY <2>1, <2>3, <3>2 DEF PromoterOK
  <2>6. \/ those = {} /\ promoter' = [promoter EXCEPT ![k] = y]
        \/ promoter' = [promoter EXCEPT ![k] = z]
        \/ promoter' = [promoter EXCEPT ![k] = Off]
    BY <1>2 DEF _process_two_gp_deps
  <2>7. /\ promoter' \in [Promoter -> PromoterState]
        /\ \A j \in Promoter : PromoterOK(promoter'[j], promoted')
    <3> HIDE DEF y, z, those
    <3> QED BY <2>1, <2>4, <2>5, <2>6, PromoterMoves, PromoterEnds
  <2> QED BY <2>1, <2>7 DEF PromotionInv, PromotionTypeOK, DependenciesPromotedFirst
<1>3. ASSUME NEW k \in Promoter, _promote_package_version(k)
      PROVE  PromotionInv'
  <2> DEFINE x == promoter[k]
             needs == Needs[x.package]
  <2>1. x \in PromoterState /\ x.at = "promote" /\ UNCHANGED started /\ PromoterOK(x, promoted)
    BY <1>0, <1>3 DEF _promote_package_version, PromotionInv
  <2>2. CASE promoter' = [promoter EXCEPT ![k] = Off] /\ UNCHANGED promoted
    BY <2>1, <2>2, PromoterEnds DEF PromotionInv, PromotionTypeOK, DependenciesPromotedFirst
  <2>3. ASSUME NEW i \in x.toPromote, \A j \in x.toPromote : i <= j, promoted' = promoted \cup {needs[i]},
               promoter' = [promoter EXCEPT ![k].toPromote = @ \ {i},
                                            ![k].at = IF x.toPromote = {i} THEN "itself" ELSE @]
        PROVE  PromotionInv'
    <3> DEFINE at == IF x.toPromote = {i} THEN "itself" ELSE "promote"
               y == [x EXCEPT !.toPromote = @ \ {i}, !.at = at]
    <3>1. promoted' \subseteq SecondGen /\ DependenciesPromotedFirst'
      BY <2>1, <2>3, FirstMayBePromoted, MayBePromoted
    <3>2. promoter' = [promoter EXCEPT ![k] = y]
      BY <1>0, <2>1, <2>3
    <3>3. y \in PromoterState /\ y.at = at /\ y.package = x.package /\ y.toPromote = x.toPromote \ {i}
      BY <2>1 DEF PromoterState
    <3>4. PromoterOK(y, promoted')
      <4> HIDE DEF y
      <4> QED BY <2>1, <2>3, <3>3 DEF PromoterOK
    <3> HIDE DEF y
    <3> QED BY <2>1, <2>3, <3>1, <3>2, <3>3, <3>4, PromoterMoves DEF PromotionInv, PromotionTypeOK
  <2> QED BY <1>3, <2>2, <2>3 DEF _promote_package_version
<1>4. ASSUME NEW k \in Promoter, PromoteItself(k)
      PROVE  PromotionInv'
  <2> DEFINE p == promoter[k].package
  <2>1. /\ promoted' \in {promoted, promoted \cup ({p} \cap SecondGen)}
        /\ promoter' = [promoter EXCEPT ![k] = Off] /\ UNCHANGED started
        /\ p \in PackageNames /\ \A i \in DOMAIN Needs[p] : Needs[p][i] \in SecondGen => Needs[p][i] \in promoted
    BY <1>4 DEF PromoteItself, PromotionInv, PromoterOK
  <2>2. \A d \in ToSet(Needs[p]) : d \in SecondGen => d \in promoted
    BY <2>1 DEF ToSet
  <2>3. promoted' \subseteq SecondGen /\ DependenciesPromotedFirst'
    <3>1. CASE p \in SecondGen
      <4>1. promoted' \in {promoted, promoted \cup {p}}
        BY <2>1, <3>1
      <4> QED BY <2>2, <3>1, <4>1, MayBePromoted
    <3>2. CASE p \notin SecondGen
      <4>1. promoted' = promoted
        BY <2>1, <3>2
      <4> QED BY <1>0, <4>1 DEF PromotionInv, DependenciesPromotedFirst
    <3> QED BY <3>1, <3>2
  <2> QED BY <1>0, <2>1, <2>3, PromoterEnds DEF PromotionInv, PromotionTypeOK
<1>5. ASSUME UNCHANGED promotionVars PROVE PromotionInv'
  BY <1>5 DEF promotionVars, PromotionInv, PromotionTypeOK, DependenciesPromotedFirst
<1> QED BY <1>1, <1>2, <1>3, <1>4, <1>5 DEF PromotionNext

\* A package is never promoted before what it depends on.
THEOREM PromotedInOrder == PromotionSpec => [](PromotionTypeOK /\ DependenciesPromotedFirst)
<1>1. PromotionSpec => []PromotionInv
  BY PromotionInvInit, PromotionInvStep, PTL DEF PromotionSpec
<1>2. PromotionInv => PromotionTypeOK /\ DependenciesPromotedFirst
  BY DEF PromotionInv
<1> QED BY <1>1, <1>2, PTL

-----------------------------------------------------------------------------
(* Branches that are merged.                                                *)

\* The commits of builds and branches, but for what people lifted, are of branches they follow,
\* and a build merges only into what follows its own.
MovesDownstream ==
  /\ \A b \in Branch : commits[b] \subseteq 1..Len(pushed)
  /\ \A b \in Branch : \A c \in commits[b] \ lifted : b \in Downstream[pushed[c]]
  /\ \A w \in Build :
       /\ building[w].commit \subseteq 1..Len(pushed)
       /\ \A c \in building[w].commit \ lifted : building[w].source \in Downstream[pushed[c]]
       /\ \A b \in building[w].left : Follows(building[w].source, b)
  /\ \A p \in pulls : p[1] \in alive /\ Follows(p[2], p[1])

\* What a follower lacks, and neither a pull request nor a build that waits brings, nor a
\* conflict has left out, a build that runs will: it has all commits of the branch, and has not come to the follower.
Brings(w, s, b) ==
  /\ building[w].runs /\ building[w].source = s /\ commits[s] \subseteq building[w].commit
  /\ building[w].left = {} \/ b \in building[w].left
SyncInv ==
  \A s \in alive \ (unmerged \cup waiting) : \A b \in Followers(s) :
    commits[s] \subseteq commits[b] \/ <<b, s>> \in pulls \cup dropped \/ \E w \in Build : Brings(w, s, b)

MergeInv == MergeTypeOK /\ Main \in alive /\ MovesDownstream /\ SyncInv

LEMMA MainHasNoPath == Len(Main.path) = 0 /\ Main.kind = "main" /\ Main \in Branch
BY BranchAssumption DEF Main

LEMMA FollowersAre ==
  ASSUME NEW s \in Branch, NEW b \in Followers(s)
  PROVE  b \in alive /\ (b \in Branch => Follows(s, b))
BY MainHasNoPath DEF Followers, Follows

LEMMA MergedFollow ==
  ASSUME alive \subseteq Branch, NEW s \in Branch, NEW b \in _get_branches_to_merge(s)
  PROVE  b \in alive /\ Follows(s, b)
<1>1. CASE b \in Followers(s)
  BY <1>1, FollowersAre
<1>2. CASE b \in NextRelease(s)
  <2>1. s \in Lowest(Releases(s.kind)) /\ b \in Releases(s.kind) /\ b \notin Lowest(Releases(s.kind))
    BY <1>2 DEF NextRelease, _update_future_releases, Lowest, _is_future_release_branch
  <2>2. s \in Releases(s.kind) /\ (\A c \in Releases(s.kind) : NumberOf(s) <= NumberOf(c))
    BY <2>1 DEF Lowest
  <2>3. PICK c \in Releases(s.kind) : ~(NumberOf(b) <= NumberOf(c))
    BY <2>1 DEF Lowest
  <2>4. \A x \in Releases(s.kind) : x \in alive /\ x.kind = s.kind /\ Len(x.path) = 1 /\ NumberOf(x) # 0
    BY DEF Releases, _is_release_branch
  <2>7. \A x \in Releases(s.kind) : x \in Branch /\ x # Main
    BY <2>4, MainHasNoPath
  <2>5. \A x \in Releases(s.kind) : NumberOf(x) \in Nat
    BY <2>7, BranchAssumption DEF NumberOf
  <2>6. NumberOf(s) < NumberOf(b)
    BY <2>1, <2>2, <2>3, <2>5
  <2> QED BY <2>1, <2>2, <2>4, <2>6, <2>7 DEF Follows
<1>3. CASE b \in NextSprint(s)
  <2>1. s.kind = "release" /\ s \in Releases("release") /\ b \in Releases("feature")
    BY <1>3 DEF NextSprint, Lowest
  <2> QED BY <2>1, MainHasNoPath DEF Releases, _is_release_branch, Follows
<1> QED BY <1>1, <1>2, <1>3 DEF _get_branches_to_merge

LEMMA DownstreamIs ==
  ASSUME NEW s \in Branch
  PROVE  s \in Downstream[s] /\ \A b \in Downstream[s], c \in Branch : Follows(b, c) => c \in Downstream[s]
BY DEF Downstream, Closed

LEMMA MergeInvInit == MergeInit => MergeInv
<1> SUFFICES ASSUME MergeInit PROVE MergeInv
  OBVIOUS
<1>1. Main \in alive /\ Len(pushed) = 0 /\ pushed \in Seq(Branch)
  BY MainHasNoPath DEF MergeInit
<1>2. MergeTypeOK
  BY <1>1, MainHasNoPath DEF MergeInit, MergeTypeOK, NoBuild
<1>3. MovesDownstream
  BY <1>1 DEF MergeInit, MovesDownstream, NoBuild
<1>4. SyncInv
  BY FollowersAre DEF MergeInit, SyncInv
<1> QED BY <1>1, <1>2, <1>3, <1>4 DEF MergeInv

\* What a merge does to the commits and what is kept of conflicts.
LEMMA MergeIs ==
  ASSUME NEW w, NEW b, _merge(w, b)
  PROVE  LET u == building[w]  t == <<b, u.source>> IN
         \/ /\ commits' = commits /\ waiting' = waiting /\ pulls' = pulls /\ (b \in alive => u.commit \subseteq commits[b])
            /\ (dropped' = dropped \/ (dropped' = dropped \ {t} /\ b \in alive /\ commits[u.source] \subseteq u.commit))
         \/ /\ commits' = [commits EXCEPT ![b] = @ \cup u.commit] /\ waiting' = waiting \cup {b} /\ pulls' = pulls
            /\ b \in alive
            /\ (dropped' = dropped \/ (dropped' = dropped \ {t} /\ commits[u.source] \subseteq u.commit))
         \/ /\ commits' = commits /\ waiting' = waiting /\ b \in alive
            /\ (pulls' = pulls \/ pulls' = pulls \cup {t}) /\ t \in pulls' /\ dropped' = dropped \ {t}
         \/ /\ commits' = commits /\ waiting' = waiting /\ b \in alive
            /\ pulls' = pulls /\ dropped' = dropped \cup {t}
<1> DEFINE u == building[w]
           t == <<b, u.source>>
           settled == IF commits[u.source] \subseteq u.commit THEN dropped \ {t} ELSE dropped
<1>1. \/ b \notin alive /\ UNCHANGED <<commits, waiting, pulls, dropped>>
      \/ /\ b \in alive /\ u.commit \subseteq commits[b] /\ dropped' = settled
         /\ UNCHANGED <<commits, waiting, pulls>>
      \/ /\ b \in alive
         /\ \/ /\ commits' = [commits EXCEPT ![b] = @ \cup u.commit]
               /\ waiting' = waiting \cup {b} /\ dropped' = settled /\ UNCHANGED pulls
            \/ MergeConflicts(b, u.source)
  BY DEF _merge
<1>2. MergeConflicts(b, u.source) =>
        /\ commits' = commits /\ waiting' = waiting
        /\ \/ (pulls' = pulls \/ pulls' = pulls \cup {t}) /\ t \in pulls' /\ dropped' = dropped \ {t}
           \/ pulls' = pulls /\ dropped' = dropped \cup {t}
  BY DEF MergeConflicts, _create_conflict_pull_request, _get_existing_prs
<1> QED BY <1>1, <1>2

LEMMA MergeTypeStep == MergeTypeOK /\ Main \in alive /\ MovesDownstream /\ [MergeNext]_branchVars => MergeTypeOK' /\ Main \in alive'
<1> SUFFICES ASSUME MergeTypeOK, Main \in alive, MovesDownstream, [MergeNext]_branchVars
             PROVE  MergeTypeOK' /\ Main \in alive'
  OBVIOUS
<1> USE DEF MergeTypeOK
<1>1. ASSUME NEW w \in Build, BuildFails(w) PROVE MergeTypeOK' /\ Main \in alive'
  BY <1>1, MainHasNoPath DEF BuildFails, NoBuild
<1>2. ASSUME NEW w \in Build, RunMergeBranch(w) PROVE MergeTypeOK' /\ Main \in alive'
  <2> DEFINE to == _get_branches_to_merge(building[w].source)
  <2>1. to \subseteq Branch
    BY MergedFollow
  <2> HIDE DEF to
  <2> QED BY <1>2, <2>1, MainHasNoPath DEF RunMergeBranch, to, NoBuild
<1>3. ASSUME NEW w \in Build, NEW b \in Branch, StartBuild(w, b) PROVE MergeTypeOK' /\ Main \in alive'
  BY <1>3 DEF StartBuild, NoBuild
<1>4. ASSUME NEW w \in Build, NEW b \in Branch, _merge(w, b) PROVE MergeTypeOK' /\ Main \in alive'
  <2>1. building[w].source \in Branch /\ building[w].commit \subseteq Commit
    OBVIOUS
  <2>2. building' \in [Build -> [source : Branch, commit : SUBSET Commit, left : SUBSET Branch, runs : BOOLEAN]]
    BY <1>4, MainHasNoPath DEF _merge, NoBuild
  <2>3. unmerged' \subseteq Branch /\ mergeOption' = mergeOption /\ alive' = alive /\ pushed' = pushed /\ lifted' = lifted
    BY <1>4, <2>1 DEF _merge
  <2>4. /\ commits' \in [Branch -> SUBSET Commit] /\ waiting' \subseteq alive /\ pulls' \subseteq Branch \X Branch
    <3>1. \/ commits' = commits /\ waiting' = waiting
          \/ /\ commits' = [commits EXCEPT ![b] = @ \cup building[w].commit]
             /\ waiting' = waiting \cup {b} /\ b \in alive
      BY <1>4, MergeIs
    <3>2. pulls' \subseteq pulls \cup {<<b, building[w].source>>}
      BY <1>4, MergeIs
    <3>3. commits' \in [Branch -> SUBSET Commit] /\ waiting' \subseteq alive
      BY <2>1, <3>1
    <3>4. <<b, building[w].source>> \in Branch \X Branch
      BY <2>1
    <3> QED BY <3>2, <3>3, <3>4
  <2>5. dropped' \subseteq Branch \X Branch
    <3>1. <<b, building[w].source>> \in Branch \X Branch
      BY <2>1
    <3> QED BY <1>4, <3>1, MergeIs
  <2> QED BY <2>2, <2>3, <2>4, <2>5
<1>5. ASSUME NEW b \in Branch, PushCommit(b) PROVE MergeTypeOK' /\ Main \in alive'
  <2>1. Len(pushed) + 1 \in Commit
    BY <1>5, BranchAssumption DEF PushCommit, Commit
  <2> QED BY <1>5, <2>1 DEF PushCommit
<1>6. ASSUME NEW b \in Branch, FinishBranch(b) PROVE MergeTypeOK' /\ Main \in alive'
  <2>1. PICK p \in ParentsOf(b) : commits' = [commits EXCEPT ![p] = @ \cup commits[b], ![b] = {}]
                                  /\ waiting' = (waiting \cup {p}) \ {b}
    BY <1>6 DEF FinishBranch
  <2>2. p \in alive
    BY <2>1 DEF ParentsOf
  <2> QED BY <1>6, <2>1, <2>2 DEF FinishBranch, Close
<1>7. ASSUME NEW p \in pulls, MergePull(p) PROVE MergeTypeOK' /\ Main \in alive'
  <2>1. p[1] \in alive /\ p[2] \in Branch
    BY DEF MovesDownstream
  <2> QED BY <1>7, <2>1 DEF MergePull
<1>8. CASE UNCHANGED branchVars
  BY <1>8 DEF branchVars
<1> QED BY <1>1, <1>2, <1>3, <1>4, <1>5, <1>6, <1>7, <1>8 DEF MergeNext

\* What lets commits be in a branch, with those that are lifted left aside.
LEMMA CommitsGrow ==
  ASSUME MergeTypeOK, MovesDownstream, pushed' = pushed, lifted \subseteq lifted',
         NEW s \in Branch, NEW b \in Branch, NEW S,
         S \subseteq 1..Len(pushed), \A c \in S \ lifted : s \in Downstream[pushed[c]], Follows(s, b)
  PROVE  \A c \in (commits[b] \cup S) \ lifted' : b \in Downstream[pushed'[c]]
<1> TAKE c \in (commits[b] \cup S) \ lifted'
<1>0. commits[b] \subseteq 1..Len(pushed)
  BY DEF MovesDownstream
<1>1. c \in 1..Len(pushed)
  BY <1>0
<1>4. pushed[c] \in Branch
  BY <1>1 DEF MergeTypeOK
<1>2. CASE c \in commits[b]
  BY <1>2 DEF MovesDownstream
<1>3. CASE c \in S
  <2>1. s \in Downstream[pushed[c]]
    BY <1>3
  <2> QED BY <1>4, <2>1, DownstreamIs
<1> QED BY <1>2, <1>3

LEMMA MovesDownstreamStep ==
  MergeTypeOK /\ Main \in alive /\ MovesDownstream /\ [MergeNext]_branchVars => MovesDownstream'
<1> SUFFICES ASSUME MergeTypeOK, Main \in alive, MovesDownstream, [MergeNext]_branchVars
             PROVE  MovesDownstream'
  OBVIOUS
<1>1. ASSUME NEW w \in Build, BuildFails(w) PROVE MovesDownstream'
  BY <1>1 DEF BuildFails, NoBuild, MovesDownstream, MergeTypeOK
<1>2. ASSUME NEW w \in Build, RunMergeBranch(w) PROVE MovesDownstream'
  <2> DEFINE to == _get_branches_to_merge(building[w].source)
  <2>1. \A b \in to : Follows(building[w].source, b)
    BY MergedFollow DEF MergeTypeOK
  <2> HIDE DEF to
  <2> QED BY <1>2, <2>1 DEF RunMergeBranch, to, NoBuild, MovesDownstream, MergeTypeOK
<1>3. ASSUME NEW w \in Build, NEW b \in Branch, StartBuild(w, b) PROVE MovesDownstream'
  BY <1>3 DEF StartBuild, NoBuild, MovesDownstream, MergeTypeOK
<1>4. ASSUME NEW w \in Build, NEW b \in Branch, _merge(w, b) PROVE MovesDownstream'
  <2> DEFINE s == building[w].source  S == building[w].commit
  <2>1. /\ s \in Branch /\ S \subseteq 1..Len(pushed) /\ Follows(s, b)
        /\ \A c \in S \ lifted : s \in Downstream[pushed[c]]
    BY <1>4 DEF _merge, MovesDownstream, MergeTypeOK
  <2>2. pushed' = pushed /\ lifted' = lifted /\ alive' = alive
    BY <1>4 DEF _merge
  <2>3. \A c \in (commits[b] \cup S) \ lifted' : b \in Downstream[pushed'[c]]
    <3> HIDE DEF s, S
    <3> QED BY <2>1, <2>2, CommitsGrow
  <2>4. \/ commits' = commits
        \/ commits' = [commits EXCEPT ![b] = @ \cup S]
    BY <1>4, MergeIs
  <2>5. \A x \in Branch : commits'[x] \subseteq 1..Len(pushed') /\ \A c \in commits'[x] \ lifted' : x \in Downstream[pushed'[c]]
    BY <2>1, <2>2, <2>3, <2>4 DEF MovesDownstream, MergeTypeOK
  <2>6. \A v \in Build : \/ building'[v] = NoBuild
                         \/ /\ building'[v].source = building[v].source /\ building'[v].commit = building[v].commit
                            /\ building'[v].left \subseteq building[v].left
    BY <1>4 DEF _merge, MergeTypeOK
  <2>7. \A v \in Build : /\ building'[v].commit \subseteq 1..Len(pushed')
                         /\ \A c \in building'[v].commit \ lifted' : building'[v].source \in Downstream[pushed'[c]]
                         /\ \A x \in building'[v].left : Follows(building'[v].source, x)
    BY <2>2, <2>6 DEF MovesDownstream, MergeTypeOK, NoBuild
  <2>8. \A p \in pulls' : p[1] \in alive' /\ Follows(p[2], p[1])
    <3>1. pulls' \subseteq pulls \/ (pulls' \subseteq pulls \cup {<<b, s>>} /\ b \in alive)
      BY <1>4, MergeIs
    <3> HIDE DEF s, S
    <3> QED BY <2>1, <2>2, <3>1 DEF MovesDownstream
  <2> QED BY <2>5, <2>7, <2>8 DEF MovesDownstream
<1>5. ASSUME NEW b \in Branch, PushCommit(b) PROVE MovesDownstream'
  <2> DEFINE n == Len(pushed) + 1
  <2>1. /\ pushed \in Seq(Branch) /\ pushed' = Append(pushed, b) /\ alive' = alive /\ building' = building
        /\ pulls' = pulls /\ lifted' = lifted
        /\ commits' = [commits EXCEPT ![b] = @ \cup {n}]
    BY <1>5 DEF PushCommit, MergeTypeOK
  <2>2. Len(pushed') = n /\ pushed'[n] = b /\ \A c \in 1..Len(pushed) : pushed'[c] = pushed[c] /\ c \in 1..n
    BY <2>1
  <2>3. b \in Downstream[b]
    BY DownstreamIs
  <2>4. n \in 1..n
    BY <2>1
  <2> HIDE DEF n
  <2>5. \A x \in Branch : commits'[x] \subseteq 1..Len(pushed') /\ \A c \in commits'[x] \ lifted' : x \in Downstream[pushed'[c]]
    BY <2>1, <2>2, <2>3, <2>4 DEF MovesDownstream, MergeTypeOK
  <2> QED BY <2>1, <2>2, <2>5 DEF MovesDownstream
<1>6. ASSUME NEW b \in Branch, FinishBranch(b) PROVE MovesDownstream'
  <2>1. PICK p \in ParentsOf(b) : commits' = [commits EXCEPT ![p] = @ \cup commits[b], ![b] = {}]
    BY <1>6 DEF FinishBranch
  <2>2. /\ pushed' = pushed /\ lifted' = lifted \cup commits[b] /\ alive' = alive \ {b}
        /\ building' = building /\ pulls' = Close(b, pulls)
    BY <1>6 DEF FinishBranch
  <2>3. \A x \in Branch : commits'[x] \subseteq commits[x] \cup commits[b]
    BY <2>1 DEF MergeTypeOK
  <2> QED BY <2>2, <2>3 DEF MovesDownstream, Close
<1>7. ASSUME NEW p \in pulls, MergePull(p) PROVE MovesDownstream'
  <2> DEFINE b == p[1]  s == p[2]  S == commits[s]
  <2>1. /\ s \in Branch /\ b \in Branch /\ S \subseteq 1..Len(pushed) /\ Follows(s, b)
        /\ \A c \in S \ lifted : s \in Downstream[pushed[c]]
    BY DEF MovesDownstream, MergeTypeOK
  <2>2. /\ pushed' = pushed /\ lifted' = lifted /\ alive' = alive /\ building' = building
        /\ pulls' \subseteq pulls /\ commits' = [commits EXCEPT ![b] = @ \cup S]
    BY <1>7 DEF MergePull
  <2> HIDE DEF b, s, S
  <2>3. \A c \in (commits[b] \cup S) \ lifted' : b \in Downstream[pushed'[c]]
    BY <2>1, <2>2, CommitsGrow
  <2>5. \A x \in Branch : commits'[x] = IF x = b THEN commits[b] \cup S ELSE commits[x]
    BY <2>2 DEF MergeTypeOK
  <2>6. \A x \in Branch : commits'[x] \subseteq 1..Len(pushed')
    <3>1. \A x \in Branch : commits[x] \subseteq 1..Len(pushed)
      BY DEF MovesDownstream
    <3>2. commits[b] \cup S \subseteq 1..Len(pushed) /\ pushed' = pushed
      BY <2>1, <2>2, <3>1
    <3> QED BY <2>5, <3>1, <3>2
  <2>4. \A x \in Branch : \A c \in commits'[x] \ lifted' : x \in Downstream[pushed'[c]]
    BY <2>1, <2>2, <2>3, <2>5 DEF MovesDownstream
  <2> QED BY <2>2, <2>4, <2>6 DEF MovesDownstream
<1>8. CASE UNCHANGED branchVars
  BY <1>8 DEF branchVars, MovesDownstream
<1> QED BY <1>1, <1>2, <1>3, <1>4, <1>5, <1>6, <1>7, <1>8 DEF MergeNext

LEMMA FollowersStay ==
  ASSUME alive' = alive, mergeOption' = mergeOption, NEW s
  PROVE  Followers(s)' = Followers(s)
BY DEF Followers, _is_future_release_branch, Releases, Lowest

\* A step that leaves builds and followers alone, and makes the branches that grow wait.
LEMMA SyncStays ==
  ASSUME SyncInv, alive' = alive, mergeOption' = mergeOption, unmerged \subseteq unmerged', waiting \subseteq waiting',
         \A s \in alive : commits[s] \subseteq commits'[s] /\ (s \notin waiting' => commits'[s] = commits[s]),
         \A s \in alive \ (unmerged' \cup waiting'), b \in alive :
           /\ <<b, s>> \in pulls \cup dropped => <<b, s>> \in pulls' \cup dropped' \/ commits[s] \subseteq commits'[b]
           /\ \A w \in Build : Brings(w, s, b) =>
                \/ Brings(w, s, b)'
                \/ commits[s] \subseteq commits'[b] \/ <<b, s>> \in pulls' \cup dropped'
  PROVE  SyncInv'
<1> SUFFICES ASSUME NEW s \in alive' \ (unmerged' \cup waiting'), NEW b \in Followers(s)'
             PROVE  \/ commits'[s] \subseteq commits'[b] \/ <<b, s>> \in pulls' \cup dropped'
                    \/ \E w \in Build : Brings(w, s, b)'
  BY DEF SyncInv
<1>1. b \in Followers(s) /\ b \in alive
  BY FollowersStay DEF Followers
<1>2. commits'[s] = commits[s] /\ commits[b] \subseteq commits'[b]
  BY <1>1
<1>3. CASE commits[s] \subseteq commits[b]
  BY <1>2, <1>3
<1>4. CASE <<b, s>> \in pulls \cup dropped
  BY <1>1, <1>2, <1>4
<1>5. CASE \E w \in Build : Brings(w, s, b)
  BY <1>1, <1>2, <1>5
<1> QED BY <1>1, <1>3, <1>4, <1>5 DEF SyncInv

LEMMA SyncStep == MergeInv /\ [MergeNext]_branchVars => SyncInv'
<1> SUFFICES ASSUME MergeInv, [MergeNext]_branchVars PROVE SyncInv'
  OBVIOUS
<1> USE DEF MergeInv
<1>0. alive \subseteq Branch /\ commits \in [Branch -> SUBSET Commit] /\ pulls \subseteq alive \X Branch
  BY DEF MergeTypeOK, MovesDownstream
<1>1. ASSUME NEW w \in Build, BuildFails(w) PROVE SyncInv'
  <2>1. \A s \in alive \ (unmerged' \cup waiting'), b \in alive, v \in Build : Brings(v, s, b) => Brings(v, s, b)'
    BY <1>1 DEF BuildFails, Brings, MergeTypeOK
  <2> QED BY <1>1, <2>1, SyncStays DEF BuildFails
<1>2. ASSUME NEW w \in Build, RunMergeBranch(w) PROVE SyncInv'
  <2> DEFINE s == building[w].source  to == _get_branches_to_merge(s)
  <2>1. /\ commits' = commits /\ alive' = alive /\ mergeOption' = mergeOption /\ waiting' = waiting
        /\ pulls' = pulls /\ dropped' = dropped
        /\ building[w].runs /\ building[w].left = {}
        /\ building' = [building EXCEPT ![w] = IF to = {} THEN NoBuild ELSE [@ EXCEPT !.left = to]]
        /\ unmerged' = IF commits[s] \subseteq building[w].commit THEN unmerged \ {s} ELSE unmerged
    BY <1>2 DEF RunMergeBranch
  <2>2. Followers(s) \subseteq to
    BY DEF _get_branches_to_merge
  <2> HIDE DEF to
  <2> SUFFICES ASSUME NEW r \in alive' \ (unmerged' \cup waiting'), NEW b \in Followers(r)'
               PROVE  \/ commits'[r] \subseteq commits'[b] \/ <<b, r>> \in pulls' \cup dropped'
                      \/ \E v \in Build : Brings(v, r, b)'
    BY DEF SyncInv
  <2>3. b \in Followers(r)
    BY <2>1, FollowersStay
  <2>4. \A v \in Build \ {w} : Brings(v, r, b) => Brings(v, r, b)'
    BY <2>1 DEF Brings, MergeTypeOK
  <2>5. ASSUME r = s, commits[s] \subseteq building[w].commit PROVE Brings(w, r, b)'
    <3>1. b \in to /\ to # {}
      BY <2>2, <2>3, <2>5
    <3>2. building'[w] = [building[w] EXCEPT !.left = to]
      BY <2>1, <3>1 DEF MergeTypeOK
    <3> QED BY <2>1, <2>5, <3>1, <3>2 DEF Brings, MergeTypeOK
  <2>6. CASE r = s /\ commits[s] \subseteq building[w].commit
    BY <2>5, <2>6
  <2>7. CASE ~(r = s /\ commits[s] \subseteq building[w].commit)
    <3>1. r \in alive \ (unmerged \cup waiting) /\ ~Brings(w, r, b)
      BY <2>1, <2>7 DEF Brings
    <3> QED BY <2>1, <2>3, <2>4, <3>1 DEF SyncInv
  <2> QED BY <2>6, <2>7
<1>3. ASSUME NEW w \in Build, NEW b \in Branch, StartBuild(w, b) PROVE SyncInv'
  <2>1. /\ commits' = commits /\ alive' = alive /\ mergeOption' = mergeOption /\ waiting' = waiting \ {b}
        /\ pulls' = pulls /\ dropped' = dropped /\ unmerged' = unmerged
        /\ ~building[w].runs
        /\ building' = [building EXCEPT ![w] = [NoBuild EXCEPT !.source = b, !.commit = commits[b], !.runs = TRUE]]
    BY <1>3 DEF StartBuild
  <2>2. \A v \in Build \ {w} : building'[v] = building[v]
    BY <2>1 DEF MergeTypeOK
  <2>3. building'[w].runs /\ building'[w].source = b /\ building'[w].commit = commits[b] /\ building'[w].left = {}
    BY <2>1 DEF MergeTypeOK, NoBuild
  <2> SUFFICES ASSUME NEW s \in alive' \ (unmerged' \cup waiting'), NEW f \in Followers(s)'
               PROVE  \/ commits'[s] \subseteq commits'[f] \/ <<f, s>> \in pulls' \cup dropped'
                      \/ \E v \in Build : Brings(v, s, f)'
    BY DEF SyncInv
  <2>4. f \in Followers(s)
    BY <2>1, FollowersStay
  <2>5. CASE s = b
    <3>1. Brings(w, s, f)'
      BY <2>1, <2>3, <2>5 DEF Brings
    <3> QED BY <3>1
  <2>6. CASE s # b
    <3>1. \A v \in Build : Brings(v, s, f) => Brings(v, s, f)'
      BY <2>1, <2>2 DEF Brings
    <3> QED BY <2>1, <2>4, <2>6, <3>1 DEF SyncInv
  <2> QED BY <2>5, <2>6
<1>4. ASSUME NEW w \in Build, NEW b \in Branch, _merge(w, b) PROVE SyncInv'
  <2> DEFINE u == building[w]  rest == u.left \ {b}
  <2>1. /\ alive' = alive /\ mergeOption' = mergeOption /\ u.runs /\ b \in u.left
        /\ building' = [building EXCEPT ![w] = IF rest = {} \/ b \notin alive THEN NoBuild ELSE [@ EXCEPT !.left = rest]]
        /\ unmerged' = IF b \in alive THEN unmerged ELSE unmerged \cup {u.source}
    BY <1>4 DEF _merge
  <2>2. \A x \in alive : commits[x] \subseteq commits'[x] /\ (x \notin waiting' => commits'[x] = commits[x])
    BY <1>0, <1>4, MergeIs
  <2>3. waiting \subseteq waiting' /\ pulls \subseteq pulls'
    BY <1>4, MergeIs
  <2>4. b \in alive => u.commit \subseteq commits'[b] \/ <<b, u.source>> \in pulls' \cup dropped'
    BY <1>0, <1>4, MergeIs
  <2>7. ASSUME NEW s \in alive, NEW f \in alive, <<f, s>> \in pulls \cup dropped
        PROVE  <<f, s>> \in pulls' \cup dropped' \/ commits[s] \subseteq commits'[f]
    <3>1. CASE <<f, s>> = <<b, u.source>>
      <4>1. f = b /\ s = u.source
        BY <3>1
      <4> QED BY <1>0, <1>4, <2>4, <2>7, <4>1, MergeIs
    <3>2. CASE <<f, s>> # <<b, u.source>>
      BY <1>4, <2>7, <3>2, MergeIs
    <3> QED BY <3>1, <3>2
  <2>5. ASSUME NEW s \in alive \ (unmerged' \cup waiting'), NEW f \in alive, NEW v \in Build, Brings(v, s, f)
        PROVE  Brings(v, s, f)' \/ commits[s] \subseteq commits'[f] \/ <<f, s>> \in pulls' \cup dropped'
    <3>1. commits'[s] = commits[s]
      BY <2>2
    <3>2. CASE v # w
      <4>1. building'[v] = building[v]
        BY <2>1, <3>2 DEF MergeTypeOK
      <4> QED BY <2>5, <3>1, <4>1 DEF Brings
    <3>3. CASE v = w
      <4>1. u.source = s /\ commits[s] \subseteq u.commit /\ f \in u.left /\ b \in alive
        BY <2>1, <2>5, <3>3 DEF Brings
      <4>2. CASE f = b
        BY <2>4, <4>1, <4>2
      <4>3. CASE f # b
        <5>1. building'[w] = [u EXCEPT !.left = rest] /\ f \in rest
          BY <2>1, <4>1, <4>3 DEF MergeTypeOK
        <5>2. building'[w].runs /\ building'[w].source = s /\ building'[w].commit = u.commit /\ f \in building'[w].left
          BY <2>1, <4>1, <5>1 DEF MergeTypeOK
        <5> QED BY <3>1, <3>3, <4>1, <5>2 DEF Brings
      <4> QED BY <4>2, <4>3
    <3> QED BY <3>2, <3>3
  <2>6. unmerged \subseteq unmerged'
    BY <2>1
  <2> HIDE DEF u
  <2> QED BY <2>1, <2>2, <2>3, <2>5, <2>6, <2>7, SyncStays
<1>5. ASSUME NEW b \in Branch, PushCommit(b) PROVE SyncInv'
  <2>1. /\ alive' = alive /\ mergeOption' = mergeOption /\ unmerged' = unmerged /\ waiting' = waiting \cup {b}
        /\ pulls' = pulls /\ dropped' = dropped /\ building' = building
        /\ commits' = [commits EXCEPT ![b] = @ \cup {Len(pushed) + 1}]
    BY <1>5 DEF PushCommit
  <2>2. \A s \in alive : commits[s] \subseteq commits'[s] /\ (s \notin waiting' => commits'[s] = commits[s])
    BY <1>0, <2>1
  <2>3. \A s \in alive \ (unmerged' \cup waiting'), f \in alive, v \in Build : Brings(v, s, f) => Brings(v, s, f)'
    BY <2>1, <2>2 DEF Brings
  <2> QED BY <2>1, <2>2, <2>3, SyncStays
<1>6. ASSUME NEW d \in Branch, FinishBranch(d) PROVE SyncInv'
  <2>1. PICK p \in ParentsOf(d) : /\ commits' = [commits EXCEPT ![p] = @ \cup commits[d], ![d] = {}]
                                  /\ waiting' = (waiting \cup {p}) \ {d}
    BY <1>6 DEF FinishBranch
  <2>2. /\ d \in alive \ {Main} /\ alive' = alive \ {d} /\ pulls' = Close(d, pulls) /\ dropped' = Close(d, dropped) /\ unmerged' = unmerged \ {d}
        /\ mergeOption' = mergeOption /\ building' = building
    BY <1>6 DEF FinishBranch
  <2>3. Len(d.path) = 1 => p = Main
    BY <2>1 DEF ParentsOf
  <2> SUFFICES ASSUME NEW s \in alive' \ (unmerged' \cup waiting'), NEW b \in Followers(s)'
               PROVE  \/ commits'[s] \subseteq commits'[b] \/ <<b, s>> \in pulls' \cup dropped'
                      \/ \E w \in Build : Brings(w, s, b)'
    BY DEF SyncInv
  <2>4. s # d /\ s # p /\ s \in alive \ (unmerged \cup waiting)
    BY <2>1, <2>2
  <2>5. b # d /\ b \in alive
    BY <2>2 DEF Followers
  <2>6. b \in Followers(s)
    <3>1. CASE s # Main
      BY <2>2, <3>1 DEF Followers
    <3>2. CASE s = Main
      <4>1. Len(d.path) # 1
        BY <2>3, <2>4, <3>2
      <4>2. Releases("feature")' = Releases("feature")
        BY <2>2, <4>1 DEF Releases, _is_release_branch
      <4>3. Lowest(Releases("feature"))' = Lowest(Releases("feature"))
        BY <4>2 DEF Lowest
      <4> QED BY <2>2, <2>5, <3>2, <4>2, <4>3 DEF Followers, _is_future_release_branch
    <3> QED BY <3>1, <3>2
  <2>7. commits'[s] = commits[s] /\ commits[b] \subseteq commits'[b]
    BY <1>0, <2>1, <2>4, <2>5
  <2>8. <<b, s>> \in pulls \cup dropped => <<b, s>> \in pulls' \cup dropped'
    BY <2>2, <2>4, <2>5 DEF Close
  <2>9. \A w \in Build : Brings(w, s, b) => Brings(w, s, b)'
    BY <2>2, <2>7 DEF Brings
  <2> QED BY <2>4, <2>6, <2>7, <2>8, <2>9 DEF SyncInv
<1>7. ASSUME NEW p \in pulls, MergePull(p) PROVE SyncInv'
  <2>0. p[1] \in alive /\ p[2] \in Branch /\ p = <<p[1], p[2]>>
    BY <1>0
  <2>1. /\ alive' = alive /\ mergeOption' = mergeOption /\ unmerged' = unmerged /\ waiting' = waiting \cup {p[1]}
        /\ pulls' = pulls \ {p} /\ dropped' = dropped \ {p} /\ building' = building /\ commits' = [commits EXCEPT ![p[1]] = @ \cup commits[p[2]]]
    BY <1>7 DEF MergePull
  <2>2. \A s \in alive : commits[s] \subseteq commits'[s] /\ (s \notin waiting' => commits'[s] = commits[s])
    BY <1>0, <2>1
  <2>3. \A s \in alive \ (unmerged' \cup waiting'), f \in alive, v \in Build : Brings(v, s, f) => Brings(v, s, f)'
    BY <2>1, <2>2 DEF Brings
  <2>4. \A s \in alive, f \in alive :
          <<f, s>> \in pulls \cup dropped => <<f, s>> \in pulls' \cup dropped' \/ commits[s] \subseteq commits'[f]
    BY <1>0, <2>0, <2>1
  <2> QED BY <2>1, <2>2, <2>3, <2>4, SyncStays
<1>8. CASE UNCHANGED branchVars
  <2>1. \A s \in alive, f \in alive, v \in Build : Brings(v, s, f) => Brings(v, s, f)'
    BY <1>8 DEF branchVars, Brings
  <2> QED BY <1>8, <2>1, SyncStays DEF branchVars
<1> QED BY <1>1, <1>2, <1>3, <1>4, <1>5, <1>6, <1>7, <1>8 DEF MergeNext

LEMMA MergeInvImplies == MergeInv => MergeTypeOK /\ OnlyDownstream /\ QuietMeansInSync
<1> SUFFICES ASSUME MergeInv PROVE OnlyDownstream /\ QuietMeansInSync
  BY DEF MergeInv
<1>1. OnlyDownstream
  BY DEF MergeInv, MergeTypeOK, MovesDownstream, OnlyDownstream
<1>2. QuietMeansInSync
  BY DEF MergeInv, SyncInv, Brings, QuietMeansInSync
<1> QED BY <1>1, <1>2

\* Commits go downstream only, and once nothing is left to build every branch has what the
\* branch it follows has, a pull request waits to bring it, a build failed, or the last merge
\* met a conflict no pull request was made of: for any number
\* of branches, builds at once and people (vcs task: merge.py).
THEOREM MergesAreSound == MergeSpec => [](MergeTypeOK /\ OnlyDownstream /\ QuietMeansInSync)
<1>1. MergeInv /\ [MergeNext]_branchVars => MergeInv'
  BY MergeTypeStep, MovesDownstreamStep, SyncStep DEF MergeInv
<1> QED BY <1>1, MergeInvInit, MergeInvImplies, PTL DEF MergeSpec

-----------------------------------------------------------------------------
(* Projects that are used by other projects.                                *)

LEMMA LeastExists ==
  ASSUME NEW S \in SUBSET Nat, S # {}
  PROVE  \E n \in S : \A m \in S : n <= m
<1> DEFINE T == {0..n : n \in S}
<1>1. T \subseteq FiniteSubsetsOf(Nat) /\ T # {}
  <2>1. ASSUME NEW n \in S PROVE 0..n \in FiniteSubsetsOf(Nat)
    <3>1. IsFiniteSet(0..n) /\ 0..n \subseteq Nat
      BY FS_Interval
    <3> QED BY <3>1 DEF FiniteSubsetsOf
  <2> QED BY <2>1
<1>2. IsWellFoundedOn(StrictSubsetOrdering(Nat), FiniteSubsetsOf(Nat))
  BY FS_StrictSubsetOrderingWellFounded
<1>3. PICK x \in T : \A y \in T : <<y, x>> \notin StrictSubsetOrdering(Nat)
  <2> HIDE DEF T
  <2> QED BY ONLY <1>1, <1>2, WFMin, Zenon
<1>4. PICK n \in S : x = 0..n
  BY <1>3
<1>5. ASSUME NEW m \in S PROVE n <= m
  <2>1. <<0..m, 0..n>> \notin StrictSubsetOrdering(Nat)
    BY <1>3, <1>4
  <2>2. m < n => 0..m \subseteq 0..n /\ n \in 0..n /\ n \notin 0..m /\ 0..m \subseteq Nat /\ 0..n \subseteq Nat
    OBVIOUS
  <2> QED BY <2>1, <2>2 DEF StrictSubsetOrdering
<1> QED BY <1>5

Specs == UNION {SourcesOf[r] : r \in DOMAIN SourcesOf}
Projects == [repo : DOMAIN SourcesOf, commit : Nat, code : BOOLEAN]
Inclusions == UNION {[S -> Projects] : S \in SUBSET Specs}
AnswerSet == [asker : Projects, spec : Specs, project : Projects]
Fetches ==
  [stage : {"idle"}] \cup [stage : {"resolve"}, asker : Projects, spec : Specs]
    \cup [stage : {"download"}, asker : Projects, spec : Specs, commit : Nat]
    \cup [stage : {"extract"}, asker : Projects, spec : Specs, commit : Nat, left : SUBSET SourceFile,
          writing : SUBSET SourceFile, cut : BOOLEAN]
RunnerState == [included : Inclusions, answers : SUBSET AnswerSet, fetch : Fetches, since : Nat]
Release == [commit : 1..MaxServed, beta : BOOLEAN]
ServerState == [heads : [SourceRepo -> 1..MaxServed], releases : [SourceRepo -> Seq(Release)]]
DirState == [SourceFile -> {"none", "half", "whole"}]

WasMeant(sv, since, spec, commit) == \E i \in since..Len(sv) : Meant(sv[i], spec, commit)
IsWhole(dirs, d) == d \in DOMAIN dirs /\ \A x \in SourceFile : dirs[d][x] = "whole"
FetchDir(f) == <<f.spec.repo, f.commit>>
Cut(r) == [r EXCEPT !.fetch.cut = TRUE]

\* What was extracted is whole, and what is being written will be, unless others were there.
Extracted(f, t, dirs) ==
  /\ f.commit \in 0..MaxServed /\ f.writing \subseteq f.left
  /\ \/ FetchDir(f) \in t
     \/ /\ FetchDir(f) \in DOMAIN dirs /\ \A x \in SourceFile \ f.left : dirs[FetchDir(f)][x] = "whole"
        /\ \A x \in f.writing : ~f.cut /\ dirs[FetchDir(f)][x] # "none"

\* A project that was given is what the spec meant, its files are there, or others wrote them,
\* or they are being written again; and the next who asks is given it too.
Given(r, a, t, dirs, sv) ==
  \/ a.spec.by = "folder"
  \/ /\ WasMeant(sv, r.since, a.spec, a.project.commit)
     /\ \/ DirOf(a.project) \in t \/ IsWhole(dirs, DirOf(a.project))
        \/ r.fetch.stage = "extract" /\ DirOf(a.project) = FetchDir(r.fetch)
IsKept(r, a) == ~a.spec.code \/ a.asker.code => a.spec \in DOMAIN r.included /\ r.included[a.spec] = a.project

\* What a command has, and what it is doing: with the directories others have written, what is
\* in the cache, and what the server has been.
RunnerOK(r, t, dirs, sv) ==
  /\ r.since \in 1..Len(sv)
  /\ \A a \in r.answers : Given(r, a, t, dirs, sv)
  /\ \A a \in r.answers : IsKept(r, a)
  /\ \A spec \in DOMAIN r.included : \E a \in r.answers : a.spec = spec /\ a.project = r.included[spec]
  /\ r.fetch.stage # "idle" => r.fetch.spec \notin DOMAIN r.included /\ r.fetch.spec.by # "folder"
  /\ r.fetch.stage \in {"download", "extract"} => WasMeant(sv, r.since, r.fetch.spec, r.fetch.commit)
  /\ r.fetch.stage = "extract" => Extracted(r.fetch, t, dirs)

SourcesTyped ==
  /\ served \in Seq(ServerState) /\ Len(served) \in 1..MaxServed
  /\ \A d \in DOMAIN projectDirs : projectDirs[d] \in DirState
  /\ runners \in [Runner -> RunnerState] /\ touched \in [Runner -> SUBSET (SourceRepo \X (0..MaxServed))]
SourcesInv ==
  /\ SourcesTyped
  /\ \A r \in SourceRepo : Server.heads[r] <= Len(served)
  /\ \A p \in Runner : RunnerOK(runners[p], touched[p], projectDirs, served)

\* What is specified.
LEMMA SpecsAre ==
  ASSUME NEW spec \in Specs
  PROVE  /\ spec.repo \in DOMAIN SourcesOf /\ spec.code \in BOOLEAN /\ spec.what \in Nat
         /\ spec.by = "folder" \/
              (spec.repo \in SourceRepo
               /\ spec.by \in {"commit", "ref", "branch", "tag", "latest", "latest_beta", "previous", "strategy"})
<1>1. PICK r \in DOMAIN SourcesOf : spec \in SourcesOf[r]
  BY DEF Specs
<1> QED BY <1>1, ProjectSourcesAssumption

LEMMA FetchIs ==
  ASSUME NEW f \in Fetches
  PROVE  /\ f.stage \in {"idle", "resolve", "download", "extract"}
         /\ f.stage # "idle" => f.asker \in Projects /\ f.spec \in Specs
         /\ f.stage \in {"download", "extract"} => f.commit \in Nat
         /\ f.stage = "extract" => f \in [stage : {"extract"}, asker : Projects, spec : Specs, commit : Nat,
                                          left : SUBSET SourceFile, writing : SUBSET SourceFile, cut : BOOLEAN]
BY DEF Fetches

LEMMA InclusionsAre ==
  ASSUME NEW S \in SUBSET Specs, NEW f \in [S -> Projects]
  PROVE  f \in Inclusions
BY DEF Inclusions

LEMMA InclusionIs ==
  ASSUME NEW f \in Inclusions
  PROVE  DOMAIN f \subseteq Specs /\ \A spec \in DOMAIN f : f[spec] \in Projects
BY DEF Inclusions

\* The newest of some releases is one of them.
LEMMA NewestIsGreatest ==
  ASSUME NEW rs, NEW n \in Nat, NEW S \in SUBSET (1..n), S # {}
  PROVE  \E i \in S : (\A j \in S : j <= i) /\ CommitOfNewest(rs, S) = rs[i].commit
<1> DEFINE T == {n - i : i \in S}
<1>1. T \in SUBSET Nat /\ T # {}
  OBVIOUS
<1>2. PICK t \in T : \A u \in T : t <= u
  <2> HIDE DEF T
  <2> QED BY <1>1, LeastExists
<1>3. \E i \in S : \A j \in S : j <= i
  <2>1. PICK i \in S : t = n - i
    BY <1>2
  <2>2. \A j \in S : n - j \in T
    OBVIOUS
  <2>3. \A j \in S : n - i <= n - j
    BY <1>2, <2>1, <2>2
  <2> QED BY <2>1, <2>3
<1> QED BY <1>3 DEF CommitOfNewest

\* A spec is resolved to what it means now.
LEMMA ResolveIsMeant ==
  ASSUME NEW sv \in ServerState, NEW spec \in Specs, spec.by # "folder", resolve(sv, spec) # 0
  PROVE  resolve(sv, spec) \in Nat /\ Meant(sv, spec, resolve(sv, spec))
<1> DEFINE rs == sv.releases[spec.repo]
           Newest(i) == ~rs[i].beta /\ \A j \in i+1..Len(rs) : rs[j].beta
<1>0. /\ spec.repo \in SourceRepo /\ spec.what \in Nat
      /\ spec.by \in {"commit", "ref", "branch", "tag", "latest", "latest_beta", "previous", "strategy"}
  BY SpecsAre
<1>1. rs \in Seq(Release) /\ sv.heads[spec.repo] \in 1..MaxServed /\ MaxServed \in Nat
  BY <1>0, ProjectSourcesAssumption DEF ServerState
<1>2. /\ DOMAIN rs = 1..Len(rs) /\ Len(rs) \in Nat
      /\ \A i \in DOMAIN rs : rs[i] \in Release
  BY <1>1
<1>3. \A i \in DOMAIN rs : rs[i].commit \in Nat /\ rs[i].commit # 0 /\ rs[i].beta \in BOOLEAN
  BY <1>1, <1>2 DEF Release
<1> HIDE DEF rs
<1>4. Production(rs) \subseteq 1..Len(rs)
  BY <1>2 DEF Production
<1>5. ASSUME Production(rs) # {}
      PROVE  \E i \in DOMAIN rs : Newest(i) /\ CommitOfNewest(rs, Production(rs)) = rs[i].commit
  <2>1. PICK i \in Production(rs) :
          (\A j \in Production(rs) : j <= i) /\ CommitOfNewest(rs, Production(rs)) = rs[i].commit
    BY <1>2, <1>4, <1>5, NewestIsGreatest
  <2>2. i \in DOMAIN rs /\ ~rs[i].beta /\ \A j \in i+1..Len(rs) : rs[j].beta
    BY <1>2, <1>3, <2>1 DEF Production
  <2> QED BY <2>1, <2>2
<1>6. CASE spec.by = "commit"
  BY <1>0, <1>6 DEF resolve, Meant
<1>7. CASE spec.by \in {"ref", "branch"}
  <2>1. resolve(sv, spec) = sv.heads[spec.repo]
    BY <1>7 DEF resolve
  <2>2. Meant(sv, spec, resolve(sv, spec)) = (resolve(sv, spec) = sv.heads[spec.repo])
    BY <1>7 DEF Meant
  <2>3. sv.heads[spec.repo] \in Nat
    BY <1>1
  <2> QED BY <2>1, <2>2, <2>3
<1>8. CASE spec.by = "tag"
  <2>1. resolve(sv, spec) = IF spec.what \in DOMAIN rs THEN rs[spec.what].commit ELSE 0
    BY <1>8 DEF resolve, rs
  <2> QED BY <1>3, <1>8, <2>1 DEF Meant, rs
<1>9. CASE spec.by = "latest"
  <2>1. resolve(sv, spec) = CommitOfNewest(rs, Production(rs))
    BY <1>9 DEF resolve, rs, find_latest_release
  <2>2. Production(rs) # {}
    BY <2>1 DEF CommitOfNewest
  <2>3. PICK i \in DOMAIN rs : Newest(i) /\ resolve(sv, spec) = rs[i].commit
    BY <1>5, <2>1, <2>2
  <2>4. Meant(sv, spec, resolve(sv, spec)) = \E k \in DOMAIN rs : Newest(k) /\ resolve(sv, spec) = rs[k].commit
    BY <1>9 DEF Meant, rs
  <2> QED BY <1>3, <2>3, <2>4
<1>10. CASE spec.by = "latest_beta"
  <2>1. resolve(sv, spec) = CommitOfNewest(rs, DOMAIN rs)
    BY <1>10 DEF resolve, rs, find_latest_release
  <2>2. DOMAIN rs # {}
    BY <2>1 DEF CommitOfNewest
  <2>3. PICK i \in DOMAIN rs : (\A j \in DOMAIN rs : j <= i) /\ CommitOfNewest(rs, DOMAIN rs) = rs[i].commit
    BY <1>2, <2>2, NewestIsGreatest
  <2>4. i = Len(rs) /\ rs # <<>>
    <3>1. i \in 1..Len(rs) /\ Len(rs) \in Nat
      BY <1>2, <2>3
    <3>2. Len(rs) \in 1..Len(rs)
      BY <3>1
    <3>3. Len(rs) <= i
      BY <1>2, <2>3, <3>2
    <3>4. rs # <<>>
      BY <1>2, <2>2
    <3> QED BY <3>1, <3>3, <3>4
  <2>5. Meant(sv, spec, resolve(sv, spec)) = (rs # <<>> /\ resolve(sv, spec) = rs[Len(rs)].commit)
    BY <1>10 DEF Meant, rs
  <2> QED BY <1>3, <2>1, <2>3, <2>4, <2>5
<1>11. CASE spec.by = "previous"
  <2> DEFINE S == Older(Production(rs))
  <2>1. resolve(sv, spec) = CommitOfNewest(rs, S)
    BY <1>11 DEF resolve, rs, find_previous_release
  <2>2. S \subseteq Production(rs) /\ S # {}
    BY <2>1 DEF CommitOfNewest, Older
  <2>3. PICK i \in S : (\A k \in S : k <= i) /\ CommitOfNewest(rs, S) = rs[i].commit
    BY <1>2, <1>4, <2>2, NewestIsGreatest
  <2>4. PICK j \in Production(rs) : \A k \in Production(rs) : k <= j
    BY <1>2, <1>4, <2>2, NewestIsGreatest
  <2>5. i < j
    BY <1>4, <2>2, <2>3, <2>4 DEF Older
  <2>6. i \in DOMAIN rs /\ j \in DOMAIN rs /\ ~rs[i].beta /\ ~rs[j].beta
    BY <2>2, <2>3, <2>4 DEF Production
  <2>7. \A k \in j+1..Len(rs) : rs[k].beta
    BY <1>2, <1>3, <2>4, <2>6 DEF Production
  <2>8. \A k \in i+1..j-1 : rs[k].beta
    <3> SUFFICES ASSUME NEW k \in i+1..j-1, ~rs[k].beta PROVE FALSE
      BY <1>2, <1>3, <2>6
    <3>1. k \in Production(rs) /\ k < j
      BY <1>2, <2>6 DEF Production
    <3>2. k \in S
      BY <3>1 DEF Older
    <3> QED BY <1>2, <2>3, <2>6, <3>2
  <2>9. Meant(sv, spec, resolve(sv, spec)) =
          \E m, n \in DOMAIN rs : /\ Newest(n) /\ m < n /\ ~rs[m].beta /\ resolve(sv, spec) = rs[m].commit
                                  /\ \A k \in m+1..n-1 : rs[k].beta
    BY <1>11 DEF Meant, rs
  <2>10. resolve(sv, spec) = rs[i].commit
    BY <2>1, <2>3
  <2> HIDE DEF S
  <2> QED BY <1>3, <2>5, <2>6, <2>7, <2>8, <2>9, <2>10
<1>12. CASE spec.by = "strategy"
  <2>1. resolve(sv, spec) = IF Production(rs) = {} THEN sv.heads[spec.repo]
                            ELSE CommitOfNewest(rs, Production(rs))
    BY <1>12 DEF resolve, rs, find_latest_release
  <2>2. Production(rs) = {} <=> \A k \in DOMAIN rs : rs[k].beta
    BY DEF Production
  <2>3. sv.heads[spec.repo] \in Nat
    BY <1>1
  <2>4. CASE Production(rs) = {}
    <3>1. Meant(sv, spec, resolve(sv, spec)) = (resolve(sv, spec) = sv.heads[spec.repo])
      BY <1>12, <2>2, <2>4 DEF Meant, rs
    <3> QED BY <2>1, <2>3, <2>4, <3>1
  <2>5. CASE Production(rs) # {}
    <3>1. PICK i \in DOMAIN rs : Newest(i) /\ resolve(sv, spec) = rs[i].commit
      BY <1>5, <2>1, <2>5
    <3>2. Meant(sv, spec, resolve(sv, spec)) = \E k \in DOMAIN rs : Newest(k) /\ resolve(sv, spec) = rs[k].commit
      BY <1>12, <2>2, <2>5 DEF Meant, rs
    <3> QED BY <1>3, <3>1, <3>2
  <2> QED BY <2>4, <2>5
<1> QED BY <1>0, <1>6, <1>7, <1>8, <1>9, <1>10, <1>11, <1>12

\* What is meant was meant: the server only gets later states.
LEMMA OKServed ==
  ASSUME NEW r \in RunnerState, NEW t, NEW dirs, NEW sv \in Seq(ServerState), NEW s \in ServerState,
         RunnerOK(r, t, dirs, sv)
  PROVE  RunnerOK(r, t, dirs, Append(sv, s))
<1> DEFINE sv2 == Append(sv, s)
<1>1. Len(sv2) = Len(sv) + 1 /\ Len(sv) \in Nat /\ \A i \in 1..Len(sv) : sv2[i] = sv[i]
  OBVIOUS
<1> HIDE DEF sv2
<1>2. r.since \in 1..Len(sv) /\ r.since \in 1..Len(sv2)
  BY <1>1 DEF RunnerOK
<1>3. \A spec, commit : WasMeant(sv, r.since, spec, commit) => WasMeant(sv2, r.since, spec, commit)
  <2> SUFFICES ASSUME NEW spec, NEW commit, WasMeant(sv, r.since, spec, commit)
               PROVE  WasMeant(sv2, r.since, spec, commit)
    OBVIOUS
  <2>1. PICK i \in r.since..Len(sv) : Meant(sv[i], spec, commit)
    BY DEF WasMeant
  <2>2. i \in r.since..Len(sv2) /\ sv2[i] = sv[i]
    BY <1>1, <1>2
  <2> QED BY <2>1, <2>2 DEF WasMeant
<1>4. \A a \in r.answers : Given(r, a, t, dirs, sv2)
  BY <1>3 DEF RunnerOK, Given
<1> QED BY <1>2, <1>3, <1>4 DEF RunnerOK, sv2

\* What others do in a directory.
LEMMA OKElsewhere ==
  ASSUME NEW r \in RunnerState, NEW t, NEW dirs, NEW sv, NEW d, NEW dirs2, RunnerOK(r, t, dirs, sv),
         \A e \in DOMAIN dirs : e # d => e \in DOMAIN dirs2 /\ dirs2[e] = dirs[e]
  PROVE  RunnerOK(r, t \cup {d}, dirs2, sv)
<1>1. \A e : e \in t \/ IsWhole(dirs, e) => e \in t \cup {d} \/ IsWhole(dirs2, e)
  BY DEF IsWhole
<1>2. \A a \in r.answers : Given(r, a, t \cup {d}, dirs2, sv)
  BY <1>1 DEF RunnerOK, Given
<1>3. Extracted(r.fetch, t, dirs) => Extracted(r.fetch, t \cup {d}, dirs2)
  BY DEF Extracted
<1> QED BY <1>2, <1>3 DEF RunnerOK

\* A directory is made.
LEMMA OKOpened ==
  ASSUME NEW r \in RunnerState, NEW t, NEW dirs, NEW sv, NEW dirs2, RunnerOK(r, t, dirs, sv),
         \A e \in DOMAIN dirs : e \in DOMAIN dirs2 /\ dirs2[e] = dirs[e]
  PROVE  RunnerOK(r, t, dirs2, sv)
<1>1. \A e : IsWhole(dirs, e) => IsWhole(dirs2, e)
  BY DEF IsWhole
<1>2. \A a \in r.answers : Given(r, a, t, dirs2, sv)
  BY <1>1 DEF RunnerOK, Given
<1>3. Extracted(r.fetch, t, dirs) => Extracted(r.fetch, t, dirs2)
  BY DEF Extracted
<1> QED BY <1>2, <1>3 DEF RunnerOK

\* What is being written is cut by another, who was there.
LEMMA OKCut ==
  ASSUME NEW r \in RunnerState, NEW t, NEW dirs, NEW sv, RunnerOK(r, t, dirs, sv),
         r.fetch.stage = "extract", FetchDir(r.fetch) \in t
  PROVE  Cut(r) \in RunnerState /\ RunnerOK(Cut(r), t, dirs, sv)
<1> DEFINE f == [r.fetch EXCEPT !.cut = TRUE]
           x == [r EXCEPT !.fetch.cut = TRUE]
<1>1. r.fetch \in [stage : {"extract"}, asker : Projects, spec : Specs, commit : Nat,
                   left : SUBSET SourceFile, writing : SUBSET SourceFile, cut : BOOLEAN]
  BY FetchIs DEF RunnerState
<1>2. /\ f \in [stage : {"extract"}, asker : Projects, spec : Specs, commit : Nat,
                left : SUBSET SourceFile, writing : SUBSET SourceFile, cut : BOOLEAN]
      /\ f.stage = "extract" /\ f.spec = r.fetch.spec /\ f.commit = r.fetch.commit
      /\ f.left = r.fetch.left /\ f.writing = r.fetch.writing
  BY <1>1
<1>3. x.fetch = f /\ x.included = r.included /\ x.answers = r.answers /\ x.since = r.since
  BY DEF RunnerState
<1>4. f \in Fetches
  BY <1>2 DEF Fetches
<1>5. x \in RunnerState
  <2>1. x = [included |-> r.included, answers |-> r.answers, fetch |-> f, since |-> r.since]
    <3>1. x = [r EXCEPT !.fetch = f]
      OBVIOUS
    <3> HIDE DEF f, x
    <3> QED BY <3>1 DEF RunnerState
  <2> HIDE DEF f, x
  <2> QED BY <1>4, <2>1 DEF RunnerState
<1>6. FetchDir(f) = FetchDir(r.fetch)
  BY <1>2 DEF FetchDir
<1> HIDE DEF f, x
<1>7. \A a \in x.answers : Given(x, a, t, dirs, sv) /\ IsKept(x, a)
  BY <1>2, <1>3, <1>6 DEF RunnerOK, Given, IsKept
<1>8. Extracted(f, t, dirs)
  BY <1>2, <1>6 DEF RunnerOK, Extracted
<1>9. RunnerOK(x, t, dirs, sv)
  BY <1>2, <1>3, <1>7, <1>8 DEF RunnerOK
<1> QED BY <1>5, <1>9 DEF x, Cut

\* A command that begins.
LEMMA OKFresh ==
  ASSUME NEW t, NEW dirs, served \in Seq(ServerState), Len(served) \in 1..MaxServed
  PROVE  Fresh \in RunnerState /\ RunnerOK(Fresh, t, dirs, served)
<1>1. /\ Fresh.included = <<>> /\ Fresh.answers = {} /\ Fresh.fetch = Resting
      /\ Fresh.since = Len(served) /\ Resting.stage = "idle"
      /\ Fresh = [included |-> <<>>, answers |-> {}, fetch |-> Resting, since |-> Len(served)]
  BY DEF Fresh, Resting
<1>2. <<>> \in Inclusions /\ DOMAIN <<>> = {}
  <2>1. <<>> \in [{} -> Projects] /\ {} \in SUBSET Specs
    OBVIOUS
  <2> QED BY <2>1, InclusionsAre
<1>3. Resting \in Fetches /\ Len(served) \in Nat /\ Len(served) \in 1..Len(served)
  BY ProjectSourcesAssumption DEF Resting, Fetches
<1>4. Fresh \in RunnerState
  BY <1>1, <1>2, <1>3 DEF RunnerState
<1>5. RunnerOK(Fresh, t, dirs, served)
  BY <1>1, <1>2, <1>3 DEF RunnerOK
<1> QED BY <1>4, <1>5

LEMMA SourcesInvInit == SourcesInit => SourcesInv
<1> SUFFICES ASSUME SourcesInit PROVE SourcesInv
  OBVIOUS
<1> DEFINE s == [heads |-> [r \in SourceRepo |-> 1], releases |-> [r \in SourceRepo |-> <<>>]]
<1>1. served = <<s>> /\ projectDirs = <<>> /\ touched = [p \in Runner |-> {}]
  BY DEF SourcesInit
<1>2. s \in ServerState /\ \A r \in SourceRepo : s.heads[r] = 1
  <2>1. 1 \in 1..MaxServed /\ <<>> \in Seq(Release)
    BY ProjectSourcesAssumption
  <2> QED BY <2>1 DEF ServerState
<1> HIDE DEF s
<1>3. served \in Seq(ServerState) /\ Len(served) = 1 /\ Server = s /\ 1 \in 1..MaxServed
  BY <1>1, <1>2, ProjectSourcesAssumption DEF Server, Last
<1>4. \A p \in Runner : runners[p] = Fresh
  BY <1>3 DEF SourcesInit, Fresh
<1>5. Fresh \in RunnerState /\ \A p \in Runner : RunnerOK(Fresh, touched[p], projectDirs, served)
  BY <1>3, OKFresh
<1>6. runners = [p \in Runner |-> Fresh]
  BY <1>3 DEF SourcesInit, Fresh
<1>7. SourcesTyped
  <2>1. DOMAIN projectDirs = {}
    BY <1>1
  <2>2. runners \in [Runner -> RunnerState]
    BY <1>5, <1>6
  <2> QED BY <1>1, <1>3, <2>1, <2>2 DEF SourcesTyped
<1>8. \A r \in SourceRepo : Server.heads[r] <= Len(served)
  BY <1>2, <1>3
<1>9. \A p \in Runner : RunnerOK(runners[p], touched[p], projectDirs, served)
  BY <1>4, <1>5
<1> QED BY <1>7, <1>8, <1>9 DEF SourcesInv

\* A step of a command that at most makes a directory.
LEMMA OwnStep ==
  ASSUME SourcesInv, NEW p \in Runner, NEW x \in RunnerState, NEW t \in SUBSET (SourceRepo \X (0..MaxServed)),
         served' = served, runners' = [runners EXCEPT ![p] = x], touched' = [touched EXCEPT ![p] = t],
         \A e \in DOMAIN projectDirs : e \in DOMAIN projectDirs' /\ projectDirs'[e] = projectDirs[e],
         \A e \in DOMAIN projectDirs' : projectDirs'[e] \in DirState,
         RunnerOK(x, t, projectDirs', served)
  PROVE  SourcesInv'
<1>1. runners' \in [Runner -> RunnerState] /\ touched' \in [Runner -> SUBSET (SourceRepo \X (0..MaxServed))]
  BY DEF SourcesInv, SourcesTyped
<1>2. runners'[p] = x /\ touched'[p] = t
      /\ \A q \in Runner : q # p => runners'[q] = runners[q] /\ touched'[q] = touched[q]
  BY DEF SourcesInv, SourcesTyped
<1>3. ASSUME NEW q \in Runner PROVE RunnerOK(runners'[q], touched'[q], projectDirs', served')
  <2>1. CASE q = p
    BY <1>2, <2>1
  <2>2. CASE q # p
    <3>1. runners[q] \in RunnerState /\ RunnerOK(runners[q], touched[q], projectDirs, served)
      BY DEF SourcesInv, SourcesTyped
    <3>2. RunnerOK(runners[q], touched[q], projectDirs', served)
      BY <3>1, OKOpened
    <3> QED BY <1>2, <2>2, <3>2
  <2> QED BY <2>1, <2>2
<1>4. SourcesTyped'
  BY <1>1 DEF SourcesInv, SourcesTyped
<1>5. (\A r \in SourceRepo : Server.heads[r] <= Len(served))'
  BY DEF SourcesInv, Server
<1> QED BY <1>3, <1>4, <1>5 DEF SourcesInv

\* A step of a command in a directory that the others see too.
TouchedBy(p, t, d) == [q \in Runner |-> IF q = p THEN t ELSE touched[q] \cup {d}]
OthersGoOn(p, d) ==
  \A q \in Runner : q # p =>
    \/ runners'[q] = runners[q]
    \/ /\ runners[q].fetch.stage = "extract" /\ FetchDir(runners[q].fetch) = d
       /\ runners'[q] = Cut(runners[q])
DirsElsewhere(d) ==
  /\ \A e \in DOMAIN projectDirs : e # d => e \in DOMAIN projectDirs' /\ projectDirs'[e] = projectDirs[e]
  /\ \A e \in DOMAIN projectDirs' : projectDirs'[e] \in DirState

LEMMA SharedStep ==
  ASSUME SourcesInv, NEW p \in Runner, NEW d \in SourceRepo \X (0..MaxServed),
         NEW t \in SUBSET (SourceRepo \X (0..MaxServed)),
         served' = served, touched' = TouchedBy(p, t, d), runners' \in [Runner -> RunnerState],
         OthersGoOn(p, d), DirsElsewhere(d), RunnerOK(runners'[p], t, projectDirs', served)
  PROVE  SourcesInv'
<1>1. touched' \in [Runner -> SUBSET (SourceRepo \X (0..MaxServed))]
  <2>1. \A q \in Runner : touched[q] \in SUBSET (SourceRepo \X (0..MaxServed))
    BY DEF SourcesInv, SourcesTyped
  <2>2. \A q \in Runner : (IF q = p THEN t ELSE touched[q] \cup {d}) \in SUBSET (SourceRepo \X (0..MaxServed))
    BY <2>1
  <2> QED BY <2>2 DEF TouchedBy
<1>2. touched'[p] = t /\ \A q \in Runner : q # p => touched'[q] = touched[q] \cup {d}
  BY DEF TouchedBy
<1>3. ASSUME NEW q \in Runner PROVE RunnerOK(runners'[q], touched'[q], projectDirs', served')
  <2>1. CASE q = p
    BY <1>2, <2>1
  <2>2. CASE q # p
    <3>1. runners[q] \in RunnerState /\ RunnerOK(runners[q], touched[q], projectDirs, served)
      BY DEF SourcesInv, SourcesTyped
    <3>2. RunnerOK(runners[q], touched[q] \cup {d}, projectDirs', served)
      <4>1. \A e \in DOMAIN projectDirs : e # d => e \in DOMAIN projectDirs' /\ projectDirs'[e] = projectDirs[e]
        BY DEF DirsElsewhere
      <4> QED BY ONLY <3>1, <4>1, OKElsewhere
    <3>3. d \in touched[q] \cup {d}
      OBVIOUS
    <3>4. CASE runners'[q] = runners[q]
      BY <1>2, <2>2, <3>2, <3>4
    <3>5. CASE /\ runners[q].fetch.stage = "extract" /\ FetchDir(runners[q].fetch) = d
               /\ runners'[q] = Cut(runners[q])
      <4>1. RunnerOK(Cut(runners[q]), touched[q] \cup {d}, projectDirs', served)
        BY <3>1, <3>2, <3>3, <3>5, OKCut
      <4> QED BY <1>2, <2>2, <3>5, <4>1
    <3> QED BY <2>2, <3>4, <3>5 DEF OthersGoOn
  <2> QED BY <2>1, <2>2
<1>4. SourcesTyped'
  BY <1>1 DEF SourcesInv, SourcesTyped, DirsElsewhere
<1>5. (\A r \in SourceRepo : Server.heads[r] <= Len(served))'
  BY DEF SourcesInv, Server
<1> QED BY <1>3, <1>4, <1>5 DEF SourcesInv

\* A project that was fetched, or is a folder, is given and kept.
LEMMA OKLoaded ==
  ASSUME NEW r \in RunnerState, NEW t, NEW dirs, NEW sv, RunnerOK(r, t, dirs, sv),
         NEW asker \in Projects, NEW spec \in Specs, spec \notin DOMAIN r.included, NEW project \in Projects,
         NEW p, NEW x, x = [r EXCEPT !.fetch = Resting, !.included = Kept(@, asker, spec, project),
                                     !.answers = @ \cup {Answer(p, asker, spec, project)}],
         \A a \in r.answers : Given(x, a, t, dirs, sv), Given(x, Answer(p, asker, spec, project), t, dirs, sv)
  PROVE  x \in RunnerState /\ RunnerOK(x, t, dirs, sv)
<1> DEFINE kept == Kept(r.included, asker, spec, project)
           b == Answer(p, asker, spec, project)
<1>1. /\ x.fetch = Resting /\ x.included = kept /\ x.answers = r.answers \cup {b} /\ x.since = r.since
      /\ x = [included |-> kept, answers |-> r.answers \cup {b}, fetch |-> Resting, since |-> r.since]
  <2> HIDE DEF kept, b
  <2>1. x = [r EXCEPT !.fetch = Resting, !.included = kept, !.answers = r.answers \cup {b}]
    BY DEF kept, b
  <2> QED BY <2>1 DEF RunnerState
<1>2. b \in AnswerSet /\ b.asker = asker /\ b.spec = spec /\ b.project = project
  BY DEF Answer, AnswerSet
<1>3. r.included \in Inclusions /\ r.answers \in SUBSET AnswerSet /\ r.since \in Nat
  BY DEF RunnerState
<1>4. DOMAIN r.included \subseteq Specs /\ \A y \in DOMAIN r.included : r.included[y] \in Projects
  BY <1>3, InclusionIs
<1>5. /\ \A y \in DOMAIN r.included : y \in DOMAIN kept /\ kept[y] = r.included[y]
      /\ ~spec.code \/ asker.code => spec \in DOMAIN kept /\ kept[spec] = project
      /\ \A y \in DOMAIN kept : y \in DOMAIN r.included \/ (y = spec /\ kept[y] = project)
  BY DEF Kept
<1>6. kept \in Inclusions
  <2>1. CASE ~asker.code /\ spec.code
    BY <1>3, <2>1 DEF Kept
  <2>2. CASE ~(~asker.code /\ spec.code)
    <3>1. kept = [y \in DOMAIN r.included \cup {spec} |-> IF y = spec THEN project ELSE r.included[y]]
      BY <2>2 DEF Kept
    <3> HIDE DEF kept
    <3>2. kept \in [DOMAIN r.included \cup {spec} -> Projects] /\ DOMAIN r.included \cup {spec} \in SUBSET Specs
      BY <1>4, <3>1
    <3> QED BY <3>2, InclusionsAre
  <2> QED BY <2>1, <2>2
<1>7. Resting \in Fetches /\ Resting.stage = "idle"
  BY DEF Resting, Fetches
<1> HIDE DEF kept, b
<1>8. x \in RunnerState
  BY <1>1, <1>2, <1>3, <1>6, <1>7 DEF RunnerState
<1>9. \A a \in x.answers : Given(x, a, t, dirs, sv)
  BY <1>1 DEF b
<1>10. \A a \in x.answers : IsKept(x, a)
  <2>1. \A a \in r.answers : IsKept(r, a)
    BY DEF RunnerOK
  <2>2. \A a \in r.answers : IsKept(x, a)
    BY <1>1, <1>5, <2>1 DEF IsKept
  <2>3. IsKept(x, b)
    BY <1>1, <1>2, <1>5 DEF IsKept
  <2> QED BY <1>1, <2>2, <2>3
<1>11. \A y \in DOMAIN x.included : \E a \in x.answers : a.spec = y /\ a.project = x.included[y]
  <2> SUFFICES ASSUME NEW y \in DOMAIN kept PROVE \E a \in r.answers \cup {b} : a.spec = y /\ a.project = kept[y]
    BY <1>1
  <2>1. CASE y \in DOMAIN r.included
    <3>1. PICK a \in r.answers : a.spec = y /\ a.project = r.included[y]
      BY <2>1 DEF RunnerOK
    <3> QED BY <1>5, <2>1, <3>1
  <2>2. CASE y = spec /\ kept[y] = project
    BY <1>2, <2>2
  <2> QED BY <1>5, <2>1, <2>2
<1>12. x.since \in 1..Len(sv)
  BY <1>1 DEF RunnerOK
<1>13. RunnerOK(x, t, dirs, sv)
  BY <1>1, <1>7, <1>9, <1>10, <1>11, <1>12 DEF RunnerOK
<1> QED BY <1>8, <1>13

\* A step of the server.
LEMMA ServesStep ==
  ASSUME SourcesInv, NEW s \in ServerState, Serves(s),
         \A r \in SourceRepo : s.heads[r] <= Len(served) + 1
  PROVE  SourcesInv'
<1>1. /\ served' = Append(served, s) /\ Len(served) < MaxServed
      /\ projectDirs' = projectDirs /\ runners' = runners /\ touched' = touched
  BY DEF Serves
<1>2. served \in Seq(ServerState) /\ Len(served) \in 1..MaxServed /\ MaxServed \in Nat
  BY ProjectSourcesAssumption DEF SourcesInv, SourcesTyped
<1>3. served' \in Seq(ServerState) /\ Len(served') = Len(served) + 1 /\ served'[Len(served')] = s
  BY <1>1, <1>2
<1>4. Server' = s
  BY <1>3 DEF Server, Last
<1>5. Len(served') \in 1..MaxServed
  BY <1>1, <1>2, <1>3
<1>6. SourcesTyped'
  BY <1>1, <1>3, <1>5 DEF SourcesInv, SourcesTyped
<1>7. ASSUME NEW p \in Runner PROVE RunnerOK(runners[p], touched[p], projectDirs, served')
  <2>1. runners[p] \in RunnerState /\ RunnerOK(runners[p], touched[p], projectDirs, served)
    BY DEF SourcesInv, SourcesTyped
  <2> QED BY <1>1, <1>2, <2>1, OKServed
<1>8. (\A r \in SourceRepo : Server.heads[r] <= Len(served))'
  BY <1>3, <1>4
<1> QED BY <1>1, <1>6, <1>7, <1>8 DEF SourcesInv

LEMMA RunnersAre ==
  ASSUME SourcesInv, NEW p \in Runner
  PROVE  /\ runners[p] \in RunnerState /\ RunnerOK(runners[p], touched[p], projectDirs, served)
         /\ runners[p].fetch \in Fetches /\ runners[p].answers \subseteq AnswerSet /\ runners[p].included \in Inclusions
         /\ runners[p].since \in Nat
         /\ touched[p] \in SUBSET (SourceRepo \X (0..MaxServed)) /\ touched = [touched EXCEPT ![p] = touched[p]]
         /\ served \in Seq(ServerState) /\ Len(served) \in 1..MaxServed
         /\ \A e \in DOMAIN projectDirs : projectDirs[e] \in DirState
<1>1. runners \in [Runner -> RunnerState] /\ touched \in [Runner -> SUBSET (SourceRepo \X (0..MaxServed))]
  BY DEF SourcesInv, SourcesTyped
<1>2. runners[p] \in RunnerState /\ touched[p] \in SUBSET (SourceRepo \X (0..MaxServed))
      /\ touched = [touched EXCEPT ![p] = touched[p]]
  BY <1>1
<1>3. RunnerOK(runners[p], touched[p], projectDirs, served)
  BY DEF SourcesInv
<1> QED BY <1>2, <1>3 DEF RunnerState, SourcesInv, SourcesTyped

LEMMA EndsStep ==
  ASSUME SourcesInv, NEW p \in Runner, CommandEnds(p), served' = served,
         \A e \in DOMAIN projectDirs : e \in DOMAIN projectDirs' /\ projectDirs'[e] = projectDirs[e],
         \A e \in DOMAIN projectDirs' : projectDirs'[e] \in DirState
  PROVE  SourcesInv'
<1>1. Fresh \in RunnerState /\ RunnerOK(Fresh, {}, projectDirs', served)
  BY OKFresh DEF SourcesInv, SourcesTyped
<1>2. runners' = [runners EXCEPT ![p] = Fresh] /\ touched' = [touched EXCEPT ![p] = {}]
  BY DEF CommandEnds
<1>3. {} \in SUBSET (SourceRepo \X (0..MaxServed))
  OBVIOUS
<1> HIDE DEF Fresh
<1> QED BY <1>1, <1>2, <1>3, OwnStep

LEMMA IncludeStep ==
  ASSUME SourcesInv, NEW p \in Runner, NEW asker, NEW spec, include_source(p, asker, spec)
  PROVE  SourcesInv'
<1> DEFINE r == runners[p]
           t == touched[p]
<1>0. /\ r \in RunnerState /\ RunnerOK(r, t, projectDirs, served) /\ r.answers \subseteq AnswerSet
      /\ r.included \in Inclusions /\ r.fetch \in Fetches /\ r.since \in Nat
      /\ t \in SUBSET (SourceRepo \X (0..MaxServed)) /\ touched = [touched EXCEPT ![p] = t]
      /\ \A e \in DOMAIN projectDirs : projectDirs[e] \in DirState
  BY RunnersAre
<1>1. /\ served' = served /\ projectDirs' = projectDirs /\ touched' = touched /\ r.fetch.stage = "idle"
      /\ asker \in {Root} \cup {a.project : a \in r.answers} /\ spec \in SourcesOf[asker.repo]
  BY DEF include_source, Stage
<1>2. asker \in Projects
  <2>1. Root \in Projects
    BY ProjectSourcesAssumption DEF Root, SourceProject, Projects
  <2>2. \A a \in r.answers : a.project \in Projects
    BY <1>0 DEF AnswerSet
  <2> QED BY <1>1, <2>1, <2>2
<1>3. asker.repo \in DOMAIN SourcesOf /\ asker.code \in BOOLEAN
  BY <1>2 DEF Projects
<1>4. spec \in Specs
  BY <1>1, <1>3 DEF Specs
<1>5. spec.repo \in DOMAIN SourcesOf /\ spec.code \in BOOLEAN
  BY <1>4, SpecsAre
<1>6. CASE spec \in DOMAIN r.included
  <2> DEFINE b == Answer(p, asker, spec, r.included[spec])
             x == [r EXCEPT !.answers = r.answers \cup {b}]
  <2>1. runners' = [runners EXCEPT ![p].answers = @ \cup {b}]
    BY <1>6 DEF include_source
  <2>2. runners' = [runners EXCEPT ![p] = x]
    BY <2>1
  <2>3. b \in AnswerSet /\ b.asker = asker /\ b.spec = spec /\ b.project = r.included[spec]
    <3>1. r.included[spec] \in Projects
      BY <1>0, <1>6, InclusionIs
    <3> QED BY <1>2, <1>4, <3>1 DEF Answer, AnswerSet
  <2> HIDE DEF b, r
  <2>4. /\ x.included = r.included /\ x.fetch = r.fetch /\ x.since = r.since
        /\ x.answers = r.answers \cup {b} /\ x \in RunnerState
    <3> DEFINE more == r.answers \cup {b}
    <3>1. more \in SUBSET AnswerSet
      BY <1>0, <2>3
    <3> HIDE DEF more
    <3> QED BY <1>0, <3>1 DEF RunnerState, more
  <2> HIDE DEF x
  <2>6. PICK a \in r.answers : a.spec = spec /\ a.project = r.included[spec]
    BY <1>0, <1>6 DEF RunnerOK
  <2>7. \A c \in r.answers : Given(x, c, t, projectDirs, served) /\ IsKept(x, c)
    BY <1>0, <2>4 DEF RunnerOK, Given, IsKept
  <2>8. Given(x, b, t, projectDirs, served) /\ IsKept(x, b)
    BY <1>6, <2>3, <2>4, <2>6, <2>7 DEF Given, IsKept
  <2>9. \A y \in DOMAIN x.included : \E c \in x.answers : c.spec = y /\ c.project = x.included[y]
    BY <1>0, <2>4 DEF RunnerOK
  <2>10. RunnerOK(x, t, projectDirs, served)
    BY <1>0, <1>1, <2>4, <2>7, <2>8, <2>9 DEF RunnerOK
  <2> QED BY <1>0, <1>1, <2>2, <2>4, <2>10, OwnStep DEF r
<1>7. CASE spec \notin DOMAIN r.included /\ spec.by = "folder"
  <2> DEFINE project == SourceProject(spec.repo, 0, spec.code /\ asker.code)
             x == [r EXCEPT !.fetch = Resting, !.included = Kept(@, asker, spec, project),
                            !.answers = @ \cup {Answer(p, asker, spec, project)}]
  <2>1. Loaded(p, asker, spec, project)
    BY <1>7 DEF include_source
  <2>2. project \in Projects
    BY <1>3, <1>5 DEF SourceProject, Projects
  <2> HIDE DEF project
  <2>3. runners' = [runners EXCEPT ![p] = x]
    BY <2>1 DEF Loaded
  <2>4. x.since = r.since
    BY <1>0 DEF RunnerState
  <2> HIDE DEF x, r
  <2>5. \A a \in r.answers : Given(x, a, t, projectDirs, served)
    BY <1>0, <1>1, <2>4 DEF RunnerOK, Given
  <2>6. Given(x, Answer(p, asker, spec, project), t, projectDirs, served)
    BY <1>7 DEF Given, Answer
  <2>7. x \in RunnerState /\ RunnerOK(x, t, projectDirs, served)
    BY <1>0, <1>2, <1>4, <1>7, <2>2, <2>5, <2>6, OKLoaded DEF x
  <2> QED BY <1>0, <1>1, <2>3, <2>7, OwnStep DEF r
<1>8. CASE spec \notin DOMAIN r.included /\ spec.by # "folder"
  <2> DEFINE f == [stage |-> "resolve", asker |-> asker, spec |-> spec]
             x == [r EXCEPT !.fetch = f]
  <2>1. runners' = [runners EXCEPT ![p].fetch = f]
    BY <1>8 DEF include_source, Fetching
  <2>2. f \in Fetches /\ f.stage = "resolve" /\ f.spec = spec
    BY <1>2, <1>4 DEF Fetches
  <2> HIDE DEF f
  <2>3. runners' = [runners EXCEPT ![p] = x]
    BY <2>1
  <2>4. x \in RunnerState /\ x.included = r.included /\ x.answers = r.answers /\ x.fetch = f /\ x.since = r.since
    BY <1>0, <2>2 DEF RunnerState
  <2> HIDE DEF x, r
  <2>5. \A a \in r.answers : Given(x, a, t, projectDirs, served) /\ IsKept(x, a)
    BY <1>0, <1>1, <2>4 DEF RunnerOK, Given, IsKept
  <2>6. RunnerOK(x, t, projectDirs, served)
    BY <1>0, <1>8, <2>2, <2>4, <2>5 DEF RunnerOK
  <2> QED BY <1>0, <1>1, <2>3, <2>4, <2>6, OwnStep DEF r
<1> QED BY <1>6, <1>7, <1>8

LEMMA ResolveStep ==
  ASSUME SourcesInv, NEW p \in Runner, ResolveSpec(p)
  PROVE  SourcesInv'
<1> DEFINE r == runners[p]
           t == touched[p]
           commit == resolve(Server, r.fetch.spec)
<1>0. /\ r \in RunnerState /\ RunnerOK(r, t, projectDirs, served) /\ r.answers \subseteq AnswerSet
      /\ r.included \in Inclusions /\ r.fetch \in Fetches /\ r.since \in Nat
      /\ t \in SUBSET (SourceRepo \X (0..MaxServed)) /\ touched = [touched EXCEPT ![p] = t]
      /\ served \in Seq(ServerState) /\ Len(served) \in 1..MaxServed
      /\ \A e \in DOMAIN projectDirs : projectDirs[e] \in DirState
  BY RunnersAre
<1>1. served' = served /\ projectDirs' = projectDirs /\ r.fetch.stage = "resolve"
  BY DEF ResolveSpec, Stage
<1>2. r.fetch.asker \in Projects /\ r.fetch.spec \in Specs /\ r.fetch.spec.by # "folder"
      /\ r.fetch.spec \notin DOMAIN r.included
  BY <1>0, <1>1, FetchIs DEF RunnerOK
<1>3. CASE commit = 0
  <2>1. CommandEnds(p)
    BY <1>3 DEF ResolveSpec
  <2> QED BY <1>0, <1>1, <2>1, EndsStep
<1>4. CASE commit # 0
  <2> DEFINE f == [stage |-> "download", asker |-> r.fetch.asker, spec |-> r.fetch.spec, commit |-> commit]
             x == [r EXCEPT !.fetch = f]
  <2>1. Fetching(p, f) /\ touched' = touched
    BY <1>4 DEF ResolveSpec
  <2>2. Server \in ServerState /\ Server = served[Len(served)]
    BY <1>0 DEF Server, Last
  <2>3. commit \in Nat /\ Meant(Server, r.fetch.spec, commit)
    BY <1>2, <1>4, <2>2, ResolveIsMeant
  <2> HIDE DEF commit
  <2>4. f \in Fetches /\ f.stage = "download" /\ f.spec = r.fetch.spec /\ f.commit = commit
    BY <1>2, <2>3 DEF Fetches
  <2> HIDE DEF f
  <2>5. runners' = [runners EXCEPT ![p] = x]
    BY <2>1 DEF Fetching
  <2>6. x \in RunnerState /\ x.included = r.included /\ x.answers = r.answers /\ x.fetch = f /\ x.since = r.since
    BY <1>0, <2>4 DEF RunnerState
  <2> HIDE DEF x, r
  <2>7. \A a \in r.answers : Given(x, a, t, projectDirs, served) /\ IsKept(x, a)
    BY <1>0, <1>1, <2>6 DEF RunnerOK, Given, IsKept
  <2>8. WasMeant(served, x.since, f.spec, f.commit)
    <3>1. Len(served) \in r.since..Len(served)
      BY <1>0 DEF RunnerOK
    <3> QED BY <2>2, <2>3, <2>4, <2>6, <3>1 DEF WasMeant
  <2>9. RunnerOK(x, t, projectDirs, served)
    BY <1>0, <1>2, <2>4, <2>6, <2>7, <2>8 DEF RunnerOK
  <2> QED BY <1>0, <1>1, <2>1, <2>5, <2>6, <2>9, OwnStep DEF r
<1> QED BY <1>3, <1>4

\* A directory that is made is empty, and the others are as they were.
LEMMA OpenedIs ==
  ASSUME NEW d, \A e \in DOMAIN projectDirs : projectDirs[e] \in DirState
  PROVE  /\ DOMAIN Opened(d) = DOMAIN projectDirs \cup {d}
         /\ \A e \in DOMAIN projectDirs : Opened(d)[e] = projectDirs[e]
         /\ \A e \in DOMAIN Opened(d) : Opened(d)[e] \in DirState
<1>1. Empty \in DirState
  BY DEF Empty, DirState
<1> QED BY <1>1 DEF Opened

LEMMA DownloadStep ==
  ASSUME SourcesInv, NEW p \in Runner, NEW works, Download(p, works)
  PROVE  SourcesInv'
<1> DEFINE r == runners[p]
           t == touched[p]
           d == DirOfFetch(p)
           left == Left(d)
           f == [stage |-> "extract", asker |-> r.fetch.asker, spec |-> r.fetch.spec, commit |-> r.fetch.commit,
                 left |-> left, writing |-> {}, cut |-> FALSE]
<1>0. /\ r \in RunnerState /\ RunnerOK(r, t, projectDirs, served) /\ r.answers \subseteq AnswerSet
      /\ r.included \in Inclusions /\ r.fetch \in Fetches /\ r.since \in Nat
      /\ t \in SUBSET (SourceRepo \X (0..MaxServed))
      /\ served \in Seq(ServerState) /\ Len(served) \in 1..MaxServed
      /\ \A e \in DOMAIN projectDirs : projectDirs[e] \in DirState
  BY RunnersAre
<1>1. served' = served /\ projectDirs' = Opened(d) /\ r.fetch.stage = "download"
  BY DEF Download, Stage
<1>2. /\ \A e \in DOMAIN projectDirs : e \in DOMAIN projectDirs' /\ projectDirs'[e] = projectDirs[e]
      /\ \A e \in DOMAIN projectDirs' : projectDirs'[e] \in DirState
      /\ d \in DOMAIN projectDirs'
  BY <1>0, <1>1, OpenedIs
<1>3. r.fetch.asker \in Projects /\ r.fetch.spec \in Specs /\ r.fetch.spec.by # "folder" /\ r.fetch.commit \in Nat
      /\ r.fetch.spec \notin DOMAIN r.included /\ WasMeant(served, r.since, r.fetch.spec, r.fetch.commit)
  BY <1>0, <1>1, FetchIs DEF RunnerOK
<1>4. CASE CommandEnds(p)
  BY <1>1, <1>2, <1>4, EndsStep
<1>5. CASE ~CommandEnds(p)
  <2>1. /\ r.fetch.commit <= Server.heads[r.fetch.spec.repo]
        /\ Fetching(p, f) /\ touched' = [touched EXCEPT ![p] = @ \ {d}]
    BY <1>5 DEF Download
  <2>2. left = SourceFile
    BY DEF Left
  <2> HIDE DEF left
  <2>3. f \in Fetches /\ f.stage = "extract" /\ f.spec = r.fetch.spec /\ f.commit = r.fetch.commit
        /\ f.left = SourceFile /\ f.writing = {}
    BY <1>3, <2>2 DEF Fetches
  <2>4. FetchDir(f) = d
    BY <2>3 DEF FetchDir, DirOfFetch
  <2>5. r.fetch.commit \in 0..MaxServed
    <3>1. Server \in ServerState /\ r.fetch.spec.repo \in SourceRepo
      BY <1>0, <1>3, SpecsAre DEF Server, Last
    <3>2. Server.heads[r.fetch.spec.repo] \in 1..MaxServed
      BY <3>1 DEF ServerState
    <3>3. MaxServed \in Nat
      BY ProjectSourcesAssumption
    <3> QED BY <1>3, <2>1, <3>2, <3>3
  <2> HIDE DEF f, d
  <2>6. touched' = [touched EXCEPT ![p] = t \ {d}] /\ t \ {d} \in SUBSET (SourceRepo \X (0..MaxServed))
    BY <1>0, <2>1
  <2> DEFINE x == [r EXCEPT !.fetch = f]
  <2>7. runners' = [runners EXCEPT ![p] = x]
    BY <2>1 DEF Fetching
  <2>8. x \in RunnerState /\ x.included = r.included /\ x.answers = r.answers /\ x.fetch = f /\ x.since = r.since
    BY <1>0, <2>3 DEF RunnerState
  <2> HIDE DEF x, r, t
  <2>9. \A a \in r.answers : Given(x, a, t \ {d}, projectDirs', served)
    <3> SUFFICES ASSUME NEW a \in r.answers PROVE Given(x, a, t \ {d}, projectDirs', served)
      OBVIOUS
    <3>1. Given(r, a, t, projectDirs, served)
      BY <1>0 DEF RunnerOK
    <3>2. IsWhole(projectDirs, DirOf(a.project)) => IsWhole(projectDirs', DirOf(a.project))
      BY <1>2 DEF IsWhole
    <3> QED BY <1>1, <2>3, <2>4, <2>8, <3>1, <3>2 DEF Given
  <2>10. \A a \in r.answers : IsKept(x, a)
    BY <1>0, <2>8 DEF RunnerOK, IsKept
  <2>11. Extracted(f, t \ {d}, projectDirs')
    BY <1>2, <2>3, <2>4, <2>5 DEF Extracted
  <2>12. x.since \in 1..Len(served) /\ WasMeant(served, x.since, x.fetch.spec, x.fetch.commit)
         /\ x.fetch.spec \notin DOMAIN x.included /\ x.fetch.spec.by # "folder"
    BY <1>0, <1>3, <2>3, <2>8 DEF RunnerOK
  <2>13. \A spec \in DOMAIN x.included : \E a \in x.answers : a.spec = spec /\ a.project = x.included[spec]
    BY <1>0, <2>8 DEF RunnerOK
  <2>14. RunnerOK(x, t \ {d}, projectDirs', served)
    BY <2>8, <2>9, <2>10, <2>11, <2>12, <2>13 DEF RunnerOK
  <2> QED BY <1>1, <1>2, <2>6, <2>7, <2>8, <2>14, OwnStep
<1> QED BY <1>4, <1>5

\* What a command that extracts knows.
LEMMA ExtractingIs ==
  ASSUME SourcesInv, NEW p \in Runner, Stage(p, "extract")
  PROVE  /\ runners[p].fetch \in [stage : {"extract"}, asker : Projects, spec : Specs, commit : Nat,
                                  left : SUBSET SourceFile, writing : SUBSET SourceFile, cut : BOOLEAN]
         /\ runners[p].fetch.spec.by # "folder" /\ runners[p].fetch.spec \notin DOMAIN runners[p].included
         /\ WasMeant(served, runners[p].since, runners[p].fetch.spec, runners[p].fetch.commit)
         /\ Extracted(runners[p].fetch, touched[p], projectDirs)
         /\ DirOfFetch(p) = FetchDir(runners[p].fetch) /\ DirOfFetch(p) \in SourceRepo \X (0..MaxServed)
<1> DEFINE r == runners[p]
<1>0. r \in RunnerState /\ RunnerOK(r, touched[p], projectDirs, served) /\ r.fetch \in Fetches
  BY RunnersAre
<1>1. r.fetch.stage = "extract"
  BY DEF Stage
<1>2. r.fetch \in [stage : {"extract"}, asker : Projects, spec : Specs, commit : Nat,
                   left : SUBSET SourceFile, writing : SUBSET SourceFile, cut : BOOLEAN]
  BY <1>0, <1>1, FetchIs
<1>3. r.fetch.spec.by # "folder" /\ r.fetch.spec \notin DOMAIN r.included
      /\ WasMeant(served, r.since, r.fetch.spec, r.fetch.commit) /\ Extracted(r.fetch, touched[p], projectDirs)
  BY <1>0, <1>1 DEF RunnerOK
<1>4. r.fetch.spec.repo \in SourceRepo /\ r.fetch.commit \in 0..MaxServed
  BY <1>2, <1>3, SpecsAre DEF Extracted
<1> QED BY <1>2, <1>3, <1>4 DEF DirOfFetch, FetchDir

\* A command that extracts goes on in its directory.
LEMMA OKExtracting ==
  ASSUME SourcesInv, NEW p \in Runner, Stage(p, "extract"), NEW x \in RunnerState, NEW dirs,
         x.included = runners[p].included, x.answers = runners[p].answers, x.since = runners[p].since,
         x.fetch.stage = "extract", x.fetch.spec = runners[p].fetch.spec, x.fetch.commit = runners[p].fetch.commit,
         \A e \in DOMAIN projectDirs : e # DirOfFetch(p) => e \in DOMAIN dirs /\ dirs[e] = projectDirs[e],
         Extracted(x.fetch, touched[p], dirs)
  PROVE  RunnerOK(x, touched[p], dirs, served)
<1> DEFINE r == runners[p]
           t == touched[p]
           d == DirOfFetch(p)
<1>0. RunnerOK(r, t, projectDirs, served) /\ r.fetch.stage = "extract"
  BY RunnersAre DEF Stage
<1>1. FetchDir(r.fetch) = d /\ FetchDir(x.fetch) = d
  BY ExtractingIs DEF FetchDir
<1> HIDE DEF d, t, r
<1>2. \A a \in r.answers : Given(x, a, t, dirs, served)
  <2> SUFFICES ASSUME NEW a \in r.answers PROVE Given(x, a, t, dirs, served)
    OBVIOUS
  <2>1. Given(r, a, t, projectDirs, served)
    BY <1>0 DEF RunnerOK
  <2>2. DirOf(a.project) # d /\ IsWhole(projectDirs, DirOf(a.project)) => IsWhole(dirs, DirOf(a.project))
    BY DEF IsWhole, d
  <2>3. x.since = r.since /\ x.fetch.stage = "extract"
    BY DEF r
  <2> QED BY <1>1, <2>1, <2>2, <2>3 DEF Given
<1>3. \A a \in r.answers : IsKept(x, a)
  BY <1>0 DEF RunnerOK, IsKept, r
<1> QED BY <1>0, <1>2, <1>3 DEF RunnerOK, r, t

LEMMA OpenStep ==
  ASSUME SourcesInv, NEW p \in Runner, NEW file \in SourceFile, OpenFile(p, file)
  PROVE  SourcesInv'
<1> DEFINE r == runners[p]
           t == touched[p]
           d == DirOfFetch(p)
           f == [r.fetch EXCEPT !.writing = {file}, !.cut = FALSE]
           x == [r EXCEPT !.fetch = f]
           hits(q) == Stage(q, "extract") /\ DirOfFetch(q) = d /\ file \in runners[q].fetch.writing
<1>0. /\ r \in RunnerState /\ RunnerOK(r, t, projectDirs, served)
      /\ t \in SUBSET (SourceRepo \X (0..MaxServed))
      /\ \A e \in DOMAIN projectDirs : projectDirs[e] \in DirState
  BY RunnersAre
<1>1. /\ Stage(p, "extract") /\ r.fetch.writing = {} /\ file \in r.fetch.left
      /\ served' = served /\ projectDirs' = [Opened(d) EXCEPT ![d][file] = "half"] /\ Touches(p, d)
      /\ runners' = [q \in Runner |->
           IF q = p THEN [runners[q] EXCEPT !.fetch.writing = {file}, !.fetch.cut = FALSE]
           ELSE IF hits(q) THEN Cut(runners[q]) ELSE runners[q]]
  BY DEF OpenFile, Cut
<1>2. /\ r.fetch \in [stage : {"extract"}, asker : Projects, spec : Specs, commit : Nat,
                      left : SUBSET SourceFile, writing : SUBSET SourceFile, cut : BOOLEAN]
      /\ Extracted(r.fetch, t, projectDirs) /\ d = FetchDir(r.fetch) /\ d \in SourceRepo \X (0..MaxServed)
  BY <1>1, ExtractingIs
<1>3. /\ f \in Fetches /\ f.stage = "extract" /\ f.spec = r.fetch.spec /\ f.commit = r.fetch.commit
      /\ f.left = r.fetch.left /\ f.writing = {file} /\ f.cut = FALSE
  BY <1>2 DEF Fetches
<1>4. [runners[p] EXCEPT !.fetch.writing = {file}, !.fetch.cut = FALSE] = x
  BY <1>0, <1>2 DEF RunnerState
<1>5. runners' = [q \in Runner |-> IF q = p THEN x ELSE IF hits(q) THEN Cut(runners[q]) ELSE runners[q]]
  BY <1>1, <1>4, Zenon
<1> HIDE DEF f
<1>6. x \in RunnerState /\ x.included = r.included /\ x.answers = r.answers /\ x.since = r.since /\ x.fetch = f
  BY <1>0, <1>3 DEF RunnerState
<1> HIDE DEF d
<1>7. /\ DOMAIN Opened(d) = DOMAIN projectDirs \cup {d}
      /\ \A e \in DOMAIN projectDirs : Opened(d)[e] = projectDirs[e]
      /\ \A e \in DOMAIN Opened(d) : Opened(d)[e] \in DirState
  BY <1>0, OpenedIs
<1>8. /\ DOMAIN projectDirs' = DOMAIN Opened(d)
      /\ \A e \in DOMAIN projectDirs' : e # d => projectDirs'[e] = Opened(d)[e]
      /\ projectDirs'[d] = [Opened(d)[d] EXCEPT ![file] = "half"]
  <2> DEFINE o == Opened(d)
  <2>1. projectDirs' = [o EXCEPT ![d] = [o[d] EXCEPT ![file] = "half"]] /\ d \in DOMAIN o
    BY <1>1, <1>7
  <2>2. \E g \in [DOMAIN o -> DirState] : o = g
    BY <1>7 DEF Opened
  <2> HIDE DEF o
  <2> QED BY <2>1, <2>2 DEF o
<1>9. /\ \A e \in DOMAIN projectDirs : e # d => e \in DOMAIN projectDirs' /\ projectDirs'[e] = projectDirs[e]
      /\ \A e \in DOMAIN projectDirs' : projectDirs'[e] \in DirState
      /\ \A y \in SourceFile : projectDirs'[d][y] = IF y = file THEN "half" ELSE Opened(d)[d][y]
      /\ d \in DOMAIN projectDirs'
  <2>1. Opened(d)[d] \in DirState /\ d \in DOMAIN projectDirs'
    BY <1>7, <1>8
  <2>2. projectDirs'[d] \in DirState
        /\ \A y \in SourceFile : projectDirs'[d][y] = IF y = file THEN "half" ELSE Opened(d)[d][y]
    BY <1>8, <2>1 DEF DirState
  <2> QED BY <1>7, <1>8, <2>1, <2>2
<1>10. Extracted(f, t, projectDirs')
  <2>1. FetchDir(f) = d /\ f.commit \in 0..MaxServed /\ f.writing \subseteq f.left
    BY <1>1, <1>2, <1>3 DEF FetchDir, Extracted
  <2>2. CASE d \in t
    BY <2>1, <2>2 DEF Extracted
  <2>3. CASE d \notin t
    <3>1. d \in DOMAIN projectDirs /\ \A y \in SourceFile \ f.left : projectDirs[d][y] = "whole"
      BY <1>2, <1>3, <2>3 DEF Extracted
    <3>2. ASSUME NEW y \in SourceFile \ f.left PROVE projectDirs'[d][y] = "whole"
      <4>1. y # file /\ projectDirs[d][y] = "whole"
        BY <1>1, <1>3, <3>1
      <4>2. projectDirs'[d][y] = Opened(d)[d][y] /\ Opened(d)[d] = projectDirs[d]
        BY <1>7, <1>9, <3>1, <4>1
      <4> QED BY <4>1, <4>2
    <3> QED BY <1>3, <1>9, <2>1, <3>2 DEF Extracted
  <2> QED BY <2>2, <2>3
<1>11. RunnerOK(x, t, projectDirs', served)
  <2> HIDE DEF x
  <2> QED BY <1>1, <1>3, <1>6, <1>9, <1>10, OKExtracting DEF d
<1>12. ASSUME NEW q \in Runner, hits(q) PROVE Cut(runners[q]) \in RunnerState /\ FetchDir(runners[q].fetch) = d
  <2>1. runners[q] \in RunnerState /\ RunnerOK(runners[q], touched[q], projectDirs, served)
    BY RunnersAre
  <2>2. RunnerOK(runners[q], touched[q] \cup {d}, projectDirs', served)
    BY ONLY <1>9, <2>1, OKElsewhere
  <2>3. runners[q].fetch.stage = "extract" /\ FetchDir(runners[q].fetch) = d /\ d \in touched[q] \cup {d}
    BY <1>12, ExtractingIs DEF Stage
  <2> QED BY <2>1, <2>2, <2>3, OKCut
<1>13. \A q \in Runner : runners[q] \in RunnerState
  BY RunnersAre
<1>14. runners' \in [Runner -> RunnerState]
  <2> HIDE DEF x, hits
  <2> QED BY <1>5, <1>6, <1>12, <1>13
<1>15. runners'[p] = x /\ OthersGoOn(p, d)
  <2>1. \A q \in Runner : hits(q) => runners[q].fetch.stage = "extract"
    BY DEF Stage
  <2> HIDE DEF x, hits
  <2> QED BY <1>5, <1>12, <2>1 DEF OthersGoOn
<1>16. touched' = TouchedBy(p, t, d)
  BY <1>1 DEF Touches, TouchedBy
<1>17. DirsElsewhere(d)
  BY <1>9 DEF DirsElsewhere
<1> HIDE DEF x, t, hits
<1> QED BY <1>0, <1>1, <1>2, <1>11, <1>14, <1>15, <1>16, <1>17, SharedStep

LEMMA WriteStep ==
  ASSUME SourcesInv, NEW p \in Runner, WriteFile(p)
  PROVE  SourcesInv'
<1> DEFINE r == runners[p]
           t == touched[p]
           d == DirOfFetch(p)
           w == r.fetch.writing
           f == [r.fetch EXCEPT !.left = @ \ w, !.writing = {}]
           x == [r EXCEPT !.fetch = f]
<1>0. /\ r \in RunnerState /\ RunnerOK(r, t, projectDirs, served)
      /\ t \in SUBSET (SourceRepo \X (0..MaxServed))
      /\ \A e \in DOMAIN projectDirs : projectDirs[e] \in DirState
  BY RunnersAre
<1>1. /\ Stage(p, "extract") /\ served' = served /\ Touches(p, d) /\ runners' = [runners EXCEPT ![p] = x]
      /\ projectDirs' = [e \in DOMAIN projectDirs |-> [y \in SourceFile |->
           IF e = d /\ y \in w /\ ~r.fetch.cut /\ projectDirs[e][y] # "none" THEN "whole" ELSE projectDirs[e][y]]]
  BY DEF WriteFile, Fetching
<1>2. /\ r.fetch \in [stage : {"extract"}, asker : Projects, spec : Specs, commit : Nat,
                      left : SUBSET SourceFile, writing : SUBSET SourceFile, cut : BOOLEAN]
      /\ Extracted(r.fetch, t, projectDirs) /\ d = FetchDir(r.fetch) /\ d \in SourceRepo \X (0..MaxServed)
  BY <1>1, ExtractingIs
<1>3. /\ f \in Fetches /\ f.stage = "extract" /\ f.spec = r.fetch.spec /\ f.commit = r.fetch.commit
      /\ f.left = r.fetch.left \ w /\ f.writing = {}
  <2>1. r.fetch.left \ w \in SUBSET SourceFile
    BY <1>2
  <2> QED BY <1>2, <2>1 DEF Fetches
<1> HIDE DEF f
<1>4. x \in RunnerState /\ x.included = r.included /\ x.answers = r.answers /\ x.since = r.since /\ x.fetch = f
  BY <1>0, <1>3 DEF RunnerState
<1> HIDE DEF d
<1>5. /\ \A e \in DOMAIN projectDirs' : projectDirs'[e] \in DirState
      /\ \A e \in DOMAIN projectDirs : e # d => e \in DOMAIN projectDirs' /\ projectDirs'[e] = projectDirs[e]
      /\ DOMAIN projectDirs' = DOMAIN projectDirs
      /\ d \in DOMAIN projectDirs => \A y \in SourceFile : projectDirs'[d][y] =
           IF y \in w /\ ~r.fetch.cut /\ projectDirs[d][y] # "none" THEN "whole" ELSE projectDirs[d][y]
  <2>1. \A e \in DOMAIN projectDirs' : projectDirs'[e] \in DirState
    BY <1>0, <1>1 DEF DirState
  <2>2. \A e \in DOMAIN projectDirs : e # d => projectDirs'[e] = [y \in SourceFile |-> projectDirs[e][y]]
    BY <1>1
  <2>3. \A e \in DOMAIN projectDirs : projectDirs[e] = [y \in SourceFile |-> projectDirs[e][y]]
    BY <1>0 DEF DirState
  <2> QED BY <1>1, <2>1, <2>2, <2>3
<1>6. Extracted(f, t, projectDirs')
  <2>1. FetchDir(f) = d /\ f.commit \in 0..MaxServed /\ f.writing \subseteq f.left
    BY <1>2, <1>3 DEF FetchDir, Extracted
  <2>2. CASE d \in t
    BY <2>1, <2>2 DEF Extracted
  <2>3. CASE d \notin t
    <3>1. /\ d \in DOMAIN projectDirs
          /\ \A y \in SourceFile \ r.fetch.left : projectDirs[d][y] = "whole"
          /\ \A z \in w : ~r.fetch.cut /\ projectDirs[d][z] # "none"
      BY <1>2, <2>3 DEF Extracted
    <3>2. ASSUME NEW y \in SourceFile \ f.left PROVE projectDirs'[d][y] = "whole"
      <4>1. projectDirs'[d][y] =
              IF y \in w /\ ~r.fetch.cut /\ projectDirs[d][y] # "none" THEN "whole" ELSE projectDirs[d][y]
        BY <1>5, <3>1
      <4>2. y \in w \/ projectDirs[d][y] = "whole"
        BY <1>3, <3>1
      <4>3. y \in w => ~r.fetch.cut /\ projectDirs[d][y] # "none"
        BY <3>1
      <4> QED BY <4>1, <4>2, <4>3
    <3> QED BY <1>3, <1>5, <2>1, <3>1, <3>2 DEF Extracted
  <2> QED BY <2>2, <2>3
<1>7. RunnerOK(x, t, projectDirs', served)
  <2> HIDE DEF x
  <2> QED BY <1>1, <1>3, <1>4, <1>5, <1>6, OKExtracting DEF d
<1>8. runners' \in [Runner -> RunnerState] /\ runners'[p] = x /\ OthersGoOn(p, d)
  <2> HIDE DEF x
  <2> QED BY <1>1, <1>4 DEF SourcesInv, SourcesTyped, OthersGoOn
<1>9. touched' = TouchedBy(p, t, d)
  BY <1>1 DEF Touches, TouchedBy
<1>10. DirsElsewhere(d)
  BY <1>5 DEF DirsElsewhere
<1> HIDE DEF x, t
<1> QED BY <1>0, <1>1, <1>2, <1>7, <1>8, <1>9, <1>10, SharedStep

LEMMA FailStep ==
  ASSUME SourcesInv, NEW p \in Runner, ExtractFails(p)
  PROVE  SourcesInv'
<1> DEFINE d == DirOfFetch(p)
           t == {}
<1>1. /\ Stage(p, "extract") /\ served' = served /\ runners' = [runners EXCEPT ![p] = Fresh]
      /\ projectDirs' = [e \in DOMAIN projectDirs \ {d} |-> projectDirs[e]]
      /\ touched' = TouchedBy(p, t, d)
  BY DEF ExtractFails, TouchedBy
<1>2. d \in SourceRepo \X (0..MaxServed) /\ t \in SUBSET (SourceRepo \X (0..MaxServed))
  BY <1>1, ExtractingIs
<1>3. Fresh \in RunnerState /\ RunnerOK(Fresh, t, projectDirs', served)
  BY OKFresh DEF SourcesInv, SourcesTyped
<1> HIDE DEF d, t, Fresh
<1>4. runners' \in [Runner -> RunnerState] /\ runners'[p] = Fresh /\ OthersGoOn(p, d)
  BY <1>1, <1>3 DEF SourcesInv, SourcesTyped, OthersGoOn
<1>5. DirsElsewhere(d)
  BY <1>1 DEF SourcesInv, SourcesTyped, DirsElsewhere
<1> QED BY <1>1, <1>2, <1>3, <1>4, <1>5, SharedStep

LEMMA ConstructStep ==
  ASSUME SourcesInv, NEW p \in Runner, construct_subproject_config(p)
  PROVE  SourcesInv'
<1> DEFINE r == runners[p]
           t == touched[p]
           asker == r.fetch.asker
           spec == r.fetch.spec
           project == SourceProject(spec.repo, r.fetch.commit, spec.code /\ asker.code)
           x == [r EXCEPT !.fetch = Resting, !.included = Kept(@, asker, spec, project),
                          !.answers = @ \cup {Answer(p, asker, spec, project)}]
<1>0. /\ r \in RunnerState /\ RunnerOK(r, t, projectDirs, served)
      /\ t \in SUBSET (SourceRepo \X (0..MaxServed)) /\ touched = [touched EXCEPT ![p] = t]
      /\ \A e \in DOMAIN projectDirs : projectDirs[e] \in DirState
  BY RunnersAre
<1>1. /\ Stage(p, "extract") /\ r.fetch.left = {} /\ Loaded(p, asker, spec, project)
      /\ served' = served /\ projectDirs' = projectDirs /\ touched' = touched
  BY DEF construct_subproject_config
<1>2. /\ asker \in Projects /\ spec \in Specs /\ r.fetch.commit \in Nat
      /\ spec \notin DOMAIN r.included /\ WasMeant(served, r.since, spec, r.fetch.commit)
      /\ Extracted(r.fetch, t, projectDirs)
  BY <1>1, ExtractingIs
<1>3. project \in Projects /\ project.commit = r.fetch.commit /\ DirOf(project) = FetchDir(r.fetch)
  <2>1. spec.repo \in DOMAIN SourcesOf
    BY <1>2, SpecsAre
  <2> QED BY <1>2, <2>1 DEF SourceProject, Projects, DirOf, FetchDir
<1>4. FetchDir(r.fetch) \in t \/ IsWhole(projectDirs, FetchDir(r.fetch))
  BY <1>1, <1>2 DEF Extracted, IsWhole
<1> HIDE DEF asker, spec, project
<1>5. runners' = [runners EXCEPT ![p] = x]
  BY <1>1 DEF Loaded
<1>6. x.since = r.since
  BY <1>0 DEF RunnerState
<1> HIDE DEF x, r, t
<1>7. \A a \in r.answers : Given(x, a, t, projectDirs, served)
  <2> SUFFICES ASSUME NEW a \in r.answers PROVE Given(x, a, t, projectDirs, served)
    OBVIOUS
  <2>1. Given(r, a, t, projectDirs, served)
    BY <1>0 DEF RunnerOK
  <2> QED BY <1>4, <1>6, <2>1 DEF Given
<1>8. Given(x, Answer(p, asker, spec, project), t, projectDirs, served)
  <2> DEFINE a == Answer(p, asker, spec, project)
  <2>1. a.spec = spec /\ a.project = project
    BY DEF Answer
  <2> HIDE DEF a
  <2>2. Given(x, a, t, projectDirs, served)
    BY <1>2, <1>3, <1>4, <1>6, <2>1 DEF Given
  <2> QED BY <2>2 DEF a
<1>9. x \in RunnerState /\ RunnerOK(x, t, projectDirs, served)
  BY <1>0, <1>2, <1>3, <1>7, <1>8, OKLoaded DEF x
<1> QED BY <1>0, <1>1, <1>5, <1>9, OwnStep DEF r

LEMMA PushStep ==
  ASSUME SourcesInv, NEW repo \in SourceRepo, PushHead(repo)
  PROVE  SourcesInv'
<1> DEFINE s == [Server EXCEPT !.heads[repo] = @ + 1]
<1>1. Serves(s) /\ Len(served) < MaxServed
  BY DEF PushHead, Serves
<1>2. Server \in ServerState /\ MaxServed \in Nat /\ Len(served) \in 1..MaxServed
  BY ProjectSourcesAssumption DEF SourcesInv, SourcesTyped, Server, Last
<1>3. Server.heads \in [SourceRepo -> 1..MaxServed] /\ \A q \in SourceRepo : Server.heads[q] <= Len(served)
  BY <1>2 DEF ServerState, SourcesInv
<1> DEFINE h == [Server.heads EXCEPT ![repo] = @ + 1]
<1>4. h \in [SourceRepo -> 1..MaxServed] /\ \A q \in SourceRepo : h[q] <= Len(served) + 1
  BY <1>1, <1>2, <1>3
<1>5. s = [Server EXCEPT !.heads = h]
  BY <1>2 DEF ServerState
<1> HIDE DEF h
<1>6. s \in ServerState /\ s.heads = h
  <2> HIDE DEF s
  <2> QED BY <1>2, <1>4, <1>5 DEF ServerState
<1> HIDE DEF s
<1> QED BY <1>1, <1>4, <1>6, ServesStep

LEMMA PublishStep ==
  ASSUME SourcesInv, NEW repo \in Releasing, NEW beta \in BOOLEAN, PublishRelease(repo, beta)
  PROVE  SourcesInv'
<1> DEFINE new == [commit |-> Server.heads[repo], beta |-> beta]
           s == [Server EXCEPT !.releases[repo] = Append(@, new)]
<1>1. Serves(s)
  BY DEF PublishRelease
<1>2. Server \in ServerState /\ MaxServed \in Nat /\ Len(served) \in 1..MaxServed /\ repo \in SourceRepo
  BY ProjectSourcesAssumption DEF SourcesInv, SourcesTyped, Server, Last
<1>3. /\ Server.heads \in [SourceRepo -> 1..MaxServed] /\ \A q \in SourceRepo : Server.heads[q] <= Len(served)
      /\ Server.releases \in [SourceRepo -> Seq(Release)]
  BY <1>2 DEF ServerState, SourcesInv
<1>4. new \in Release
  BY <1>2, <1>3 DEF Release
<1> HIDE DEF new
<1> DEFINE rs == [Server.releases EXCEPT ![repo] = Append(@, new)]
<1>5. rs \in [SourceRepo -> Seq(Release)]
  BY <1>2, <1>3, <1>4
<1>6. s = [Server EXCEPT !.releases = rs]
  BY <1>2 DEF ServerState
<1> HIDE DEF rs
<1>7. s \in ServerState /\ s.heads = Server.heads
  <2> HIDE DEF s
  <2> QED BY <1>2, <1>5, <1>6 DEF ServerState
<1>8. \A q \in SourceRepo : Server.heads[q] <= Len(served) + 1
  BY <1>2, <1>3
<1> HIDE DEF s
<1> QED BY <1>1, <1>7, <1>8, ServesStep

LEMMA SourcesInvStep == SourcesInv /\ [SourcesNext]_sourceVars => SourcesInv'
<1> SUFFICES ASSUME SourcesInv, [SourcesNext]_sourceVars PROVE SourcesInv'
  OBVIOUS
<1>1. ASSUME NEW p \in Runner, RunnerEnds(p) PROVE SourcesInv'
  <2>1. CommandEnds(p) /\ served' = served /\ projectDirs' = projectDirs
    BY <1>1 DEF RunnerEnds
  <2>2. \A e \in DOMAIN projectDirs : projectDirs[e] \in DirState
    BY DEF SourcesInv, SourcesTyped
  <2> QED BY <2>1, <2>2, EndsStep
<1>2. ASSUME UNCHANGED sourceVars PROVE SourcesInv'
  BY <1>2 DEF sourceVars, SourcesInv, SourcesTyped, Server
<1> QED
  BY <1>1, <1>2, PushStep, PublishStep, IncludeStep, OpenStep, ResolveStep, WriteStep, FailStep, ConstructStep,
     DownloadStep DEF SourcesNext

LEMMA SourcesInvImplies ==
  SourcesInv => SourcesTypeOK /\ LoadedIsWhole /\ SameSpecSameProject /\ AnswersWereMeant
<1> SUFFICES ASSUME SourcesInv PROVE SourcesTypeOK /\ LoadedIsWhole /\ SameSpecSameProject /\ AnswersWereMeant
  OBVIOUS
<1>1. \A p \in Runner : RunnerOK(runners[p], touched[p], projectDirs, served)
  BY DEF SourcesInv
<1>2. SourcesTypeOK
  <2>1. \A i \in DOMAIN served : served[i].heads \in [SourceRepo -> 1..MaxServed]
    <3>1. \A i \in DOMAIN served : served[i] \in ServerState
      BY DEF SourcesInv, SourcesTyped
    <3> QED BY <3>1 DEF ServerState
  <2>2. \A p \in Runner : runners[p].fetch.stage \in {"idle", "resolve", "download", "extract"}
    BY RunnersAre, FetchIs
  <2>3. \A p \in Runner : runners[p].since \in 1..Len(served)
    BY <1>1 DEF RunnerOK
  <2> QED BY <2>1, <2>2, <2>3 DEF SourcesTypeOK, SourcesInv, SourcesTyped, DirState
<1>3. LoadedIsWhole
  <2> SUFFICES ASSUME NEW p \in Runner, Stage(p, "idle"), NEW a \in runners[p].answers
               PROVE  a.spec.by = "folder" \/ DirOf(a.project) \in touched[p] \/ IsWhole(projectDirs, DirOf(a.project))
    BY DEF LoadedIsWhole, IsWhole
  <2>1. Given(runners[p], a, touched[p], projectDirs, served)
    BY <1>1 DEF RunnerOK
  <2> QED BY <2>1 DEF Given, Stage
<1>4. SameSpecSameProject
  <2>1. \A p \in Runner : \A a \in runners[p].answers : IsKept(runners[p], a)
    BY <1>1 DEF RunnerOK
  <2> QED BY <2>1 DEF SameSpecSameProject, IsKept
<1>5. AnswersWereMeant
  <2> SUFFICES ASSUME NEW p \in Runner, NEW a \in runners[p].answers
               PROVE  a.spec.by = "folder" \/ WasMeant(served, runners[p].since, a.spec, a.project.commit)
    BY DEF AnswersWereMeant, WasMeant
  <2>1. Given(runners[p], a, touched[p], projectDirs, served)
    BY <1>1 DEF RunnerOK
  <2> QED BY <2>1 DEF Given
<1> QED BY <1>2, <1>3, <1>4, <1>5

\* A project that is used is whole unless others wrote in its directory, one spec means one
\* commit, and that commit is what it meant at some moment of the command, for every number of
\* commands, projects, files and releases (SourceConfig, vcs_source.py and extract_zip).
THEOREM SourcesAreGiven ==
  SourcesSpec => [](SourcesTypeOK /\ LoadedIsWhole /\ SameSpecSameProject /\ AnswersWereMeant)
BY SourcesInvInit, SourcesInvStep, SourcesInvImplies, PTL DEF SourcesSpec

-----------------------------------------------------------------------------
(* The commit of the checkout.                                              *)

\* The refs that the reader may still find are those the branch had, or its ref is packed.
GitState == [head : CoBranch \cup {Detached}, at : 0..MaxCheckoutCommits, other : CoBranch \cup {Detached},
             made : 1..MaxCheckoutCommits, hasPacked : BOOLEAN, loose : [CoBranch -> 0..MaxCheckoutCommits],
             packed : [CoBranch -> 0..MaxCheckoutCommits], origin : [CoBranch -> 0..MaxCheckoutCommits],
             pushed : [CoBranch -> 0..MaxCheckoutCommits]]
PackedOrUnborn(b) == b \in CoBranch => git.packed[b] # 0 \/ 0 \in pastRefs[b]
Asks(e) == ~ConfigErrorIn(e) /\ repo_info(e).commit = 0
CheckoutInv ==
  /\ git \in GitState /\ DOMAIN pastRefs = CoBranch \cup {Detached} /\ pastRefs = [r \in DOMAIN pastRefs |-> pastRefs[r]]
  /\ reader = [at |-> reader.at, env |-> reader.env, branch |-> reader.branch, result |-> reader.result]
  /\ reader.at \in {"idle", "head", "loose", "packed", "done"} /\ reader.env \in Environs
  /\ reader.at # "idle" => \A r \in DOMAIN pastRefs : Refs(git)[r] \in pastRefs[r]
  /\ reader.at \in {"loose", "packed"} => reader.branch # Detached
  /\ reader.at = "packed" => PackedOrUnborn(reader.branch)
  /\ reader.at = "done" /\ Asks(reader.env) /\ reader.branch \in DOMAIN pastRefs =>
       reader.result \in pastRefs[reader.branch] \/ (reader.branch \in CoBranch /\ PackedOrUnborn(reader.branch))

LEMMA CheckoutInvInit == CheckoutInit => CheckoutInv
<1> SUFFICES ASSUME CheckoutInit PROVE CheckoutInv
  OBVIOUS
<1>0. 1 \in 0..MaxCheckoutCommits /\ 0 \in 0..MaxCheckoutCommits /\ 1 \in 1..MaxCheckoutCommits
  BY ProjectSourcesAssumption
<1>1. PICK e \in Environs, main \in CoBranch, cloned \in BOOLEAN :
       /\ reader = [at |-> "idle", env |-> e, branch |-> "none", result |-> 0]
       /\ git = [head |-> main, at |-> 0, other |-> Detached, made |-> 1, hasPacked |-> cloned,
                 loose |-> [b \in CoBranch |-> IF b = main THEN 1 ELSE 0],
                 packed |-> [b \in CoBranch |-> 0],
                 origin |-> [b \in CoBranch |-> IF cloned THEN 1 ELSE 0],
                 pushed |-> [b \in CoBranch |-> IF cloned THEN 1 ELSE 0]]
  BY DEF CheckoutInit
<1>2. git \in GitState
  BY <1>0, <1>1 DEF GitState
<1>3. pastRefs = [r \in CoBranch \cup {Detached} |-> {}]
  BY DEF CheckoutInit
<1>4. reader.at = "idle" /\ reader.env \in Environs
      /\ reader = [at |-> reader.at, env |-> reader.env, branch |-> reader.branch, result |-> reader.result]
  BY <1>1
<1>5. DOMAIN pastRefs = CoBranch \cup {Detached} /\ pastRefs = [r \in DOMAIN pastRefs |-> pastRefs[r]]
  BY <1>3
<1> QED BY <1>2, <1>4, <1>5 DEF CheckoutInv

\* Git moves a ref to a commit, and does not lose one that is packed.
LEMMA GitInv ==
  ASSUME CheckoutInv, NEW g \in GitState, GitMoves(g), \A b \in CoBranch : git.packed[b] # 0 => g.packed[b] # 0
  PROVE  CheckoutInv'
<1>1. git' = g /\ reader' = reader /\ pastRefs' = [r \in DOMAIN pastRefs |-> pastRefs[r] \cup {Refs(g)[r]}]
  BY DEF GitMoves
<1>2. DOMAIN pastRefs' = DOMAIN pastRefs
      /\ \A r \in DOMAIN pastRefs : pastRefs[r] \subseteq pastRefs'[r] /\ Refs(g)[r] \in pastRefs'[r]
  BY <1>1
<1>3. \A b \in CoBranch : b \in DOMAIN pastRefs /\ (PackedOrUnborn(b) => PackedOrUnborn(b)')
  BY <1>1, <1>2 DEF CheckoutInv, PackedOrUnborn
<1>4. pastRefs' = [r \in DOMAIN pastRefs' |-> pastRefs'[r]] /\ Refs(git)' = Refs(g)
  BY <1>1 DEF Refs, RefAt
<1>5. \A b : PackedOrUnborn(b) => PackedOrUnborn(b)'
  BY <1>3 DEF PackedOrUnborn
<1> HIDE DEF PackedOrUnborn
<1>6. reader' = [at |-> reader'.at, env |-> reader'.env, branch |-> reader'.branch, result |-> reader'.result]
      /\ reader'.at \in {"idle", "head", "loose", "packed", "done"} /\ reader'.env \in Environs
      /\ (reader'.at \in {"loose", "packed"} => reader'.branch # Detached)
  BY <1>1 DEF CheckoutInv
<1>7. reader'.at # "idle" => \A r \in DOMAIN pastRefs' : Refs(git)'[r] \in pastRefs'[r]
  BY <1>1, <1>2, <1>4
<1>8. reader'.at = "packed" => PackedOrUnborn(reader.branch)'
  BY <1>1, <1>5 DEF CheckoutInv
<1>9. Asks(reader.env)' = Asks(reader.env)
  BY <1>1 DEF Asks, ConfigErrorIn, repo_info
<1>10. (reader.at = "done" /\ Asks(reader.env) /\ reader.branch \in DOMAIN pastRefs =>
       reader.result \in pastRefs[reader.branch] \/ (reader.branch \in CoBranch /\ PackedOrUnborn(reader.branch)))'
  BY <1>1, <1>2, <1>5, <1>9 DEF CheckoutInv
<1> QED BY <1>1, <1>2, <1>4, <1>6, <1>7, <1>8, <1>10 DEF CheckoutInv

LEMMA ReaderInv ==
  ASSUME CheckoutInv, NEW at \in {"loose", "packed", "done"}, NEW branch, NEW result,
         reader.at # "idle", Reads(at, branch, result),
         at \in {"loose", "packed"} => branch # Detached, at = "packed" => PackedOrUnborn(branch),
         at = "done" /\ branch \in DOMAIN pastRefs => 
           result \in pastRefs[branch] \/ (branch \in CoBranch /\ PackedOrUnborn(branch))
  PROVE  CheckoutInv'
<1>1. git' = git /\ pastRefs' = pastRefs /\ reader' = [reader EXCEPT !.at = at, !.branch = branch, !.result = result]
  BY DEF Reads
<1>2. /\ reader'.at = at /\ reader'.env = reader.env /\ reader'.branch = branch /\ reader'.result = result
      /\ reader' = [at |-> reader'.at, env |-> reader'.env, branch |-> reader'.branch, result |-> reader'.result]
  BY <1>1 DEF CheckoutInv
<1>3. PackedOrUnborn(branch)' = PackedOrUnborn(branch) /\ Refs(git)' = Refs(git)
  BY <1>1 DEF PackedOrUnborn, Refs, RefAt
<1>4. PackedOrUnborn(reader.branch)' = PackedOrUnborn(branch)
  BY <1>1, <1>2 DEF PackedOrUnborn
<1> HIDE DEF PackedOrUnborn
<1> QED BY <1>1, <1>2, <1>3, <1>4 DEF CheckoutInv

LEMMA CheckoutInvStep == CheckoutInv /\ [CheckoutNext]_checkoutVars => CheckoutInv'
<1> SUFFICES ASSUME CheckoutInv, [CheckoutNext]_checkoutVars PROVE CheckoutInv'
  OBVIOUS
<1>0. git \in GitState /\ MaxCheckoutCommits \in Nat \ {0}
  BY ProjectSourcesAssumption DEF CheckoutInv
<1>1. ASSUME NEW b \in CoBranch, GitCommit(b) PROVE CheckoutInv'
  <2> DEFINE g == [git EXCEPT !.made = @ + 1, !.loose[b] = git.made + 1]
  <2>1. GitMoves(g) /\ git.made < MaxCheckoutCommits
    BY <1>1 DEF GitCommit
  <2>2. git.made + 1 \in 1..MaxCheckoutCommits /\ git.made + 1 \in 0..MaxCheckoutCommits
    BY <1>0, <2>1 DEF GitState
  <2>3. g \in GitState /\ g.packed = git.packed
    BY <1>0, <2>2 DEF GitState
  <2> HIDE DEF g
  <2> QED BY <2>1, <2>3, GitInv
<1>2. ASSUME NEW b \in CoBranch, Checkout(b) PROVE CheckoutInv'
  <2> DEFINE g == [git EXCEPT !.head = b, !.loose[b] = IF RefAt(git, b) = 0 THEN 1 ELSE @]
  <2>1. GitMoves(g)
    BY <1>2 DEF Checkout
  <2>2. (IF RefAt(git, b) = 0 THEN 1 ELSE git.loose[b]) \in 0..MaxCheckoutCommits
    BY <1>0 DEF GitState
  <2>3. g \in GitState /\ g.packed = git.packed
    BY <1>0, <2>2 DEF GitState, Detached
  <2> HIDE DEF g
  <2> QED BY <2>1, <2>3, GitInv
<1>3. ASSUME NEW b \in CoBranch, CheckoutElsewhere(b) PROVE CheckoutInv'
  <2> DEFINE g == [git EXCEPT !.other = b]
  <2>1. GitMoves(g)
    BY <1>3 DEF CheckoutElsewhere
  <2>2. g \in GitState /\ g.packed = git.packed
    BY <1>0 DEF GitState
  <2> HIDE DEF g
  <2> QED BY <2>1, <2>2, GitInv
<1>4. ASSUME NEW b \in CoBranch, PushBranch(b) PROVE CheckoutInv'
  <2> DEFINE g == [git EXCEPT !.pushed[b] = RefAt(git, b)]
  <2>1. GitMoves(g)
    BY <1>4 DEF PushBranch
  <2>2. RefAt(git, b) \in 0..MaxCheckoutCommits
    BY <1>0 DEF GitState, RefAt
  <2>3. g \in GitState /\ g.packed = git.packed
    BY <1>0, <2>2 DEF GitState
  <2> HIDE DEF g
  <2> QED BY <2>1, <2>3, GitInv
<1>5. ASSUME NEW c \in 1..MaxCheckoutCommits, Detach(c) PROVE CheckoutInv'
  <2> DEFINE g == [git EXCEPT !.head = Detached, !.at = c]
  <2>1. GitMoves(g)
    BY <1>5 DEF Detach
  <2>2. c \in 0..MaxCheckoutCommits /\ Detached \in CoBranch \cup {Detached}
    BY <1>0
  <2>3. g \in GitState /\ g.packed = git.packed
    BY <1>0, <2>2 DEF GitState
  <2> HIDE DEF g
  <2> QED BY <2>1, <2>3, GitInv
<1>6. ASSUME PackRefs PROVE CheckoutInv'
  <2> DEFINE refs == [b \in CoBranch |-> RefAt(git, b)]
             none == [b \in CoBranch |-> 0]
             g == [git EXCEPT !.packed = refs, !.loose = none, !.origin = git.pushed, !.hasPacked = TRUE]
  <2>1. GitMoves(g)
    BY <1>6 DEF PackRefs
  <2>2. refs \in [CoBranch -> 0..MaxCheckoutCommits] /\ \A b \in CoBranch : git.packed[b] # 0 => refs[b] # 0
    BY <1>0 DEF GitState, RefAt
  <2>3. none \in [CoBranch -> 0..MaxCheckoutCommits]
    BY <1>0
  <2> HIDE DEF refs, none
  <2>4. g \in GitState /\ g.packed = refs
    BY <1>0, <2>2, <2>3 DEF GitState
  <2> HIDE DEF g
  <2> QED BY <2>1, <2>2, <2>4, GitInv
<1>7. ASSUME AskCommit PROVE CheckoutInv'
  <2> DEFINE e == reader.env
             at == IF ConfigErrorIn(e) \/ repo_info(e).commit # 0 THEN "done" ELSE "head"
             result == IF ConfigErrorIn(e) THEN -1 ELSE repo_info(e).commit
  <2>1. git' = git /\ reader' = [reader EXCEPT !.at = at, !.result = result]
        /\ pastRefs' = [r \in DOMAIN pastRefs |-> {Refs(git)[r]}]
    BY <1>7 DEF AskCommit
  <2> HIDE DEF result
  <2>2. /\ reader'.at = at /\ reader'.env = e
        /\ reader' = [at |-> reader'.at, env |-> reader'.env, branch |-> reader'.branch, result |-> reader'.result]
    BY <2>1 DEF CheckoutInv
  <2>3. at \in {"done", "head"} /\ (at = "done" => ~Asks(e))
    BY DEF Asks
  <2>4. Asks(reader.env)' = Asks(e)
    BY <2>2 DEF Asks, ConfigErrorIn, repo_info
  <2>5. /\ DOMAIN pastRefs' = DOMAIN pastRefs
        /\ \A r \in DOMAIN pastRefs : pastRefs'[r] = {Refs(git)[r]}
        /\ pastRefs' = [r \in DOMAIN pastRefs' |-> pastRefs'[r]]
    BY <2>1
  <2>6. Refs(git)' = Refs(git)
    BY <2>1 DEF Refs, RefAt
  <2> HIDE DEF at, e
  <2> QED BY <2>1, <2>2, <2>3, <2>4, <2>5, <2>6 DEF CheckoutInv, e
<1>8. ASSUME repo_branch PROVE CheckoutInv'
  <2> DEFINE b == repo_info(reader.env).branch
  <2>1. reader.at = "head"
    BY <1>8 DEF repo_branch
  <2>2. CASE b = "none" /\ current_branch = Detached
    <3>1. Reads("done", Detached, git.at)
      BY <1>8, <2>2 DEF repo_branch
    <3>2. git.at \in pastRefs[Detached]
      BY <2>1 DEF CheckoutInv, Refs
    <3> QED BY <2>1, <3>1, <3>2, ReaderInv
  <2>3. CASE ~(b = "none" /\ current_branch = Detached)
    <3>1. Reads("loose", IF b = "none" THEN current_branch ELSE b, 0)
      BY <1>8, <2>3 DEF repo_branch
    <3>2. b # Detached
      BY ProjectSourcesAssumption DEF CheckoutInv, repo_info, NoRepoInfo, Detached
    <3> HIDE DEF b
    <3>3. (IF b = "none" THEN current_branch ELSE b) # Detached
      BY <2>3, <3>2
    <3> QED BY <2>1, <3>1, <3>3, ReaderInv
  <2> QED BY <2>2, <2>3
<1>9. ASSUME LooseCommit PROVE CheckoutInv'
  <2> DEFINE b == reader.branch
  <2>1. reader.at = "loose" /\ b # Detached
    BY <1>9 DEF LooseCommit, CheckoutInv
  <2>2. CASE b \in CoBranch /\ LooseRef(b) # 0
    <3>1. Reads("done", b, git.loose[b])
      BY <1>9, <2>2 DEF LooseCommit, LooseRef
    <3>2. b # "detached" /\ Refs(git)[b] = git.loose[b] /\ b \in DOMAIN pastRefs
      BY <2>1, <2>2 DEF Refs, RefAt, LooseRef, CheckoutInv, Detached
    <3>3. git.loose[b] \in pastRefs[b]
      BY <2>1, <3>2 DEF CheckoutInv
    <3> QED BY <2>1, <3>1, <3>3, ReaderInv
  <2>3. CASE ~(b \in CoBranch /\ LooseRef(b) # 0)
    <3>1. Reads("packed", b, 0)
      BY <1>9, <2>3 DEF LooseCommit
    <3>2. PackedOrUnborn(b)
      <4> SUFFICES ASSUME b \in CoBranch, git.packed[b] = 0 PROVE 0 \in pastRefs[b]
        BY DEF PackedOrUnborn
      <4>1. Refs(git)[b] = 0 /\ b \in DOMAIN pastRefs
        BY <2>1, <2>3 DEF Refs, RefAt, LooseRef, CheckoutInv
      <4> QED BY <2>1, <4>1 DEF CheckoutInv
    <3> QED BY <2>1, <3>1, <3>2, ReaderInv
  <2> QED BY <2>2, <2>3
<1>10. ASSUME PackedCommit PROVE CheckoutInv'
  <2> DEFINE b == reader.branch
             result == IF ~git.hasPacked THEN -1 ELSE IF b \in CoBranch THEN git.origin[b] ELSE 0
  <2>1. reader.at = "packed" /\ b # Detached /\ PackedOrUnborn(b) /\ Reads("done", b, result)
    BY <1>10 DEF PackedCommit, CheckoutInv
  <2>2. b \in DOMAIN pastRefs => b \in CoBranch
    BY <2>1 DEF CheckoutInv
  <2> HIDE DEF result, b
  <2> QED BY <2>1, <2>2, ReaderInv
<1>11. CASE UNCHANGED checkoutVars
  <2>1. Refs(git)' = Refs(git) /\ Asks(reader.env)' = Asks(reader.env) /\ PackedOrUnborn(reader.branch)' = PackedOrUnborn(reader.branch)
    BY <1>11 DEF checkoutVars, Refs, RefAt, Asks, ConfigErrorIn, repo_info, PackedOrUnborn
  <2> QED BY <1>11, <2>1 DEF checkoutVars, CheckoutInv
<1> QED BY <1>1, <1>2, <1>3, <1>4, <1>5, <1>6, <1>7, <1>8, <1>9, <1>10, <1>11 DEF CheckoutNext

LEMMA CheckoutInvImplies == CheckoutInv => CheckoutTypeOK /\ CommitOfTheBranch
<1> SUFFICES ASSUME CheckoutInv PROVE CheckoutTypeOK /\ CommitOfTheBranch
  OBVIOUS
<1>1. CheckoutTypeOK
  BY DEF CheckoutInv, CheckoutTypeOK, GitState
<1>2. CommitOfTheBranch
  BY DEF CheckoutInv, CommitOfTheBranch, Asks, PackedOrUnborn
<1> QED BY <1>1, <1>2

\* The commit that is reported is one the branch was at while it was read, for every number of
\* branches, of environments and of moves of git (BaseProjectConfig, repo_commit).
THEOREM CommitsAreOfTheBranch == CheckoutSpec => [](CheckoutTypeOK /\ CommitOfTheBranch)
BY CheckoutInvInit, CheckoutInvStep, CheckoutInvImplies, PTL DEF CheckoutSpec

-----------------------------------------------------------------------------
(* The suite: a step of it is a step of at most one component.              *)

SuiteVars ==
  <<subject, branchVars, releaseVars, trackingVars, pubVars, sourceVars, checkoutVars, promotionVars>>

LEMMA SuiteInit ==
  Init => MergeInit /\ TrackingInit /\ PublishInit /\ SourcesInit /\ CheckoutInit /\ PromotionInit
BY DEF Init

LEMMA SuiteStep ==
  [Next]_SuiteVars =>
    /\ [MergeNext]_branchVars /\ [TrackingNext]_trackingVars /\ [PublishNext]_pubVars
    /\ [SourcesNext]_sourceVars /\ [CheckoutNext]_checkoutVars /\ [PromotionNext]_promotionVars
BY DEF Next, SuiteVars

LEMMA SuiteImplements ==
  Spec => MergeSpec /\ TrackingSpec /\ PublishSpec /\ SourcesSpec /\ CheckoutSpec /\ PromotionSpec
BY SuiteInit, SuiteStep, PTL
   DEF Spec, SuiteVars, MergeSpec, TrackingSpec, PublishSpec, SourcesSpec, CheckoutSpec, PromotionSpec

\* A change that is hidden from the list of changes is one that has been retrieved
\* or was there when the tracking was reset: sourcetracking.py.
THEOREM TrackingIsSoundHolds == Spec => []TrackingIsSound
BY SuiteImplements, TrackingSound, PTL

\* What a tag of the target repository holds is what the project's tag holds, and no
\* package is promoted before what it needs: publish.py, commit.py and
\* promote_package_version.py.
THEOREM PublishingIsSoundHolds == Spec => []PublishingIsSound
<1>1. (PublishTypeOK /\ TagsAgree) /\ (PromotionTypeOK /\ DependenciesPromotedFirst) => PublishingIsSound
  BY DEF PublishingIsSound
<1> QED BY <1>1, SuiteImplements, PublishedAgrees, PromotedInOrder, PTL

\* A commit, of a directory or of all that is published, never takes back what others
\* pushed since the branch was read, nor anything outside its directory: commit.py.
THEOREM OthersWorkStaysHolds == Spec => OthersWorkStays
BY SuiteImplements, OthersWorkIsLeft, PTL

\* Commits go downstream only, and once nothing is left to build every branch has what the
\* branch it follows has, or a pull request waits to bring it, or a build failed: merge.py.
THEOREM BranchesAreSoundHolds == Spec => []BranchesAreSound
BY SuiteImplements, MergesAreSound, PTL DEF BranchesAreSound

\* A source that is used is whole and the one its spec meant, and the commit that is reported
\* of the checkout is one its branch was at: project_config.py, vcs_source.py and extract_zip.
THEOREM ProjectsAreSoundHolds == Spec => []ProjectsAreSound
<1>1. (SourcesTypeOK /\ LoadedIsWhole /\ SameSpecSameProject /\ AnswersWereMeant)
        /\ (CheckoutTypeOK /\ CommitOfTheBranch) => ProjectsAreSound
  BY DEF ProjectsAreSound
<1> QED BY <1>1, SuiteImplements, SourcesAreGiven, CommitsAreOfTheBranch, PTL
=============================================================================
