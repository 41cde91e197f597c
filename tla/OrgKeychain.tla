----------------------------- MODULE OrgKeychain -----------------------------
(* The orgs of a project: their files, for all projects or for this one, which *)
(* goes before; the file that names the default org; and the scratch orgs on   *)
(* the server, made on demand by a command that uses one and saved to the file *)
(* later. Commands run in processes of their own, two at a time.               *)
EXTENDS Integers, Sequences, FiniteSets, SequencesExt, FiniteSetsExt

CONSTANTS
  OrgName,
  Predefined,  \* the names of the scratch org configs of cumulusci.yml
  MaxServers,  \* bound on the scratch orgs ever made
  MaxOrgCommands

ASSUME OrgAssumption ==
  Predefined \subseteq OrgName /\ MaxServers \in Nat /\ MaxOrgCommands \in Nat

VARIABLES
  orgFiles,    \* the config of each org in each scope
  defaultOrg,  \* DEFAULT_ORG.txt
  hub,         \* server: the scratch orgs
  users,       \* the two processes that use an org
  orgCommands,
  chosen,      \* history: the names that may be the default as far as users know
  excused,     \* history: the scratch orgs nobody can be expected to delete
  hidden,      \* history: the names of flagged orgs of all projects hidden by one of this
  clobbered,   \* history: whether a process saved a config another had changed
  shared       \* history: the scratch orgs imported while something else named them

orgKeyVars == <<orgFiles, defaultOrg, hub, users, orgCommands, chosen, excused, hidden,
                clobbered, shared>>

Scope == {"local", "global"}
Server == 1..MaxServers
Process == {1, 2}

NoOrg == [kind |-> "none", server |-> 0, flag |-> FALSE]
Fresh == [kind |-> "scratch", server |-> 0, flag |-> FALSE]
OrgConfig == [kind : {"none", "scratch", "persistent"}, server : 0..MaxServers, flag : BOOLEAN]
IdleUser == [pc |-> "idle", name |-> "", scope |-> "local", base |-> NoOrg, config |-> NoOrg]

OrgKeyTypeOK ==
  /\ orgFiles \in [Scope -> [OrgName -> OrgConfig]]
  /\ defaultOrg \in OrgName \cup {""}
  /\ hub \in [Server -> {"free", "live", "expired", "deleted"}]
  /\ \A p \in Process : /\ users[p].pc \in {"idle", "create", "save"}
                        /\ users[p].name \in OrgName \cup {""}
                        /\ users[p].config \in OrgConfig /\ users[p].base \in OrgConfig
  /\ orgCommands \in 0..MaxOrgCommands
  /\ chosen \subseteq OrgName /\ hidden \subseteq OrgName /\ excused \subseteq Server
  /\ shared \subseteq Server /\ clobbered \in BOOLEAN

OrgKeyInit ==
  /\ orgFiles = [s \in Scope |-> [n \in OrgName |-> NoOrg]] /\ defaultOrg = ""
  /\ hub = [s \in Server |-> "free"] /\ users = [p \in Process |-> IdleUser]
  /\ orgCommands = 0 /\ chosen = {} /\ excused = {} /\ hidden = {}
  /\ clobbered = FALSE /\ shared = {}

-----------------------------------------------------------------------------
(* Files. "fs" are the files of the orgs.                                      *)

\* _load_orgs: the files of the project go over those of all projects.
ScopeOf(fs, n) == IF fs["local"][n].kind # "none" THEN "local" ELSE "global"
get_org(fs, n) == fs[ScopeOf(fs, n)][n]
list_orgs(fs) == {n \in OrgName : get_org(fs, n).kind # "none"}

save(fs, s, n, c) == [fs EXCEPT ![s][n] = c]

\* Every command first makes the configs of the project that are missing.
_load_scratch_orgs ==
  [orgFiles EXCEPT !["local"] =
     [n \in OrgName |-> IF n \in Predefined \ list_orgs(orgFiles) THEN Fresh ELSE @[n]]]

unset_default_orgFile(fs) == fs
unset_default_org(fs) ==
  [s \in Scope |-> [n \in OrgName |->
     IF s = ScopeOf(fs, n) THEN [fs[s][n] EXCEPT !.flag = FALSE] ELSE fs[s][n]]]

Flagged(fs, n) == save(unset_default_org(fs), ScopeOf(fs, n), n, [get_org(fs, n) EXCEPT !.flag = TRUE])

\* The default: the org the file names; without one, or with one that is gone, the first
\* org with a flag.
FlaggedOrgs(fs) == {n \in list_orgs(fs) : get_org(fs, n).flag}
get_default_org(fs) ==
  IF defaultOrg # "" /\ defaultOrg \in list_orgs(fs) THEN {defaultOrg} ELSE FlaggedOrgs(fs)

-----------------------------------------------------------------------------
(* Commands, each in one step: nothing in them waits for a server, but the     *)
(* deletion of a scratch org, and nothing of theirs is read before it.         *)

Command == orgCommands < MaxOrgCommands /\ orgCommands' = orgCommands + 1

\* set_default_org, killed or not between its writes: the flags, the flag, the file.
SetDefault(fs, n) ==
  \/ orgFiles' = Flagged(fs, n) /\ defaultOrg' = n /\ chosen' = {n}
  \/ orgFiles' = Flagged(fs, n) /\ defaultOrg' = "" /\ chosen' = {n}
  \/ orgFiles' = unset_default_org(fs) /\ defaultOrg' = "" /\ chosen' = {}

MayBeDefault(fs, n) ==
  \/ SetDefault(fs, n)
  \/ orgFiles' = fs /\ UNCHANGED <<defaultOrg, chosen>>

\* A name is free for a new org unless it is that of a connected org or of a scratch org
\* that has been made.
check_org_overwriteNone(n) == TRUE
check_org_overwrite(n) ==
  LET c == get_org(_load_scratch_orgs, n) IN c.kind = "none" \/ (c.kind = "scratch" /\ c.server = 0)

create_scratch_org(fs, n) == save(fs, "local", n, Fresh)

org_scratch(n) ==
  /\ Command /\ check_org_overwrite(n)
  /\ MayBeDefault(create_scratch_org(_load_scratch_orgs, n), n)
  /\ UNCHANGED <<hub, users, excused, clobbered, shared>>

org_connect(n, s) ==
  /\ Command /\ check_org_overwrite(n)
  /\ MayBeDefault(save(_load_scratch_orgs, s, n, [kind |-> "persistent", server |-> 0, flag |-> FALSE]), n)
  /\ UNCHANGED <<hub, users, excused, clobbered, shared>>

Live(c) == {s \in Server : s = c.server /\ hub[s] = "live"}

\* The files or a process on its way name the server, but for the file to be written.
NamedElsewhere(fs, n, s) ==
  \/ \E x \in Scope, m \in OrgName : <<x, m>> # <<"local", n>> /\ fs[x][m].server = s
  \/ \E p \in Process : users[p].config.server = s

\* Nothing checks the name, which may be taken, nor whether the org has another. The CLI of
\* Salesforce shows a scratch org it made, here or outside of CumulusCI, until it is deleted;
\* any other org it knows is taken for one that persists; and its request may fail.
org_import(n) ==
  LET fs == _load_scratch_orgs  old == Live(fs["local"][n]) IN
  /\ Command
  /\ \/ \E s \in Server :
          /\ hub[s] # "deleted"
          /\ hub' = [hub EXCEPT ![s] = IF @ = "free" THEN "live" ELSE @]
          /\ orgFiles' = save(fs, "local", n, [kind |-> "scratch", server |-> s, flag |-> FALSE])
          /\ excused' = excused \cup (old \ {s})
          /\ shared' = IF NamedElsewhere(fs, n, s) THEN shared \cup {s} ELSE shared
     \/ /\ orgFiles' = save(fs, "local", n, [kind |-> "persistent", server |-> 0, flag |-> FALSE])
        /\ excused' = excused \cup old /\ UNCHANGED <<hub, shared>>
     \/ orgFiles' = fs /\ UNCHANGED <<hub, excused, shared>>
  /\ UNCHANGED <<defaultOrg, users, chosen, clobbered>>

org_default(n) ==
  /\ Command /\ n \in list_orgs(_load_scratch_orgs) /\ SetDefault(_load_scratch_orgs, n)
  /\ UNCHANGED <<hub, users, excused, clobbered, shared>>

org_default_unset ==
  /\ Command /\ orgFiles' = unset_default_org(_load_scratch_orgs) /\ defaultOrg' = "" /\ chosen' = {}
  /\ UNCHANGED <<hub, users, excused, clobbered, shared>>

\* Asking for the default forgets one that is gone, and writes one found by its flag.
AskDefault ==
  /\ Command
  /\ LET fs == _load_scratch_orgs IN
     IF defaultOrg \in list_orgs(fs) THEN orgFiles' = fs /\ UNCHANGED defaultOrg
     ELSE IF FlaggedOrgs(fs) = {} THEN orgFiles' = fs /\ defaultOrg' = ""
     ELSE \E n \in FlaggedOrgs(fs) : orgFiles' = Flagged(fs, n) /\ defaultOrg' = n
  /\ UNCHANGED <<hub, users, chosen, excused, clobbered, shared>>

\* What deletion leaves in the config; the flag of the default stays.
DeletedForgotten(c) == c
Deleted(c) == [c EXCEPT !.server = 0]

\* An org is deleted, or is not: it has expired, or the request fails.
org_scratch_delete(n) ==
  LET fs == _load_scratch_orgs  c == get_org(fs, n) IN
  /\ Command /\ c.kind = "scratch"
  /\ \/ /\ Live(c) # {}
        /\ hub' = [hub EXCEPT ![c.server] = "deleted"]
        /\ orgFiles' = save(fs, ScopeOf(fs, n), n, Deleted(c))
     \/ orgFiles' = fs /\ UNCHANGED hub
  /\ UNCHANGED <<defaultOrg, users, chosen, excused, clobbered, shared>>

\* The org found by the name is deleted first, whatever scope is then asked for; the file
\* is removed if it is in that scope, whether the deletion worked or not.
org_remove(n, s) ==
  LET fs == _load_scratch_orgs  c == get_org(fs, n)
      Removed(gs) == IF gs[s][n].kind = "none" THEN gs ELSE save(gs, s, n, NoOrg) IN
  /\ Command /\ c.kind # "none"
  /\ \/ /\ Live(c) # {}
        /\ hub' = [hub EXCEPT ![c.server] = "deleted"]
        /\ orgFiles' = Removed(save(fs, ScopeOf(fs, n), n, Deleted(c)))
        /\ UNCHANGED excused
     \/ /\ orgFiles' = Removed(fs) /\ UNCHANGED hub
        /\ excused' = IF s = ScopeOf(fs, n) THEN excused \cup Live(c) ELSE excused
  /\ UNCHANGED <<defaultOrg, users, chosen, clobbered, shared>>

\* Scratch orgs that have expired, or were never made, lose their files; those of the
\* project keep theirs; orgs still alive lose them only if all are to go.
Pruned(fs, active) ==
  {n \in list_orgs(fs) :
     /\ get_org(fs, n).kind = "scratch"
     /\ IF Live(get_org(fs, n)) # {} THEN active ELSE n \notin Predefined}

org_prune(active) ==
  LET fs == _load_scratch_orgs  gone == Pruned(fs, active) IN
  /\ Command
  /\ orgFiles' = [fs EXCEPT !["local"] = [n \in OrgName |-> IF n \in gone THEN NoOrg ELSE @[n]]]
  /\ excused' = IF active THEN excused \cup UNION {Live(get_org(fs, n)) : n \in gone} ELSE excused
  /\ UNCHANGED <<defaultOrg, hub, users, chosen, clobbered, shared>>

-----------------------------------------------------------------------------
(* A task or a flow on an org: the config is loaded; the scratch org is made   *)
(* if it has not been, or has expired; the config is saved when its token has  *)
(* been refreshed.                                                             *)

Created(c) == c.kind = "scratch" /\ c.server # 0

\* check_org_expired: the config of an expired org is written anew.
BeginUse(p, n) ==
  LET fs == _load_scratch_orgs  c == get_org(fs, n)
      gs == IF Created(c) /\ Live(c) = {} /\ hub[c.server] = "expired"
            THEN create_scratch_org(fs, n) ELSE fs
      d == get_org(gs, n) IN
  /\ Command /\ users[p].pc = "idle" /\ c.kind # "none"
  /\ orgFiles' = gs
  /\ users' = [users EXCEPT ![p] =
       [pc |-> IF d.kind = "scratch" /\ ~Created(d) THEN "create" ELSE "save",
        name |-> n, scope |-> ScopeOf(gs, n), base |-> d, config |-> d]]
  /\ UNCHANGED <<defaultOrg, hub, chosen, excused, clobbered, shared>>

create_org(p) ==
  /\ users[p].pc = "create"
  /\ \/ \E s \in Server :
          /\ hub[s] = "free" /\ hub' = [hub EXCEPT ![s] = "live"]
          /\ users' = [users EXCEPT ![p].pc = "save", ![p].config.server = s]
     \/ users' = [users EXCEPT ![p] = IdleUser] /\ UNCHANGED hub
  /\ UNCHANGED <<orgFiles, defaultOrg, orgCommands, chosen, excused, clobbered, shared>>

\* An org just made is lost if its token cannot be refreshed, or the process is killed.
RefreshFails(p) ==
  /\ users[p].pc = "save" /\ users' = [users EXCEPT ![p] = IdleUser]
  /\ excused' = IF users[p].config = users[p].base THEN excused
                ELSE excused \cup Live(users[p].config)
  /\ UNCHANGED <<orgFiles, defaultOrg, hub, orgCommands, chosen, clobbered, shared>>

save_if_changed(p) ==
  LET u == users[p]  recorded == orgFiles[u.scope][u.name] IN
  /\ u.pc = "save" /\ users' = [users EXCEPT ![p] = IdleUser]
  /\ orgFiles' = save(orgFiles, u.scope, u.name, u.config)
  /\ clobbered' = (clobbered \/ recorded # u.base)
  /\ excused' = IF recorded # u.base THEN excused \cup Live(recorded) ELSE excused
  /\ UNCHANGED <<defaultOrg, hub, orgCommands, chosen, shared>>

Expire ==
  /\ \E s \in Server : hub[s] = "live" /\ hub' = [hub EXCEPT ![s] = "expired"]
  /\ UNCHANGED <<orgFiles, defaultOrg, users, orgCommands, chosen, excused, clobbered, shared>>

OrgStep ==
  \/ \E n \in OrgName :
       \/ org_scratch(n) \/ org_import(n) \/ org_default(n) \/ org_scratch_delete(n)
       \/ \E s \in Scope : org_connect(n, s) \/ org_remove(n, s)
       \/ \E p \in Process : BeginUse(p, n)
  \/ org_default_unset \/ AskDefault
  \/ \E active \in BOOLEAN : org_prune(active)
  \/ \E p \in Process : create_org(p) \/ RefreshFails(p) \/ save_if_changed(p)
  \/ Expire

OrgKeyNext ==
  /\ OrgStep
  /\ hidden' = hidden \cup {n \in OrgName : orgFiles'["local"][n].kind # "none" /\ orgFiles'["global"][n].flag}

OrgKeySpec == OrgKeyInit /\ [][OrgKeyNext]_orgKeyVars

-----------------------------------------------------------------------------
(* Properties.                                                                 *)

\* A scratch org that is alive is in a file, or in a process on its way to one, unless a
\* command that made it failed or was killed, two commands made one each for one name, an
\* import went over it, its deletion failed, or all were pruned: no other sequence of
\* commands loses one.
LeaksAreExplained ==
  \A s \in Server : hub[s] = "live" =>
    \/ s \in excused
    \/ \E x \in Scope, n \in OrgName : orgFiles[x][n].server = s
    \/ \E p \in Process : users[p].pc = "save" /\ users[p].config.server = s

\* No file takes a deleted scratch org for one that can be used, unless a process saved
\* what it had loaded before the deletion, or the org was imported under a second name.
RecordedOrgsExist ==
  ~clobbered => \A x \in Scope, n \in OrgName :
                  orgFiles[x][n].server \notin {0} \cup shared => hub[orgFiles[x][n].server] # "deleted"

\* The default org is the one last chosen, or none, also after that one was removed or the
\* choice was interrupted, unless a process saved a flag it had loaded before, or an org of
\* the project hid a default org of all projects, whose flag nothing then clears.
DefaultWasChosen ==
  ~clobbered => get_default_org(_load_scratch_orgs) \subseteq chosen \cup hidden

\* Does not hold: the same whatever was imported. Of two names of one scratch org (cci org
\* import looks for no other) the deletion of one leaves the other with an org that is gone.
DeletedHasNoName ==
  ~clobbered => \A x \in Scope, n \in OrgName :
                  orgFiles[x][n].server # 0 => hub[orgFiles[x][n].server] # "deleted"

\* Removing an org deletes from the server the scratch org whose file it removes.
RemovesWhatItDeletes ==
  [][\A s \in Server : \A x \in Scope, n \in OrgName :
       (/\ hub[s] = "live" /\ hub'[s] = "deleted"
        /\ orgFiles[x][n].kind # "none" /\ orgFiles'[x][n].kind = "none") =>
         orgFiles[x][n].server = s]_orgKeyVars
=============================================================================
