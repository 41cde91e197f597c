------------------------------ MODULE MCOrgs ------------------------------
(***************************************************************************)
(* What is kept of services and orgs, and the two ways to a token. A behaviour *)
(* is one of one component.                                                *)
(***************************************************************************)
EXTENDS ServiceKeychain, OrgKeychain, OAuthFlow, CredentialUpdate, Assignments,
  OrgSession

VARIABLE subject   \* the component this behaviour is about

\* Defaults name services that are there, through renames, removals, kills and the
\* move from the old layout; every live scratch org can be found, or its loss is
\* explained, and the default org is the one chosen.
KeychainIsSound ==
  /\ KeychainTypeOK /\ OrgKeyTypeOK
  /\ DefaultsExist /\ DefaultIsUsable /\ MigrationKeepsDefaults
  /\ LeaksAreExplained /\ RecordedOrgsExist /\ DefaultWasChosen

\* A login that ends well has the token it was for; a key is refused only where nothing
\* tells its login page, and what is kept of an org's answers between tasks is true of it.
SessionsAreSound ==
  /\ OAuthTypeOK /\ FlowHasItsToken
  /\ SessTypeOK /\ RefusedIfUntold /\ AnswersAreTrue

\* External services are edited as asked and nothing more; users end up with what was
\* asked for them, and are told the rest.
OrgTasksAreSound == CredentialsAreSound /\ AssignmentsAreSound

\* No service is lost on the move to the new layout; every login ends; a task starts with a
\* token that works, and a session that ended does not keep tasks from it for ever (FlowEnds
\* and StartsAgain at once: where one is about, the other is at rest).
OrgsMoveOn ==
  /\ MovedNotLost /\ StartedTokenWorks
  /\ (FlowWaits \/ CliRefused) ~> (FlowOver \/ TaskRuns)

\* Where a component starts in the behaviours of another.
CredentialsAtRest ==
  /\ credKind = "named" /\ credEnv = "-"
  /\ orgMeta = (CHOOSE m \in Metas("named") : m.secured)
  /\ credOptions = [regular |-> <<Url("u")>>, transform |-> <<>>, body |-> "true"]
AssignmentsAtRest ==
  /\ asgKind = "user" /\ failOnError = TRUE /\ orgLefts = Lefts /\ orgRights = Rights
  /\ orgPairs = {} /\ asgAsked = <<<<<<"-", "a">>, <<"-", "x">>>>>>
SessionAtRest == way = Connected("oauth")

Init ==
  /\ subject \in {"services", "orgs", "oauth", "credentials", "assignments", "session"}
  /\ KeychainInit
  /\ (subject = "services" \/ (old = {} /\ here = Dirs[2]))
  /\ OrgKeyInit
  /\ OAuthInit
  /\ (subject = "credentials" \/ (CredentialsAtRest))
  /\ CredInit
  /\ (subject = "assignments" \/ (AssignmentsAtRest))
  /\ AssignInit
  /\ (subject = "session" \/ (SessionAtRest))
  /\ SessInit

Next ==
  \/ /\ subject = "services" /\ KeychainNext
     /\ UNCHANGED <<subject, orgKeyVars, oauthVars, credVars, asgVars, sessVars>>
  \/ /\ subject = "orgs" /\ OrgKeyNext
     /\ UNCHANGED <<subject, keychainVars, oauthVars, credVars, asgVars, sessVars>>
  \/ /\ subject = "oauth" /\ OAuthNext
     /\ UNCHANGED <<subject, keychainVars, orgKeyVars, credVars, asgVars, sessVars>>
  \/ /\ subject = "credentials" /\ CredNext
     /\ UNCHANGED <<subject, keychainVars, orgKeyVars, oauthVars, asgVars, sessVars>>
  \/ /\ subject = "assignments" /\ AssignNext
     /\ UNCHANGED <<subject, keychainVars, orgKeyVars, oauthVars, credVars, sessVars>>
  \/ /\ subject = "session" /\ SessNext
     /\ UNCHANGED <<subject, keychainVars, orgKeyVars, oauthVars, credVars, asgVars>>

Spec == Init /\ [][Next]_<<subject, keychainVars, orgKeyVars, oauthVars, credVars,
          asgVars, sessVars>>

FairSpec ==
  /\ Spec
  /\ WF_oauthVars(subject = "oauth" /\ ServerStep)
  /\ WF_oauthVars(subject = "oauth" /\ ShutdownLate)
  /\ WF_oauthVars(subject = "oauth" /\ TimerStep)
  /\ WF_oauthVars(subject = "oauth" /\ MainStep)
  /\ WF_sessVars(subject = "session" /\ HalfHour)
  /\ WF_sessVars(subject = "session" /\ StartTask)
=============================================================================
