----------------------------- MODULE OrgSession -----------------------------
(* An org as a process holds it through the tasks of a flow: its access token, *)
(* renewed before every task from the connected app, from a key or from the    *)
(* Salesforce CLI, and the answers of the org that are kept between tasks. The *)
(* org, the CLI and the administrators change meanwhile. Time goes by in half  *)
(* hours.                                                                      *)
EXTENDS Integers, FiniteSets

CONSTANTS
  Lifetime,         \* external: half hours a token of the org lasts
  MaxSessionFaults, \* bound on failing commands, lost services and ended sessions
  MaxOrgChanges     \* bound on the changes of the org, of the CLI's orgs: what is kept of
                    \* the answers is the same for all

ASSUME SessionAssumption ==
  /\ Lifetime \in Nat /\ Lifetime > 0
  /\ MaxSessionFaults \in Nat /\ MaxOrgChanges \in Nat

VARIABLES
  way,        \* how the org is connected, and for a key what is known of its login
  sessPc,     \* "between" tasks, "running" one, or "failed"
  held,       \* the token of the process: _sfdx_info with its date, or access_token
  cliAge,     \* external: the age of the token the CLI has
  appThere,   \* whether the connected_app service is still configured
  faultsLeft,
  orgHas,     \* external: the features and packages of the org, and the changes to come
  kept,       \* the answers the OrgConfig keeps
  unseen,     \* history: packages changed, or were left out, since they were read
  answered    \* what was just asked, and said

sessVars == <<way, sessPc, held, cliAge, appThere, faultsLeft, orgHas, kept, unseen, answered>>
-----------------------------------------------------------------------------
\* Time: an hour in half hours. Ages above it, or above the life of a token, are alike.
Hour == 2
Older(age, limit) == IF age < limit THEN age + 1 ELSE age

NoToken == [there |-> FALSE, age |-> 0, since |-> 0]
Token(age) == [there |-> TRUE, age |-> age, since |-> 0]
Works(t) == t.there /\ t.age < Lifetime

\* For a key: the login page the org has, the form of its URL (with "sandbox.my", with an
\* instance, or its own domain), "sandbox" in its config, whether the id an earlier login
\* returned is known, and whether the server refused the audience.
Login == [kind : {"jwt"}, login : {"production", "sandbox"}, form : {"enhanced", "instance", "own"},
          flag : BOOLEAN, known : BOOLEAN, refused : BOOLEAN]
PossibleLogin == {w \in Login : ~w.refused /\ (w.login = "production" => w.form = "own" /\ ~w.flag)}
Connected(kind) == [kind |-> kind, login |-> "production", form |-> "own", flag |-> FALSE,
                known |-> FALSE, refused |-> FALSE]

\* Two packages that share a namespace; version 0 of one that is not installed.
SessPackage == {"p", "q"}
SessVersion == 0..2
Feature == {"currencies", "advanced", "person", "community"}
NothingAsked == [of |-> "nothing", about |-> "-", number |-> 0, said |-> "-"]
NothingKept == [currencies |-> FALSE, person |-> "unread", communities |-> FALSE,
                read |-> FALSE, packages |-> [p \in SessPackage |-> 0]]

SessTypeOK ==
  /\ way \in Login \cup {Connected("oauth"), Connected("cli")}
  /\ sessPc \in {"between", "running", "failed"}
  /\ held \in [there : BOOLEAN, age : 0..Lifetime, since : 0..(Hour + 1)]
  /\ cliAge \in 0..Lifetime /\ appThere \in BOOLEAN /\ faultsLeft \in 0..MaxSessionFaults
  /\ orgHas \in [features : SUBSET Feature, packages : [SessPackage -> SessVersion],
                 changes : 0..MaxOrgChanges]
  /\ kept \in [currencies : BOOLEAN, person : {"unread", "yes", "no"}, communities : BOOLEAN,
               read : BOOLEAN, packages : [SessPackage -> SessVersion]]
  /\ unseen \in BOOLEAN
  /\ answered.said \in {"-", "yes", "no", "error"} \cup SessPackage

SessInit ==
  /\ way \in PossibleLogin \cup {Connected("oauth"), Connected("cli")}
  /\ sessPc = "between" /\ appThere = TRUE /\ faultsLeft = MaxSessionFaults
  /\ held = IF way.kind = "cli" THEN NoToken ELSE Token(Lifetime)
  /\ cliAge \in IF way.kind = "cli" THEN {0, Lifetime - 1, Lifetime} ELSE {0}
  /\ orgHas = [features |-> {}, packages |-> [p \in SessPackage |-> 0],
                changes |-> IF way.kind = "cli" THEN MaxOrgChanges ELSE 0]
  /\ kept = NothingKept /\ unseen = FALSE /\ answered = NothingAsked

Fault == faultsLeft > 0 /\ faultsLeft' = faultsLeft - 1
-----------------------------------------------------------------------------
(* The start of a task: refresh_oauth_token. The last thing it does is to read *)
(* the Organization record, which needs a token that works.                    *)

\* A bug: the org is not asked, whatever the CLI displays is taken.
_load_orginfoNot(t) == IF t.there THEN "running" ELSE "failed"
_load_orginfo(t) == IF Works(t) THEN "running" ELSE "failed"

StartWith(t) == held' = t /\ sessPc' = _load_orginfo(t)
StartFails(t) == held' = t /\ sessPc' = "failed"

\* A command of the CLI fails, and no token is held after it.
CliFails == Fault /\ StartFails(NoToken) /\ UNCHANGED cliAge

Display(age) == StartWith(Token(age)) /\ cliAge' = age /\ UNCHANGED faultsLeft

\* A bug: what is cached is dropped after an hour, and read again without a new token.
ForcedNever(age) == age
\* `org open -r` has the CLI get a new token.
force_refresh_oauth_token(age) == 0

refresh_by_cli ==
  /\ way.kind = "cli"
  /\ \/ held.there /\ held.since <= Hour /\ StartWith(held) /\ UNCHANGED <<cliAge, faultsLeft>>
     \/ held.there /\ held.since > Hour /\ Display(force_refresh_oauth_token(cliAge))
     \/ ~held.there /\ Display(cliAge)
     \/ (held.there => held.since > Hour) /\ CliFails
  /\ UNCHANGED <<way, appThere>>

\* _refresh_token, with the connected app.
refresh_by_app ==
  /\ way.kind = "oauth"
  /\ \/ appThere /\ StartWith(Token(0)) /\ UNCHANGED faultsLeft
     \/ ~appThere /\ StartFails(held) /\ UNCHANGED faultsLeft
     \/ appThere /\ Fault /\ StartFails(held)
  /\ UNCHANGED <<way, cliAge, appThere>>

\* A bug: an id counts only as a whole, not by the login it starts with.
audienceWhole(w) ==
  CASE w.flag -> "sandbox"
    [] ~w.flag /\ w.known -> "production"
    [] ~w.flag /\ ~w.known -> IF w.form \in {"enhanced", "instance"} THEN "sandbox" ELSE "production"
\* jwt_session: the login page a key is presented for. "sandbox" in the config counts first,
\* then the login page of the id, then the form of the URL.
audience(w) ==
  CASE w.flag -> "sandbox"
    [] ~w.flag /\ w.known -> w.login
    [] ~w.flag /\ ~w.known -> IF w.form \in {"enhanced", "instance"} THEN "sandbox" ELSE "production"

refresh_by_key ==
  /\ way.kind = "jwt"
  /\ \/ audience(way) = way.login /\ StartWith(Token(0)) /\ way' = [way EXCEPT !.known = TRUE]
     \/ audience(way) # way.login /\ StartFails(held) /\ way' = [way EXCEPT !.refused = TRUE]
  /\ UNCHANGED <<cliAge, appThere, faultsLeft>>

StartTask ==
  /\ sessPc \in {"between", "failed"}
  /\ refresh_by_cli \/ refresh_by_app \/ refresh_by_key
  /\ answered' = NothingAsked /\ UNCHANGED <<orgHas, kept, unseen>>

\* A call of the metadata API whose session is not valid renews it once, with a
\* refresh_token; without one it fails, as every call of another API does.
SessionInvalid ==
  /\ sessPc = "running" /\ ~Works(held)
  /\ \/ way.kind = "oauth" /\ refresh_by_app
     \/ StartFails(held) /\ UNCHANGED <<way, cliAge, appThere, faultsLeft>>
  /\ answered' = NothingAsked /\ UNCHANGED <<orgHas, kept, unseen>>

EndTask ==
  /\ sessPc = "running" /\ sessPc' = "between"
  /\ answered' = NothingAsked
  /\ UNCHANGED <<way, held, cliAge, appThere, faultsLeft, orgHas, kept, unseen>>
-----------------------------------------------------------------------------
(* What a task asks of the org.                                                *)

Said(b) == IF b THEN "yes" ELSE "no"
Answer(of, about, number, said) ==
  /\ sessPc = "running" /\ Works(held)
  /\ answered' = [of |-> of, about |-> about, number |-> number, said |-> said]
  /\ UNCHANGED <<way, sessPc, held, cliAge, appThere, orgHas>>

\* A bug: the first answer is kept, whatever it is.
OncePositiveFirst(was, now) == was
\* Multiple currencies cannot be disabled: only that they are enabled is kept.
OncePositive(was, now) == was \/ now

AskCurrencies ==
  LET now == OncePositive(kept.currencies, "currencies" \in orgHas.features) IN
  /\ Answer("currencies", "-", 0, Said(now)) /\ kept' = [kept EXCEPT !.currencies = now]
  /\ UNCHANGED <<faultsLeft, unseen>>

\* Advanced currency management can be disabled, and is asked every time.
AskAdvanced ==
  /\ Answer("advanced", "-", 0, Said("advanced" \in orgHas.features))
  /\ UNCHANGED <<kept, faultsLeft, unseen>>

AskPerson ==
  LET now == IF kept.person # "unread" THEN kept.person ELSE Said("person" \in orgHas.features) IN
  /\ Answer("person", "-", 0, now) /\ kept' = [kept EXCEPT !.person = now]
  /\ UNCHANGED <<faultsLeft, unseen>>

\* A community that is not among those kept is asked for.
get_community_info ==
  LET now == OncePositive(kept.communities, "community" \in orgHas.features) IN
  /\ Answer("community", "-", 0, IF now THEN "yes" ELSE "error")
  /\ kept' = [kept EXCEPT !.communities = now] /\ UNCHANGED <<faultsLeft, unseen>>

\* installed_packages: read if it is not kept; a package whose version cannot be read is left
\* out of what is kept.
InstalledPackages ==
  \/ /\ kept.read /\ UNCHANGED <<kept, faultsLeft, unseen>>
  \/ /\ ~kept.read /\ kept' = [kept EXCEPT !.read = TRUE, !.packages = orgHas.packages]
     /\ UNCHANGED faultsLeft /\ unseen' = FALSE
  \/ \E p \in SessPackage :
       /\ ~kept.read /\ orgHas.packages[p] > 0 /\ Fault /\ unseen' = TRUE
       /\ kept' = [kept EXCEPT !.read = TRUE, !.packages = [orgHas.packages EXCEPT ![p] = 0]]

Installed(vs) == {p \in SessPackage : vs[p] > 0}

\* By the id of a package, or by the namespace the two packages share.
has_minimum_package_version(vs, ps, number) ==
  LET found == Installed(vs) \cap ps IN
  IF Cardinality(found) > 1 THEN "error" ELSE Said(\E p \in found : vs[p] >= number)

AskMinimum ==
  \E about \in SessPackage \cup {"namespace"}, n \in SessVersion \ {0} :
    /\ InstalledPackages
    /\ Answer("minimum", about, n, has_minimum_package_version(
         kept'.packages, IF about = "namespace" THEN SessPackage ELSE {about}, n))

\* resolve_04t_dependencies: the first of the versions with the namespace and the number.
resolve_04t_dependencies ==
  \E n \in SessVersion \ {0} :
    /\ InstalledPackages
    /\ LET found == {p \in SessPackage : kept'.packages[p] = n} IN
       IF found = {} THEN Answer("04t", "-", n, "error")
       ELSE \E p \in found : Answer("04t", "-", n, p)
-----------------------------------------------------------------------------
(* Changes of the org.                                                         *)

Change(features, packages) ==
  /\ orgHas.changes > 0
  /\ orgHas' = [features |-> features, packages |-> packages, changes |-> orgHas.changes - 1]
  /\ answered' = NothingAsked
  /\ UNCHANGED <<way, sessPc, held, cliAge, appThere, faultsLeft>>

\* A bug: what was read before an installation is kept.
reset_installed_packagesNot(k) == k
reset_installed_packages(k) == [k EXCEPT !.read = FALSE, !.packages = [p \in SessPackage |-> 0]]

Upgraded == {vs \in [SessPackage -> SessVersion] :
               \E p \in SessPackage, n \in SessVersion : vs = [orgHas.packages EXCEPT ![p] = n]}

\* A task installs or removes a package: to the end, or so that the task fails for lack of
\* patience while the org goes on.
InstallTask ==
  /\ sessPc = "running" /\ Works(held)
  /\ \E vs \in Upgraded \ {orgHas.packages} : Change(orgHas.features, vs)
  /\ \/ kept' = reset_installed_packages(kept) /\ unseen' = FALSE
     \/ UNCHANGED kept /\ unseen' = (unseen \/ kept.read)

\* What cannot be disabled: multiple currencies; a community is not deleted either.
MayDisable == {"advanced"}
FeatureChanges ==
  /\ \E f \in Feature :
       Change(IF f \notin orgHas.features THEN orgHas.features \cup {f} ELSE orgHas.features \ {f},
              orgHas.packages)
  /\ orgHas.features \ orgHas'.features \subseteq MayDisable
  /\ "advanced" \in orgHas'.features => "currencies" \in orgHas'.features
  /\ UNCHANGED <<kept, unseen>>
-----------------------------------------------------------------------------
(* Time, and others.                                                           *)

HalfHour ==
  /\ held' = IF held.there THEN [held EXCEPT !.age = Older(@, Lifetime), !.since = Older(@, Hour + 1)]
             ELSE held
  /\ cliAge' = IF way.kind = "cli" THEN Older(cliAge, Lifetime) ELSE cliAge
  /\ answered' = NothingAsked /\ UNCHANGED <<way, sessPc, appThere, faultsLeft, orgHas, kept, unseen>>

\* Another process has the CLI renew its token; an administrator ends the sessions of the
\* user; the connected app is removed from the services.
Others ==
  /\ \/ way.kind = "cli" /\ cliAge' = 0 /\ UNCHANGED <<held, appThere, faultsLeft>>
     \/ /\ Fault /\ held' = [held EXCEPT !.age = IF held.there THEN Lifetime ELSE 0]
        /\ cliAge' = (IF way.kind = "cli" THEN Lifetime ELSE 0) /\ UNCHANGED appThere
     \/ way.kind = "oauth" /\ appThere /\ appThere' = FALSE /\ Fault /\ UNCHANGED <<held, cliAge>>
  /\ answered' = NothingAsked /\ UNCHANGED <<way, sessPc, orgHas, kept, unseen>>

SessNext ==
  \/ StartTask \/ SessionInvalid \/ EndTask
  \/ AskCurrencies \/ AskAdvanced \/ AskPerson \/ get_community_info
  \/ AskMinimum \/ resolve_04t_dependencies
  \/ InstallTask \/ FeatureChanges \/ HalfHour \/ Others

SessSpec == SessInit /\ [][SessNext]_sessVars
-----------------------------------------------------------------------------
\* An answer is right for the org as it is, for all that was kept from earlier tasks: about
\* currencies, about communities, and about packages unless the org changed without the
\* process knowing or did not tell all. Person accounts may have come since they were read.
AnswersAreTrue ==
  LET here == Installed(orgHas.packages) IN
  CASE answered.of = "currencies" -> answered.said = Said("currencies" \in orgHas.features)
    [] answered.of = "advanced" -> answered.said = Said("advanced" \in orgHas.features)
    [] answered.of = "person" -> answered.said = "yes" => "person" \in orgHas.features
    [] answered.of = "community" -> (answered.said = "error") <=> ("community" \notin orgHas.features)
    [] answered.of = "minimum" /\ ~unseen ->
         LET asked == here \cap (IF answered.about = "namespace" THEN SessPackage ELSE {answered.about}) IN
         CASE answered.said = "error" -> asked = SessPackage
           [] answered.said = "yes" -> \E p \in asked : orgHas.packages[p] >= answered.number
           [] OTHER -> \A p \in asked : orgHas.packages[p] < answered.number
    [] answered.of = "04t" /\ ~unseen ->
         IF answered.said = "error" THEN \A p \in here : orgHas.packages[p] # answered.number
         ELSE orgHas.packages[answered.said] = answered.number
    [] OTHER -> TRUE

\* A key is refused only where the login page cannot be told: for a sandbox with a domain of
\* its own that nothing says is one, and never after a login that succeeded.
RefusedIfUntold ==
  way.refused => way.login = "sandbox" /\ way.form = "own" /\ ~way.flag /\ ~way.known

\* A task that starts has a token that works.
StartedTokenWorks == [][sessPc # "running" /\ sessPc' = "running" => Works(held')]_sessVars

\* A session of the CLI that has ended is not used for ever: as long as tasks are started,
\* one starts in the end, an hour later if need be.
CliRefused == way.kind = "cli" /\ sessPc = "failed"
TaskRuns == sessPc = "running"
StartsAgain == CliRefused ~> TaskRuns

\* What docs/headless.md:212 says, that SFDX_AUDIENCE_URL makes a login of this kind
\* succeed, is not so: the variable is not read.
NoSandboxIsRefused == ~way.refused
=============================================================================
