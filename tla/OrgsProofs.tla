----------------------------- MODULE OrgsProofs -----------------------------
(* What is proved of services, orgs and sessions.  In this order: the login by a web or *)
(* a device flow (OAuthFlow), an org as a process holds it through the tasks of a flow    *)
(* (OrgSession), the services of the keychain (ServiceKeychain), its orgs (OrgKeychain),  *)
(* each with an inductive invariant that holds for every lifetime of a token and number   *)
(* of requests, commands, processes, faults and kills; and from these the invariants of   *)
(* the suite MCOrgs about the four.                                                       *)
EXTENDS MCOrgs, FiniteSetTheorems, SequenceTheorems, TLAPS

-----------------------------------------------------------------------------
(* The login: OAuthFlow.                                                             *)

\* Where the flow is, and what the server of the web flow has done; every exchange was of a
\* request that was sent and handled.
FlowInv ==
  /\ oauthPc \in {"idle", "poll"} => serverState = "off"
  /\ oauthPc = "serve" => serverState \in {"serving", "handling"}
  /\ serverState \in {"serving", "handling"} => oauthPc = "serve"
  /\ oauthPc \in {"closing", "validate"} => serverState = "down"
  /\ serverState = "off" => callbacks = <<>> /\ sent = 0 /\ ~used /\ ~granted /\ response = "none"
  /\ oauthPc = "ok" /\ serverState = "down" => response = "token"
  /\ oauthPc = "failed" /\ serverState = "down" => response # "token"

ExchangeInv ==
  /\ Len(callbacks) <= sent
  /\ response = "token" => granted
  /\ granted => used /\ response # "none" /\ Len(callbacks) + 1 <= sent
  /\ granted /\ response # "token" => Len(callbacks) + 2 <= sent

OAuthInv == OAuthTypeOK /\ FlowInv /\ ExchangeInv

LEMMA OAuthInvInit == OAuthInit => OAuthInv
<1> SUFFICES ASSUME OAuthInit PROVE OAuthInv
  OBVIOUS
<1>1. Len(callbacks) = 0 /\ callbacks \in Seq(Callback)
  BY DEF OAuthInit
<1>2. sent \in 0..MaxRequests /\ device \in [left : Int, answer : {"none", "pending", "slow_down", "denied", "token"}]
  BY OAuthAssumption DEF OAuthInit
<1>3. OAuthTypeOK
  BY <1>1, <1>2 DEF OAuthInit, OAuthTypeOK
<1>4. FlowInv /\ ExchangeInv
  BY <1>1 DEF OAuthInit, FlowInv, ExchangeInv
<1> QED BY <1>3, <1>4 DEF OAuthInv

\* A request is sent, or handled.
LEMMA BrowserKeeps == OAuthInv /\ BrowserSends => OAuthInv'
<1> SUFFICES ASSUME OAuthInv, BrowserSends PROVE OAuthInv'
  OBVIOUS
<1>1. PICK c \in Callback : callbacks' = Append(callbacks, c)
  BY DEF BrowserSends
<1>2. callbacks' \in Seq(Callback) /\ Len(callbacks') = Len(callbacks) + 1 /\ Len(callbacks) \in Nat
  BY <1>1 DEF OAuthInv, OAuthTypeOK
<1>3. sent' = sent + 1 /\ sent' \in 0..MaxRequests /\ sent \in Nat
  BY OAuthAssumption DEF OAuthInv, OAuthTypeOK, BrowserSends
<1>4. OAuthTypeOK'
  BY <1>2, <1>3 DEF OAuthInv, OAuthTypeOK, BrowserSends
<1>5. FlowInv'
  BY DEF OAuthInv, FlowInv, BrowserSends
<1>6. ExchangeInv'
  BY <1>2, <1>3 DEF OAuthInv, ExchangeInv, BrowserSends
<1> QED BY <1>4, <1>5, <1>6 DEF OAuthInv

LEMMA HandlerKeeps == OAuthInv /\ do_GET => OAuthInv'
<1> SUFFICES ASSUME OAuthInv, do_GET PROVE OAuthInv'
  OBVIOUS
<1>1. /\ callbacks' \in Seq(Callback) /\ Len(callbacks) \in Nat /\ Len(callbacks') = Len(callbacks) - 1
      /\ sent \in Nat /\ sent' = sent
  BY DEF OAuthInv, OAuthTypeOK, do_GET
<1>2. \/ UNCHANGED <<response, used, granted>> /\ serverState' = serverState
      \/ serverState' = "handling" /\ response' = Grant /\ used' = TRUE /\ granted' = (granted \/ Grant = "token")
      \/ serverState' = "handling" /\ response' = (IF response = "none" THEN "error" ELSE response)
         /\ UNCHANGED <<used, granted>>
  BY DEF do_GET
<1>3. /\ serverState = "serving" /\ UNCHANGED <<oauthPc, stopAsked, sent, timer, timerHttpd, device>>
  BY DEF do_GET
<1>4. OAuthTypeOK'
  <2>1. response' \in {"none", "token", "error"} /\ serverState' \in {"off", "serving", "handling", "down"}
    BY <1>2, <1>3 DEF OAuthInv, OAuthTypeOK, Grant
  <2>2. used' \in BOOLEAN /\ granted' \in BOOLEAN
    BY <1>2, Zenon DEF OAuthInv, OAuthTypeOK
  <2> QED BY <1>1, <1>3, <2>1, <2>2 DEF OAuthInv, OAuthTypeOK
<1>5. FlowInv'
  BY <1>2, <1>3 DEF OAuthInv, FlowInv
<1>6. ExchangeInv'
  <2>1. CASE UNCHANGED <<response, used, granted>>
    BY <1>1, <2>1 DEF OAuthInv, ExchangeInv
  <2>2. CASE response' = (IF response = "none" THEN "error" ELSE response) /\ UNCHANGED <<used, granted>>
    BY <1>1, <2>2 DEF OAuthInv, ExchangeInv
  <2>3. CASE response' = Grant /\ used' = TRUE /\ granted' = (granted \/ Grant = "token")
    <3>1. CASE used
      <4>1. response' = "error" /\ (granted' <=> granted)
        BY <2>3, <3>1 DEF Grant
      <4> QED BY <1>1, <2>3, <4>1 DEF OAuthInv, ExchangeInv
    <3>2. CASE ~used
      <4>1. response' = "token" /\ granted' /\ used'
        BY <2>3, <3>2 DEF Grant
      <4>2. Len(callbacks') + 1 <= sent'
        BY <1>1 DEF OAuthInv, ExchangeInv
      <4> QED BY <1>1, <4>1, <4>2 DEF ExchangeInv
    <3> QED BY <3>1, <3>2
  <2> QED BY <1>2, <2>1, <2>2, <2>3
<1> QED BY <1>4, <1>5, <1>6 DEF OAuthInv

LEMMA OtherFlowStepsKeep ==
  OAuthInv /\ (auth_code_flow \/ get_device_code \/ ServerStep \/ ShutdownLate \/ TimerStep \/ MainStep) => OAuthInv'
<1> SUFFICES ASSUME OAuthInv, auth_code_flow \/ get_device_code \/ ServerStep \/ ShutdownLate \/ TimerStep \/ MainStep
             PROVE  OAuthInv'
  OBVIOUS
<1>1. UNCHANGED <<callbacks, sent, used, response, granted>>
  BY DEF auth_code_flow, get_device_code, ServerStep, Respond, ServerStops, ShutdownLate, TimerStep, TimeIsUp, TimerAsks,
    MainStep, Quit, validate_response, get_device_oauth_token, DeviceUnchanged
<1>2. ExchangeInv'
  BY <1>1 DEF OAuthInv, ExchangeInv
<1>3. device' \in [left : Int, answer : {"none", "pending", "slow_down", "denied", "token"}]
  <2>1. CASE get_device_code
    BY <2>1, OAuthAssumption DEF OAuthInv, OAuthTypeOK, get_device_code
  <2>2. CASE get_device_oauth_token
    <3>1. \A i \in Intervals : device.left - i \in Int
      BY OAuthAssumption DEF OAuthInv, OAuthTypeOK
    <3> QED BY <2>2, <3>1 DEF OAuthInv, OAuthTypeOK, get_device_oauth_token
  <2>3. CASE ~get_device_code /\ ~get_device_oauth_token
    <3>1. device' = device
      BY <2>3 DEF auth_code_flow, ServerStep, Respond, ServerStops, ShutdownLate, TimerStep, TimeIsUp, TimerAsks,
        MainStep, Quit, validate_response
    <3> QED BY <3>1 DEF OAuthInv, OAuthTypeOK
  <2> QED BY <2>1, <2>2, <2>3
<1>4. /\ oauthPc' \in {"idle", "serve", "closing", "validate", "poll", "ok", "failed"}
      /\ serverState' \in {"off", "serving", "handling", "down"} /\ stopAsked' \in BOOLEAN
      /\ timer' \in {"off", "waiting", "due", "asking", "done"} /\ timerHttpd' \in BOOLEAN
  BY DEF OAuthInv, OAuthTypeOK, auth_code_flow, get_device_code, ServerStep, Respond, ServerStops, ShutdownLate, TimerStep,
    TimeIsUp, TimerAsks, MainStep, Quit, validate_response, get_device_oauth_token, DeviceUnchanged
<1>5. OAuthTypeOK'
  BY <1>1, <1>3, <1>4 DEF OAuthInv, OAuthTypeOK
<1>6. FlowInv'
  BY <1>1 DEF OAuthInv, FlowInv, auth_code_flow, get_device_code, ServerStep, Respond, ShutdownThread, ServerStops,
    ShutdownLate, TimerStep, TimeIsUp, TimerAsks, MainStep, Quit, validate_response, Valid, get_device_oauth_token,
    DeviceUnchanged
<1> QED BY <1>2, <1>5, <1>6 DEF OAuthInv

LEMMA OAuthInvNext == OAuthInv /\ [OAuthNext]_oauthVars => OAuthInv'
<1> SUFFICES ASSUME OAuthInv, [OAuthNext]_oauthVars PROVE OAuthInv'
  OBVIOUS
<1>1. CASE UNCHANGED oauthVars
  BY <1>1 DEF OAuthInv, OAuthTypeOK, FlowInv, ExchangeInv, oauthVars
<1> QED BY <1>1, BrowserKeeps, HandlerKeeps, OtherFlowStepsKeep DEF OAuthNext

\* A web flow that ends well has the token it was granted, and one that fails although one
\* was granted had two requests at least: oauth/client.py.
THEOREM FlowIsSound == OAuthSpec => [](OAuthTypeOK /\ FlowHasItsToken)
<1>1. OAuthInv => OAuthTypeOK /\ FlowHasItsToken
  BY DEF OAuthInv, OAuthTypeOK, FlowInv, ExchangeInv, FlowHasItsToken
<1> QED BY <1>1, OAuthInvInit, OAuthInvNext, PTL DEF OAuthSpec

-----------------------------------------------------------------------------
(* The session of an org.                                                    *)

\* What can never be disabled may be kept for ever; packages are as read unless that is known not to be so.
KeptInv ==
  /\ kept.currencies => "currencies" \in orgHas.features
  /\ kept.person = "yes" => "person" \in orgHas.features
  /\ kept.communities => "community" \in orgHas.features
  /\ kept.read /\ ~unseen => kept.packages = orgHas.packages

\* What a key is presented for is decided by what is known of its login.
LoginInv ==
  way.kind = "jwt" =>
    /\ way \in Login
    /\ way.login = "production" => way.form = "own" /\ ~way.flag
    /\ RefusedIfUntold

SessInv == SessTypeOK /\ KeptInv /\ LoginInv /\ (way.kind # "jwt" => ~way.refused) /\ AnswersAreTrue

LEMMA WaysAre ==
  /\ \A w \in Login : w.kind = "jwt" /\ w.flag \in BOOLEAN /\ w.known \in BOOLEAN /\ w.refused \in BOOLEAN
                      /\ w.login \in {"production", "sandbox"} /\ w.form \in {"enhanced", "instance", "own"}
  /\ \A k \in {"oauth", "cli"} : Connected(k).kind = k /\ ~Connected(k).refused
BY DEF Login, Connected

LEMMA TokensAre ==
  /\ NoToken \in [there : BOOLEAN, age : 0..Lifetime, since : 0..(Hour + 1)]
  /\ \A a \in 0..Lifetime : Token(a) \in [there : BOOLEAN, age : 0..Lifetime, since : 0..(Hour + 1)]
BY SessionAssumption DEF NoToken, Token, Hour

LEMMA NotAsked == ASSUME answered' = NothingAsked PROVE AnswersAreTrue'
BY DEF AnswersAreTrue, NothingAsked

LEMMA SessInvInit == SessInit => SessInv
<1> SUFFICES ASSUME SessInit PROVE SessInv
  OBVIOUS
<1>1. way \in Login \cup {Connected("oauth"), Connected("cli")} /\ (way.kind = "cli" \/ way.kind # "cli")
  BY DEF SessInit, PossibleLogin
<1>2. /\ held \in [there : BOOLEAN, age : 0..Lifetime, since : 0..(Hour + 1)]
      /\ cliAge \in 0..Lifetime
  BY TokensAre, SessionAssumption DEF SessInit
<1>3. /\ orgHas.features = {} /\ orgHas.packages = [p \in SessPackage |-> 0]
      /\ orgHas \in [features : SUBSET Feature, packages : [SessPackage -> SessVersion], changes : 0..MaxOrgChanges]
  BY SessionAssumption DEF SessInit, SessVersion
<1>4. kept \in [currencies : BOOLEAN, person : {"unread", "yes", "no"}, communities : BOOLEAN,
                read : BOOLEAN, packages : [SessPackage -> SessVersion]]
  BY DEF SessInit, NothingKept, SessVersion
<1>5. SessTypeOK
  <2>1. way \in Login \cup {Connected("oauth"), Connected("cli")}
    BY <1>1
  <2>2. sessPc \in {"between", "running", "failed"} /\ faultsLeft \in 0..MaxSessionFaults
    BY SessionAssumption DEF SessInit
  <2>3. appThere \in BOOLEAN /\ unseen \in BOOLEAN
    BY Zenon DEF SessInit
  <2>4. answered.said \in {"-", "yes", "no", "error"} \cup SessPackage
    BY DEF SessInit, NothingAsked
  <2> QED BY <1>2, <1>3, <1>4, <2>1, <2>2, <2>3, <2>4 DEF SessTypeOK
<1>6. KeptInv
  BY DEF SessInit, KeptInv, NothingKept
<1>7. LoginInv /\ (way.kind # "jwt" => ~way.refused)
  BY <1>1, WaysAre DEF SessInit, LoginInv, PossibleLogin, RefusedIfUntold
<1>8. AnswersAreTrue
  BY DEF SessInit, AnswersAreTrue, NothingAsked
<1> QED BY <1>5, <1>6, <1>7, <1>8 DEF SessInv

\* A login leaves what is known of the way consistent.
LEMMA ByKey ==
  ASSUME SessInv, refresh_by_key
  PROVE  /\ way' \in Login /\ LoginInv' /\ (way'.kind = "jwt")
         /\ held' \in [there : BOOLEAN, age : 0..Lifetime, since : 0..(Hour + 1)] /\ sessPc' \in {"running", "failed"}
         /\ cliAge' = cliAge /\ appThere' = appThere /\ faultsLeft' = faultsLeft
<1>1. way.kind = "jwt" /\ way \in Login
  BY DEF SessInv, LoginInv, refresh_by_key
<1>2. CASE audience(way) = way.login /\ StartWith(Token(0)) /\ way' = [way EXCEPT !.known = TRUE]
  <2>1. way' \in Login /\ way'.kind = "jwt" /\ way'.login = way.login /\ way'.form = way.form /\ way'.flag = way.flag
        /\ way'.refused = way.refused /\ way'.known
    BY <1>1, <1>2 DEF Login
  <2>2. ~way.refused
    <3>1. way.refused => way.login = "sandbox" /\ way.form = "own" /\ ~way.flag /\ ~way.known
      BY <1>1 DEF SessInv, LoginInv, RefusedIfUntold
    <3> QED BY <1>2, <3>1 DEF audience
  <2>3. LoginInv'
    BY <1>1, <2>1, <2>2 DEF SessInv, LoginInv, RefusedIfUntold
  <2>4. held' = Token(0) /\ sessPc' \in {"running", "failed"}
    BY <1>2 DEF StartWith, _load_orginfo
  <2> QED BY <2>1, <2>3, <2>4, TokensAre, SessionAssumption DEF refresh_by_key
<1>3. CASE audience(way) # way.login /\ StartFails(held) /\ way' = [way EXCEPT !.refused = TRUE]
  <2>1. way' \in Login /\ way'.kind = "jwt" /\ way'.login = way.login /\ way'.form = way.form /\ way'.flag = way.flag
        /\ way'.known = way.known
    BY <1>1, <1>3 DEF Login
  <2>2. way.login = "sandbox" /\ way.form = "own" /\ ~way.flag /\ ~way.known
    <3>1. way.login = "production" => way.form = "own" /\ ~way.flag
      BY <1>1 DEF SessInv, LoginInv
    <3> QED BY <1>1, <1>3, <3>1, WaysAre DEF audience
  <2>3. LoginInv'
    BY <1>1, <2>1, <2>2 DEF LoginInv, RefusedIfUntold
  <2>4. held' = held /\ sessPc' = "failed"
    BY <1>3 DEF StartFails
  <2> QED BY <2>1, <2>3, <2>4 DEF refresh_by_key, SessInv, SessTypeOK
<1> QED BY <1>2, <1>3 DEF refresh_by_key

LEMMA ByOthers ==
  ASSUME SessInv, refresh_by_cli \/ refresh_by_app
  PROVE  /\ way' = way /\ held' \in [there : BOOLEAN, age : 0..Lifetime, since : 0..(Hour + 1)]
         /\ sessPc' \in {"running", "failed"}
         /\ cliAge' \in 0..Lifetime /\ appThere' \in BOOLEAN /\ faultsLeft' \in 0..MaxSessionFaults
<1>1. /\ cliAge \in 0..Lifetime /\ appThere \in BOOLEAN /\ faultsLeft \in 0..MaxSessionFaults /\ 0 \in 0..Lifetime
      /\ held \in [there : BOOLEAN, age : 0..Lifetime, since : 0..(Hour + 1)]
  BY SessionAssumption DEF SessInv, SessTypeOK
<1>2. Fault => faultsLeft' \in 0..MaxSessionFaults
  BY <1>1, SessionAssumption DEF Fault
<1>3. \A t : StartWith(t) => held' = t /\ sessPc' \in {"running", "failed"}
  BY DEF StartWith, _load_orginfo
<1>4. \A t : StartFails(t) => held' = t /\ sessPc' \in {"running", "failed"}
  BY DEF StartFails
<1>5. CASE refresh_by_cli
  <2>1. way' = way /\ appThere' = appThere
    BY <1>5 DEF refresh_by_cli
  <2>2. \A a \in 0..Lifetime : Display(a) => held' = Token(a) /\ sessPc' \in {"running", "failed"}
                                            /\ cliAge' = a /\ faultsLeft' = faultsLeft
    BY <1>3 DEF Display
  <2>3. CliFails => held' = NoToken /\ sessPc' \in {"running", "failed"} /\ cliAge' = cliAge /\ faultsLeft' \in 0..MaxSessionFaults
    BY <1>2, <1>4 DEF CliFails
  <2>4. \/ held' = held /\ sessPc' \in {"running", "failed"} /\ UNCHANGED <<cliAge, faultsLeft>>
        \/ Display(0) \/ Display(cliAge) \/ CliFails
    BY <1>3, <1>5 DEF refresh_by_cli, force_refresh_oauth_token
  <2> QED BY <1>1, <2>1, <2>2, <2>3, <2>4, TokensAre
<1>6. CASE refresh_by_app
  <2>1. way' = way /\ appThere' = appThere /\ cliAge' = cliAge
    BY <1>6 DEF refresh_by_app
  <2>2. \/ StartWith(Token(0)) /\ faultsLeft' = faultsLeft
        \/ StartFails(held) /\ faultsLeft' \in 0..MaxSessionFaults
    BY <1>1, <1>2, <1>6 DEF refresh_by_app
  <2> QED BY <1>1, <1>3, <1>4, <2>1, <2>2, TokensAre
<1> QED BY <1>5, <1>6

LEMMA StartKeeps == SessInv /\ (StartTask \/ SessionInvalid) => SessInv'
<1> SUFFICES ASSUME SessInv, StartTask \/ SessionInvalid PROVE SessInv'
  OBVIOUS
<1>1. UNCHANGED <<orgHas, kept, unseen>> /\ answered' = NothingAsked
  BY DEF StartTask, SessionInvalid
<1>2. AnswersAreTrue' /\ KeptInv'
  BY <1>1, NotAsked DEF SessInv, KeptInv
<1>3. answered'.said = "-"
  BY <1>1 DEF NothingAsked
<1>4. \/ refresh_by_key \/ refresh_by_cli \/ refresh_by_app
      \/ StartFails(held) /\ UNCHANGED <<way, cliAge, appThere, faultsLeft>>
  BY DEF StartTask, SessionInvalid
<1>5. CASE refresh_by_key
  BY <1>1, <1>2, <1>3, <1>5, ByKey DEF SessInv, SessTypeOK
<1>6. CASE \/ refresh_by_cli \/ refresh_by_app
           \/ StartFails(held) /\ UNCHANGED <<way, cliAge, appThere, faultsLeft>>
  <2>1. /\ way' = way /\ held' \in [there : BOOLEAN, age : 0..Lifetime, since : 0..(Hour + 1)]
        /\ sessPc' \in {"running", "failed"}
        /\ cliAge' \in 0..Lifetime /\ appThere' \in BOOLEAN /\ faultsLeft' \in 0..MaxSessionFaults
    BY <1>6, ByOthers DEF StartFails, SessInv, SessTypeOK
  <2>2. LoginInv' /\ (way'.kind # "jwt" => ~way'.refused)
    BY <2>1 DEF SessInv, LoginInv, RefusedIfUntold
  <2> QED BY <1>1, <1>2, <1>3, <2>1, <2>2 DEF SessInv, SessTypeOK
<1> QED BY <1>4, <1>5, <1>6

\* Steps that neither log in nor ask nor change the org.
LEMMA WayStays ==
  ASSUME SessInv, way' = way
  PROVE  way' \in Login \cup {Connected("oauth"), Connected("cli")} /\ LoginInv' /\ (way'.kind # "jwt" => ~way'.refused)
BY DEF SessInv, SessTypeOK, LoginInv, RefusedIfUntold

LEMMA TimeKeeps == SessInv /\ (EndTask \/ HalfHour \/ Others) => SessInv'
<1> SUFFICES ASSUME SessInv, EndTask \/ HalfHour \/ Others PROVE SessInv'
  OBVIOUS
<1>1. UNCHANGED <<way, orgHas, kept, unseen>> /\ answered' = NothingAsked
  BY DEF EndTask, HalfHour, Others
<1>2. AnswersAreTrue' /\ KeptInv'
  BY <1>1, NotAsked DEF SessInv, KeptInv
<1>3. answered'.said = "-"
  BY <1>1 DEF NothingAsked
<1>4. sessPc' \in {"between", "running", "failed"}
  BY DEF EndTask, HalfHour, Others, SessInv, SessTypeOK
<1>5. /\ \A a \in 0..Lifetime : Older(a, Lifetime) \in 0..Lifetime
      /\ \A a \in 0..(Hour + 1) : Older(a, Hour + 1) \in 0..(Hour + 1)
      /\ 0 \in 0..Lifetime /\ Lifetime \in 0..Lifetime
  BY SessionAssumption DEF Older, Hour
<1>6. Fault => faultsLeft' \in 0..MaxSessionFaults
  BY SessionAssumption DEF Fault, SessInv, SessTypeOK
<1>7. held \in [there : BOOLEAN, age : 0..Lifetime, since : 0..(Hour + 1)] /\ cliAge \in 0..Lifetime
  BY DEF SessInv, SessTypeOK
<1>8. held' \in [there : BOOLEAN, age : 0..Lifetime, since : 0..(Hour + 1)]
  BY <1>5, <1>7 DEF EndTask, HalfHour, Others
<1>9. cliAge' \in 0..Lifetime /\ appThere' \in BOOLEAN /\ faultsLeft' \in 0..MaxSessionFaults
  BY <1>5, <1>6, <1>7 DEF EndTask, HalfHour, Others, SessInv, SessTypeOK
<1> QED BY <1>1, <1>2, <1>3, <1>4, <1>8, <1>9, WayStays DEF SessInv, SessTypeOK

-----------------------------------------------------------------------------
\* Two packages at most share the namespace.
LEMMA FoundPackages ==
  ASSUME NEW S, S \subseteq SessPackage
  PROVE  Cardinality(S) > 1 => S = SessPackage
<1>1. CASE S = {}
  BY <1>1, FS_EmptySet
<1>2. CASE \E x : S = {x}
  BY <1>2, FS_Singleton
<1>3. CASE "p" \in S /\ "q" \in S
  BY <1>3 DEF SessPackage
<1>4. S = {} \/ (\E x : S = {x}) \/ ("p" \in S /\ "q" \in S)
  <2>1. CASE "p" \in S /\ "q" \notin S
    <3>1. S = {"p"}
      BY <2>1 DEF SessPackage
    <3> QED BY <3>1
  <2>2. CASE "p" \notin S /\ "q" \in S
    <3>1. S = {"q"}
      BY <2>2 DEF SessPackage
    <3> QED BY <3>1
  <2>3. CASE "p" \notin S /\ "q" \notin S
    <3>1. S = {}
      BY <2>3 DEF SessPackage
    <3> QED BY <3>1
  <2> QED BY <2>1, <2>2, <2>3
<1> QED BY <1>1, <1>2, <1>3, <1>4

\* What every question leaves alone.
LEMMA AnswerKeeps ==
  ASSUME SessInv, NEW of, NEW about, NEW number, NEW said, Answer(of, about, number, said),
         said \in {"-", "yes", "no", "error"} \cup SessPackage,
         faultsLeft' \in 0..MaxSessionFaults, unseen' \in BOOLEAN,
         kept' \in [currencies : BOOLEAN, person : {"unread", "yes", "no"}, communities : BOOLEAN,
                    read : BOOLEAN, packages : [SessPackage -> SessVersion]],
         KeptInv', AnswersAreTrue'
  PROVE  SessInv'
<1>1. UNCHANGED <<way, sessPc, held, cliAge, appThere, orgHas>> /\ answered'.said = said
  BY DEF Answer
<1>2. SessTypeOK'
  BY <1>1 DEF SessInv, SessTypeOK
<1> QED BY <1>1, <1>2, WayStays DEF SessInv

LEMMA SaidIs == \A b \in BOOLEAN : (Said(b) = "yes" <=> b) /\ (Said(b) = "no" <=> ~b) /\ Said(b) \in {"yes", "no"}
BY DEF Said

LEMMA FeatureAnswersKeep == SessInv /\ (AskCurrencies \/ AskAdvanced \/ AskPerson \/ get_community_info) => SessInv'
<1> SUFFICES ASSUME SessInv, AskCurrencies \/ AskAdvanced \/ AskPerson \/ get_community_info PROVE SessInv'
  OBVIOUS
<1>1. /\ faultsLeft' = faultsLeft /\ unseen' = unseen /\ faultsLeft' \in 0..MaxSessionFaults /\ unseen' \in BOOLEAN
      /\ UNCHANGED <<way, sessPc, held, cliAge, appThere, orgHas>>
  BY DEF AskCurrencies, AskAdvanced, AskPerson, get_community_info, Answer, SessInv, SessTypeOK
<1>2. kept \in [currencies : BOOLEAN, person : {"unread", "yes", "no"}, communities : BOOLEAN,
                read : BOOLEAN, packages : [SessPackage -> SessVersion]]
  BY DEF SessInv, SessTypeOK
<1>3. CASE AskCurrencies
  <2> DEFINE now == kept.currencies \/ "currencies" \in orgHas.features
  <2>1. Answer("currencies", "-", 0, Said(now)) /\ kept' = [kept EXCEPT !.currencies = now]
    BY <1>3 DEF AskCurrencies, OncePositive
  <2>2. now <=> "currencies" \in orgHas.features
    BY DEF SessInv, KeptInv
  <2>3. KeptInv'
    BY <1>1, <1>2, <2>1, <2>2 DEF SessInv, KeptInv
  <2>4. answered'.of = "currencies" /\ answered'.said = Said("currencies" \in orgHas.features)
    BY <2>1, <2>2 DEF Answer, Said
  <2>5. AnswersAreTrue'
    BY <1>1, <2>4 DEF AnswersAreTrue
  <2>6. Said(now) \in {"yes", "no"} /\ now \in BOOLEAN
    BY DEF Said
  <2>7. kept' \in [currencies : BOOLEAN, person : {"unread", "yes", "no"}, communities : BOOLEAN,
                   read : BOOLEAN, packages : [SessPackage -> SessVersion]]
    BY <1>2, <2>1, <2>6
  <2> QED BY <1>1, <2>1, <2>3, <2>5, <2>6, <2>7, AnswerKeeps
<1>4. CASE AskAdvanced
  <2>1. Answer("advanced", "-", 0, Said("advanced" \in orgHas.features)) /\ kept' = kept
    BY <1>4 DEF AskAdvanced
  <2>2. KeptInv'
    BY <1>1, <2>1 DEF SessInv, KeptInv
  <2>3. answered'.of = "advanced" /\ answered'.said = Said("advanced" \in orgHas.features)
    BY <2>1 DEF Answer
  <2>4. AnswersAreTrue'
    BY <1>1, <2>3 DEF AnswersAreTrue
  <2>5. Said("advanced" \in orgHas.features) \in {"yes", "no"}
    BY DEF Said
  <2> QED BY <1>1, <1>2, <2>1, <2>2, <2>4, <2>5, AnswerKeeps
<1>5. CASE AskPerson
  <2> DEFINE now == IF kept.person # "unread" THEN kept.person ELSE Said("person" \in orgHas.features)
  <2>1. Answer("person", "-", 0, now) /\ kept' = [kept EXCEPT !.person = now]
    BY <1>5 DEF AskPerson
  <2>2. now \in {"yes", "no"} /\ (now = "yes" => "person" \in orgHas.features)
    BY <1>2 DEF SessInv, KeptInv, Said
  <2>3. KeptInv' /\ kept' \in [currencies : BOOLEAN, person : {"unread", "yes", "no"}, communities : BOOLEAN,
                               read : BOOLEAN, packages : [SessPackage -> SessVersion]]
    BY <1>1, <1>2, <2>1, <2>2 DEF SessInv, KeptInv
  <2>4. answered'.of = "person" /\ answered'.said = now
    BY <2>1 DEF Answer
  <2>5. AnswersAreTrue'
    BY <1>1, <2>2, <2>4 DEF AnswersAreTrue
  <2> QED BY <1>1, <2>1, <2>2, <2>3, <2>5, AnswerKeeps
<1>6. CASE get_community_info
  <2> DEFINE now == kept.communities \/ "community" \in orgHas.features
  <2>1. Answer("community", "-", 0, IF now THEN "yes" ELSE "error") /\ kept' = [kept EXCEPT !.communities = now]
    BY <1>6 DEF get_community_info, OncePositive
  <2>2. (now <=> "community" \in orgHas.features) /\ now \in BOOLEAN
    BY DEF SessInv, KeptInv
  <2>3. KeptInv'
    BY <1>1, <1>2, <2>1, <2>2 DEF SessInv, KeptInv
  <2>4. answered'.of = "community" /\ answered'.said = IF "community" \in orgHas.features THEN "yes" ELSE "error"
    BY <2>1, <2>2 DEF Answer
  <2>5. AnswersAreTrue'
    BY <1>1, <2>4 DEF AnswersAreTrue
  <2>7. kept' \in [currencies : BOOLEAN, person : {"unread", "yes", "no"}, communities : BOOLEAN,
                   read : BOOLEAN, packages : [SessPackage -> SessVersion]]
    BY <1>2, <2>1, <2>2
  <2>8. (IF now THEN "yes" ELSE "error") \in {"yes", "error"}
    OBVIOUS
  <2> QED BY <1>1, <2>1, <2>3, <2>5, <2>7, <2>8, AnswerKeeps
<1> QED BY <1>3, <1>4, <1>5, <1>6

LEMMA ReadKeeps ==
  ASSUME SessInv, InstalledPackages, orgHas' = orgHas
  PROVE  /\ faultsLeft' \in 0..MaxSessionFaults /\ unseen' \in BOOLEAN /\ KeptInv'
         /\ kept' \in [currencies : BOOLEAN, person : {"unread", "yes", "no"}, communities : BOOLEAN,
                       read : BOOLEAN, packages : [SessPackage -> SessVersion]]
         /\ ~unseen' => kept'.packages = orgHas'.packages
<1>1. kept \in [currencies : BOOLEAN, person : {"unread", "yes", "no"}, communities : BOOLEAN,
                read : BOOLEAN, packages : [SessPackage -> SessVersion]]
      /\ faultsLeft \in 0..MaxSessionFaults /\ unseen \in BOOLEAN
      /\ orgHas.packages \in [SessPackage -> SessVersion]
  BY DEF SessInv, SessTypeOK
<1>2. CASE kept.read /\ UNCHANGED <<kept, faultsLeft, unseen>>
  BY <1>1, <1>2 DEF SessInv, KeptInv
<1>3. CASE /\ kept' = [kept EXCEPT !.read = TRUE, !.packages = orgHas.packages]
           /\ UNCHANGED faultsLeft /\ unseen' = FALSE
  BY <1>1, <1>3 DEF SessInv, KeptInv
<1>4. ASSUME NEW p \in SessPackage, Fault, unseen' = TRUE,
             kept' = [kept EXCEPT !.read = TRUE, !.packages = [orgHas.packages EXCEPT ![p] = 0]]
      PROVE  /\ faultsLeft' \in 0..MaxSessionFaults /\ unseen' \in BOOLEAN /\ KeptInv' /\ unseen'
             /\ kept' \in [currencies : BOOLEAN, person : {"unread", "yes", "no"}, communities : BOOLEAN,
                           read : BOOLEAN, packages : [SessPackage -> SessVersion]]
  <2>1. faultsLeft' \in 0..MaxSessionFaults
    BY <1>1, <1>4, SessionAssumption DEF Fault
  <2>2. [orgHas.packages EXCEPT ![p] = 0] \in [SessPackage -> SessVersion]
    BY <1>1 DEF SessVersion
  <2>3. kept' \in [currencies : BOOLEAN, person : {"unread", "yes", "no"}, communities : BOOLEAN,
                   read : BOOLEAN, packages : [SessPackage -> SessVersion]]
    BY <1>1, <1>4, <2>2
  <2>4. KeptInv'
    BY <1>1, <1>4 DEF SessInv, KeptInv
  <2> QED BY <1>4, <2>1, <2>3, <2>4
<1> QED BY <1>2, <1>3, <1>4 DEF InstalledPackages

\* The answer about a least version, when nothing was left out or changed.
LEMMA MinimumIsTrue ==
  ASSUME NEW vs \in [SessPackage -> SessVersion], NEW ps \in SUBSET SessPackage, NEW n \in SessVersion
  PROVE  LET asked == Installed(vs) \cap ps
             said == has_minimum_package_version(vs, ps, n) IN
         /\ said \in {"error", "yes", "no"}
         /\ said = "error" => asked = SessPackage
         /\ said = "yes" => \E p \in asked : vs[p] >= n
         /\ said = "no" => \A p \in asked : vs[p] < n
<1> DEFINE asked == Installed(vs) \cap ps
<1>1. asked \subseteq SessPackage
  OBVIOUS
<1>2. Cardinality(asked) > 1 => asked = SessPackage
  BY <1>1, FoundPackages
<1>3. \A p \in asked : vs[p] \in Int
  BY <1>1 DEF SessVersion
<1> QED BY <1>1, <1>2, <1>3 DEF has_minimum_package_version, Said, SessVersion

LEMMA PackageAnswersKeep == SessInv /\ (AskMinimum \/ resolve_04t_dependencies) => SessInv'
<1>1. ASSUME SessInv, AskMinimum PROVE SessInv'
  <2>1. PICK about \in SessPackage \cup {"namespace"}, n \in SessVersion \ {0} :
          /\ InstalledPackages
          /\ Answer("minimum", about, n, has_minimum_package_version(
               kept'.packages, IF about = "namespace" THEN SessPackage ELSE {about}, n))
    BY <1>1 DEF AskMinimum
  <2> DEFINE ps == IF about = "namespace" THEN SessPackage ELSE {about}
             said == has_minimum_package_version(kept'.packages, ps, n)
  <2>2. Answer("minimum", about, n, said)
    BY <2>1
  <2>3. orgHas' = orgHas
    BY <2>2 DEF Answer
  <2>4. /\ faultsLeft' \in 0..MaxSessionFaults /\ unseen' \in BOOLEAN /\ KeptInv'
        /\ kept' \in [currencies : BOOLEAN, person : {"unread", "yes", "no"}, communities : BOOLEAN,
                      read : BOOLEAN, packages : [SessPackage -> SessVersion]]
        /\ ~unseen' => kept'.packages = orgHas'.packages
    BY <1>1, <2>1, <2>3, ReadKeeps
  <2>5. kept'.packages \in [SessPackage -> SessVersion] /\ ps \in SUBSET SessPackage /\ n \in SessVersion
    BY <2>4 DEF SessPackage
  <2>6. /\ said \in {"error", "yes", "no"}
        /\ said = "error" => Installed(kept'.packages) \cap ps = SessPackage
        /\ said = "yes" => \E p \in Installed(kept'.packages) \cap ps : kept'.packages[p] >= n
        /\ said = "no" => \A p \in Installed(kept'.packages) \cap ps : kept'.packages[p] < n
    <3> HIDE DEF ps
    <3> QED BY <2>5, MinimumIsTrue
  <2>7. answered' = [of |-> "minimum", about |-> about, number |-> n, said |-> said]
    BY <2>2 DEF Answer
  <2>8. ~unseen' =>
          LET asked == Installed(orgHas'.packages) \cap (IF answered'.about = "namespace" THEN SessPackage ELSE {answered'.about}) IN
          CASE answered'.said = "error" -> asked = SessPackage
            [] answered'.said = "yes" -> \E p \in asked : orgHas'.packages[p] >= answered'.number
            [] OTHER -> \A p \in asked : orgHas'.packages[p] < answered'.number
    <3>1. answered'.about = about /\ answered'.number = n /\ answered'.said = said
      BY <2>7
    <3> HIDE DEF said
    <3> QED BY <2>4, <2>6, <3>1
  <2>9. AnswersAreTrue'
    <3>1. answered'.of = "minimum"
      BY <2>7
    <3> QED BY <2>8, <3>1 DEF AnswersAreTrue
  <2> HIDE DEF said
  <2> QED BY <1>1, <2>2, <2>4, <2>6, <2>9, AnswerKeeps
<1>2. ASSUME SessInv, resolve_04t_dependencies PROVE SessInv'
  <2>1. PICK n \in SessVersion \ {0} :
          /\ InstalledPackages
          /\ LET found == {p \in SessPackage : kept'.packages[p] = n} IN
             IF found = {} THEN Answer("04t", "-", n, "error")
             ELSE \E p \in found : Answer("04t", "-", n, p)
    BY <1>2 DEF resolve_04t_dependencies
  <2>2. PICK said \in {"error"} \cup SessPackage :
          /\ Answer("04t", "-", n, said)
          /\ said = "error" => \A p \in SessPackage : kept'.packages[p] # n
          /\ said # "error" => kept'.packages[said] = n
    BY <2>1 DEF SessPackage
  <2>3. orgHas' = orgHas
    BY <2>2 DEF Answer
  <2>4. /\ faultsLeft' \in 0..MaxSessionFaults /\ unseen' \in BOOLEAN /\ KeptInv'
        /\ kept' \in [currencies : BOOLEAN, person : {"unread", "yes", "no"}, communities : BOOLEAN,
                      read : BOOLEAN, packages : [SessPackage -> SessVersion]]
        /\ ~unseen' => kept'.packages = orgHas'.packages
    BY <1>2, <2>1, <2>3, ReadKeeps
  <2>5. answered'.of = "04t" /\ answered'.number = n /\ answered'.said = said
    BY <2>2 DEF Answer
  <2>6. ~unseen' => IF answered'.said = "error"
                    THEN \A p \in Installed(orgHas'.packages) : orgHas'.packages[p] # answered'.number
                    ELSE orgHas'.packages[answered'.said] = answered'.number
    BY <2>2, <2>4, <2>5 DEF Installed
  <2>7. AnswersAreTrue'
    BY <2>5, <2>6 DEF AnswersAreTrue
  <2> QED BY <1>2, <2>2, <2>4, <2>7, AnswerKeeps
<1> QED BY <1>1, <1>2

\* The org changes: an installation that is not awaited makes what was read doubtful, and a
\* feature that cannot be disabled stays.
LEMMA ChangesKeep == SessInv /\ (InstallTask \/ FeatureChanges) => SessInv'
<1> SUFFICES ASSUME SessInv, InstallTask \/ FeatureChanges PROVE SessInv'
  OBVIOUS
<1>1. /\ UNCHANGED <<way, sessPc, held, cliAge, appThere, faultsLeft>> /\ answered' = NothingAsked
  BY DEF InstallTask, FeatureChanges, Change
<1>2. kept \in [currencies : BOOLEAN, person : {"unread", "yes", "no"}, communities : BOOLEAN,
                read : BOOLEAN, packages : [SessPackage -> SessVersion]]
      /\ unseen \in BOOLEAN /\ orgHas.features \in SUBSET Feature /\ orgHas.changes \in 0..MaxOrgChanges
      /\ orgHas.packages \in [SessPackage -> SessVersion]
  BY DEF SessInv, SessTypeOK
<1>3. \A features \in SUBSET Feature, packages \in [SessPackage -> SessVersion] :
        Change(features, packages) =>
          /\ orgHas' \in [features : SUBSET Feature, packages : [SessPackage -> SessVersion], changes : 0..MaxOrgChanges]
          /\ orgHas'.features = features /\ orgHas'.packages = packages
  <2>1. orgHas.changes > 0 => orgHas.changes - 1 \in 0..MaxOrgChanges
    BY <1>2, SessionAssumption
  <2> QED BY <2>1 DEF Change
<1>4. /\ orgHas' \in [features : SUBSET Feature, packages : [SessPackage -> SessVersion], changes : 0..MaxOrgChanges]
      /\ KeptInv' /\ unseen' \in BOOLEAN
      /\ kept' \in [currencies : BOOLEAN, person : {"unread", "yes", "no"}, communities : BOOLEAN,
                    read : BOOLEAN, packages : [SessPackage -> SessVersion]]
  <2>1. CASE InstallTask
    <3>1. PICK vs \in Upgraded : Change(orgHas.features, vs)
      BY <2>1 DEF InstallTask
    <3>2. vs \in [SessPackage -> SessVersion]
      BY <3>1 DEF Upgraded
    <3>3. /\ orgHas' \in [features : SUBSET Feature, packages : [SessPackage -> SessVersion], changes : 0..MaxOrgChanges]
          /\ orgHas'.features = orgHas.features
      BY <1>2, <1>3, <3>1, <3>2
    <3>4. CASE kept' = reset_installed_packages(kept) /\ unseen' = FALSE
      <4>1. [p \in SessPackage |-> 0] \in [SessPackage -> SessVersion]
        BY DEF SessVersion
      <4>2. kept' = [kept EXCEPT !.read = FALSE, !.packages = [p \in SessPackage |-> 0]]
        BY <3>4 DEF reset_installed_packages
      <4>3. KeptInv'
        BY <1>2, <3>3, <4>2 DEF SessInv, KeptInv
      <4> QED BY <1>2, <3>3, <3>4, <4>1, <4>2, <4>3
    <3>5. CASE UNCHANGED kept /\ unseen' = (unseen \/ kept.read)
      <4>1. unseen' \in BOOLEAN
        BY <1>2, <3>5, Zenon
      <4>2. KeptInv'
        BY <3>3, <3>5 DEF SessInv, KeptInv
      <4> QED BY <1>2, <3>3, <3>5, <4>1, <4>2
    <3> QED BY <2>1, <3>4, <3>5 DEF InstallTask
  <2>2. CASE FeatureChanges
    <3>1. PICK f \in Feature :
            Change(IF f \notin orgHas.features THEN orgHas.features \cup {f} ELSE orgHas.features \ {f},
                   orgHas.packages)
      BY <2>2 DEF FeatureChanges
    <3> DEFINE now == IF f \notin orgHas.features THEN orgHas.features \cup {f} ELSE orgHas.features \ {f}
    <3>2. now \in SUBSET Feature
      BY <1>2
    <3>3. /\ orgHas' \in [features : SUBSET Feature, packages : [SessPackage -> SessVersion], changes : 0..MaxOrgChanges]
          /\ orgHas'.packages = orgHas.packages
      BY <1>2, <1>3, <3>1, <3>2
    <3>4. orgHas.features \ orgHas'.features \subseteq {"advanced"} /\ UNCHANGED <<kept, unseen>>
      BY <2>2 DEF FeatureChanges, MayDisable
    <3>5. KeptInv'
      BY <3>3, <3>4 DEF SessInv, KeptInv
    <3> QED BY <1>2, <3>3, <3>4, <3>5
  <2> QED BY <2>1, <2>2
<1>5. answered'.said = "-" /\ AnswersAreTrue'
  BY <1>1, NotAsked DEF NothingAsked
<1> QED BY <1>1, <1>4, <1>5, WayStays DEF SessInv, SessTypeOK

LEMMA SessInvNext == SessInv /\ [SessNext]_sessVars => SessInv'
<1> SUFFICES ASSUME SessInv, [SessNext]_sessVars PROVE SessInv'
  OBVIOUS
<1>1. CASE UNCHANGED sessVars
  BY <1>1 DEF SessInv, SessTypeOK, KeptInv, LoginInv, RefusedIfUntold, AnswersAreTrue, sessVars
<1>2. CASE SessNext
  BY <1>2, StartKeeps, TimeKeeps, FeatureAnswersKeep, PackageAnswersKeep, ChangesKeep DEF SessNext
<1> QED BY <1>1, <1>2

\* What is kept of an org's answers stays true of it, and a key is refused only where its
\* login page cannot be told: core/config/org_config.py and oauth_client.py.
THEOREM SessionIsSound == SessSpec => [](SessTypeOK /\ RefusedIfUntold /\ AnswersAreTrue)
<1>1. SessInv => SessTypeOK /\ RefusedIfUntold /\ AnswersAreTrue
  BY DEF SessInv, LoginInv, SessTypeOK, RefusedIfUntold, Connected, Login
<1> QED BY <1>1, SessInvInit, SessInvNext, PTL DEF SessSpec

\* A task that starts has a token that works: the Organization record is read with it.
THEOREM StartsWithAToken == SessSpec => StartedTokenWorks
<1>1. [SessNext]_sessVars => (sessPc # "running" /\ sessPc' = "running" => Works(held'))
  <2> SUFFICES ASSUME SessNext, sessPc # "running", sessPc' = "running" PROVE Works(held')
    BY DEF sessVars
  <2>1. \A t : (StartWith(t) => Works(held')) /\ ~StartFails(t)
    BY DEF StartWith, StartFails, _load_orginfo
  <2>2. refresh_by_cli \/ refresh_by_app \/ refresh_by_key
    BY DEF SessNext, StartTask, SessionInvalid, EndTask, AskCurrencies, AskAdvanced, AskPerson, get_community_info,
      AskMinimum, resolve_04t_dependencies, Answer, InstallTask, FeatureChanges, Change, HalfHour, Others
  <2> QED BY <2>1, <2>2 DEF refresh_by_cli, refresh_by_app, refresh_by_key, Display, CliFails
<1> QED BY <1>1, PTL DEF SessSpec, StartedTokenWorks

-----------------------------------------------------------------------------
(* The services of the keychain: ServiceKeychain.                           *)

\* What a list of writes holds.

StepsOf(list) == {list[i] : i \in 1..Len(list)}

LEMMA StepsOfNone == \A list : Len(list) = 0 => StepsOf(list) = {}
BY DEF StepsOf

LEMMA StepsOfTail ==
  ASSUME NEW S, NEW list \in Seq(S), Len(list) # 0
  PROVE  /\ StepsOf(list) = {Head(list)} \cup StepsOf(Tail(list)) /\ Tail(list) \in Seq(S)
         /\ Head(list) \in S
<1>1. Len(list) \in Nat /\ Len(list) >= 1 /\ list # <<>>
  BY LenProperties
<1>2. /\ Head(list) = list[1] /\ Tail(list) \in Seq(S) /\ Len(Tail(list)) = Len(list) - 1
      /\ \A i \in 1..Len(Tail(list)) : Tail(list)[i] = list[i + 1]
  BY <1>1, HeadTailProperties
<1>3. \A x \in StepsOf(list) : x \in {Head(list)} \cup StepsOf(Tail(list))
  <2> SUFFICES ASSUME NEW i \in 1..Len(list), i # 1 PROVE list[i] \in StepsOf(Tail(list))
    BY <1>2 DEF StepsOf
  <2>1. i - 1 \in 1..Len(Tail(list)) /\ Tail(list)[i - 1] = list[i]
    BY <1>1, <1>2
  <2> QED BY <2>1 DEF StepsOf
<1>4. \A x \in {Head(list)} \cup StepsOf(Tail(list)) : x \in StepsOf(list)
  <2>1. Head(list) \in StepsOf(list)
    BY <1>1, <1>2 DEF StepsOf
  <2>2. ASSUME NEW i \in 1..Len(Tail(list)) PROVE Tail(list)[i] \in StepsOf(list)
    <3>1. i + 1 \in 1..Len(list)
      BY <1>1, <1>2
    <3> QED BY <3>1, <1>2 DEF StepsOf
  <2> QED BY <2>1, <2>2 DEF StepsOf
<1>5. Head(list) \in S
  BY <1>1, <1>2
<1> QED BY <1>2, <1>3, <1>4, <1>5

LEMMA StepsOfConcat ==
  ASSUME NEW S, NEW s \in Seq(S), NEW t \in Seq(S)
  PROVE  StepsOf(s \o t) = StepsOf(s) \cup StepsOf(t) /\ s \o t \in Seq(S) /\ Len(s \o t) = Len(s) + Len(t)
<1>1. /\ s \o t \in Seq(S) /\ Len(s \o t) = Len(s) + Len(t) /\ Len(s) \in Nat /\ Len(t) \in Nat
      /\ \A i \in 1..Len(s) + Len(t) : (s \o t)[i] = IF i <= Len(s) THEN s[i] ELSE t[i - Len(s)]
  BY ConcatProperties, LenProperties
<1>2. \A x \in StepsOf(s \o t) : x \in StepsOf(s) \cup StepsOf(t)
  <2> SUFFICES ASSUME NEW i \in 1..Len(s) + Len(t) PROVE (s \o t)[i] \in StepsOf(s) \cup StepsOf(t)
    BY <1>1 DEF StepsOf
  <2>1. CASE i <= Len(s)
    BY <2>1, <1>1 DEF StepsOf
  <2>2. CASE ~(i <= Len(s))
    <3>1. i - Len(s) \in 1..Len(t) /\ (s \o t)[i] = t[i - Len(s)]
      BY <2>2, <1>1
    <3> QED BY <3>1 DEF StepsOf
  <2> QED BY <2>1, <2>2
<1>3. \A i \in 1..Len(s) : s[i] \in StepsOf(s \o t)
  <2> SUFFICES ASSUME NEW i \in 1..Len(s) PROVE s[i] \in StepsOf(s \o t)
    OBVIOUS
  <2>1. i \in 1..Len(s \o t) /\ (s \o t)[i] = s[i]
    BY <1>1
  <2> QED BY <2>1 DEF StepsOf
<1>4. \A i \in 1..Len(t) : t[i] \in StepsOf(s \o t)
  <2> SUFFICES ASSUME NEW i \in 1..Len(t) PROVE t[i] \in StepsOf(s \o t)
    OBVIOUS
  <2>1. Len(s) + i \in 1..Len(s \o t) /\ (s \o t)[Len(s) + i] = t[i]
    BY <1>1
  <2> QED BY <2>1 DEF StepsOf
<1> QED BY <1>1, <1>2, <1>3, <1>4 DEF StepsOf

LEMMA StepsOfOne ==
  ASSUME NEW S, NEW x \in S
  PROVE  StepsOf(<<x>>) = {x} /\ <<x>> \in Seq(S) /\ Len(<<x>>) = 1
BY DEF StepsOf

LEMMA NoSteps ==
  ASSUME NEW S
  PROVE  StepsOf(<<>>) = {} /\ <<>> \in Seq(S) /\ Len(<<>>) = 0
BY EmptySeq DEF StepsOf

\* A step for every directory: those of the listing, which names each.
LEMMA SetToSeqLists ==
  ASSUME NEW S, IsFiniteSet(S)
  PROVE  SetToSeq(S) \in Seq(S) /\ \A x \in S : \E i \in 1..Len(SetToSeq(S)) : SetToSeq(S)[i] = x
<1> DEFINE n == Cardinality(S)
           f == SetToSeq(S)
<1>1. n \in Nat /\ ExistsBijection(1..n, S)
  BY FS_CardinalityType
<1>2. PICK g : g \in Bijection(1..n, S)
  BY <1>1 DEF ExistsBijection
<1>3. g \in [1..n -> S] /\ IsInjective(g)
  BY <1>2 DEF Bijection, Injection, IsInjective
<1>4. f \in [1..n -> S] /\ IsInjective(f)
  BY <1>3 DEF SetToSeq
<1> HIDE DEF f
<1>5. f \in Injection(1..n, S)
  BY <1>4 DEF Injection, IsInjective
<1>6. Cardinality(1..n) = n
  BY <1>1, FS_Interval
<1>7. f \in Surjection(1..n, S)
  BY <1>5, <1>6, FS_Injection
<1>8. f \in Seq(S) /\ Len(f) = n
  BY <1>1, <1>4
<1>9. \A x \in S : \E i \in 1..n : f[i] = x
  BY <1>7 DEF Surjection
<1> QED BY <1>8, <1>9 DEF f

LEMMA DirsList == /\ Dirs \in Seq(Dir) /\ Len(Dirs) \in Nat /\ DOMAIN Dirs = 1..Len(Dirs)
                  /\ StepsOf(Dirs) = Dir
<1>1. IsFiniteSet(Project)
  <2>1. Project \in SUBSET Alias /\ IsFiniteSet(Alias)
    BY KeychainAssumption DEF Alias, Dir
  <2> QED BY <2>1, FS_Subset
<1>2. SetToSeq(Project) \in Seq(Project) /\ \A x \in Project : \E i \in 1..Len(SetToSeq(Project)) : SetToSeq(Project)[i] = x
  BY <1>1, SetToSeqLists
<1>3. SetToSeq(Project) \in Seq(Dir)
  <2>1. Seq(Project) \subseteq Seq(Dir)
    BY SeqMonotonic DEF Dir
  <2> QED BY <1>2, <2>1
<1>4. StepsOf(SetToSeq(Project)) = Project
  BY <1>2, ElementOfSeq DEF StepsOf
<1> DEFINE g == "global"
           t == SetToSeq(Project)
<1>5. Dirs = <<g>> \o t /\ g \in Dir
  BY DEF Dirs, Dir
<1> HIDE DEF g, t
<1>8. <<g>> \in Seq(Dir) /\ StepsOf(<<g>>) = {g}
  BY <1>5, StepsOfOne
<1>9. <<g>> \o t \in Seq(Dir) /\ StepsOf(<<g>> \o t) = {g} \cup Project
  BY <1>3, <1>4, <1>8, StepsOfConcat DEF t
<1>6. Dirs \in Seq(Dir) /\ StepsOf(Dirs) = {g} \cup Project
  BY <1>5, <1>9
<1>7. Len(Dirs) \in Nat /\ DOMAIN Dirs = 1..Len(Dirs)
  BY <1>6, LenProperties
<1> QED BY <1>6, <1>7 DEF Dir, g

-----------------------------------------------------------------------------
(* What a command has left to do.                                            *)

DefaultSteps == [do : {"default"}, dir : Dir, alias : Alias \cup {"env", "none"}]
MkdirSteps == [do : {"mkdir"}]
MoveSteps == [do : {"move"}, dir : Dir, alias : Dir]
WriteSteps == [do : {"write"}, alias : Alias]
UnlinkSteps == [do : {"unlink"}, alias : Alias \cup {"env"}]
RenameSteps == [do : {"rename"}, alias : Alias \cup {"env"}, new : NewAlias]
ReferSteps == [do : {"refer"}, dir : Dir, alias : Alias \cup {"env"}, new : NewAlias \cup {"none"}]
Steps == DefaultSteps \cup MkdirSteps \cup MoveSteps \cup WriteSteps \cup UnlinkSteps \cup RenameSteps \cup ReferSteps

LEMMA StepShapes ==
  ASSUME NEW x \in Steps
  PROVE  /\ x.do \in {"default", "mkdir", "move", "write", "unlink", "rename", "refer"}
         /\ x.do = "default" => x.dir \in Dir /\ x.alias \in Alias \cup {"env", "none"}
         /\ x.do = "move" => x.dir \in Dir /\ x.alias \in Dir
         /\ x.do = "write" => x.alias \in Alias
         /\ x.do = "unlink" => x.alias \in Alias \cup {"env"}
         /\ x.do = "rename" => x.alias \in Alias \cup {"env"} /\ x.new \in NewAlias
         /\ x.do = "refer" => x.dir \in Dir /\ x.alias \in Alias \cup {"env"} /\ x.new \in NewAlias \cup {"none"}
<1>1. CASE x \in DefaultSteps BY <1>1 DEF DefaultSteps
<1>2. CASE x \in MkdirSteps BY <1>2 DEF MkdirSteps
<1>3. CASE x \in MoveSteps BY <1>3 DEF MoveSteps
<1>4. CASE x \in WriteSteps BY <1>4 DEF WriteSteps
<1>5. CASE x \in UnlinkSteps BY <1>5 DEF UnlinkSteps
<1>6. CASE x \in RenameSteps BY <1>6 DEF RenameSteps
<1>7. CASE x \in ReferSteps BY <1>7 DEF ReferSteps
<1> QED BY <1>1, <1>2, <1>3, <1>4, <1>5, <1>6, <1>7 DEF Steps

LEMMA Names == /\ Dir \subseteq Alias /\ NewAlias \subseteq Alias /\ Project \subseteq Dir /\ "global" \in Dir
               /\ "env" \notin Alias /\ "none" \notin Alias /\ "nofile" \notin Alias /\ "torn" \notin Alias
               /\ "global" \notin Project
BY KeychainAssumption DEF Alias, Dir

LEMMA Migrated == \A d \in Dir, p \in Project : /\ MigratedAlias(d, p) \in Dir
                                                /\ d \in {"global", p} => MigratedAlias(d, p) = d
BY Names DEF MigratedAlias

\* The names with a service, or one on its way; the files of defaults still to be gone over.
StoredIn(fs) == {a \in Alias : fs[a] # "none"}
Comes(a, S, ol) ==
  \E x \in S : \/ x.do = "write" /\ x.alias = a
               \/ x.do = "move" /\ x.dir \in ol /\ x.alias = a
               \/ x.do = "rename" /\ x.new = a
There(a, fs, S, ol) == a \in StoredIn(fs) \/ Comes(a, S, ol)
Referred(a, d, S) == \E r \in S : r.do = "refer" /\ r.dir = d /\ r.alias = a

\* Every default is of a service there, or on its way, or is to be replaced, or is one of
\* those in K, which a command that died left behind.
DefaultsWill(fs, df, S, ol, K) ==
  \A d \in Dir : /\ df[d] = "torn" => "torn" \in K
                 /\ df[d] \in {"env", "none", "nofile"} \cup K \/ There(df[d], fs, S, ol) \/ Referred(df[d], d, S)
StepsWill(fs, S, ol) ==
  \A x \in S : /\ x.do = "default" => x.alias \in {"env", "none"} \/ There(x.alias, fs, S, ol)
               /\ x.do = "refer" => x.new = "none" \/ There(x.new, fs, S, ol)
MovesFit(S, p) == \A x \in S : x.do = "move" => x.alias = MigratedAlias(x.dir, p)

\* A service goes before the rest is done, when all defaults are right, and every file of
\* defaults is then gone over.
Leaves(x) == x.do = "unlink" \/ x.do = "rename"
Goes(fs, df, S, K) ==
  \A x \in S : Leaves(x) =>
    /\ \A d \in Dir : df[d] \in StoredIn(fs) \cup {"env", "none", "nofile"} \cup K /\ Referred(x.alias, d, S)
    /\ \A y \in S : /\ y.do = "default" => y.alias # x.alias
                    /\ y.do = "refer" => y.new # x.alias
NewNamesFree(fs, S) == \A x \in S : x.do = "rename" => x.new \notin StoredIn(fs)
FirstOnly(list) == Len(list) # 0 => \A x \in StepsOf(Tail(list)) : ~Leaves(x)

LEMMA ComesStill ==
  ASSUME NEW x, NEW S, NEW T, S = {x} \cup T, NEW ol, NEW a, Comes(a, S, ol)
  PROVE  \/ Comes(a, T, ol)
         \/ x.do = "write" /\ x.alias = a
         \/ x.do = "move" /\ x.dir \in ol /\ x.alias = a
         \/ x.do = "rename" /\ x.new = a
BY DEF Comes

LEMMA ReferredStill ==
  ASSUME NEW x, NEW S, NEW T, S = {x} \cup T, NEW a, NEW d, Referred(a, d, S)
  PROVE  Referred(a, d, T) \/ (x.do = "refer" /\ x.dir = d /\ x.alias = a)
BY DEF Referred

\* Files come and go.
LEMMA FilesChange ==
  ASSUME NEW fs, NEW gs, NEW df, NEW x, NEW S, NEW T, S = {x} \cup T, x.do # "refer", NEW ol, NEW om, NEW K, NEW G,
         DefaultsWill(fs, df, S, ol, K), StepsWill(fs, S, ol),
         \A a : There(a, fs, S, ol) /\ a \notin G => There(a, gs, T, om),
         \A d \in Dir : df[d] \in G => Referred(df[d], d, S),
         \A y \in T : /\ y.do = "default" => y.alias \notin G
                      /\ y.do = "refer" => y.new \notin G
  PROVE  DefaultsWill(gs, df, T, om, K) /\ StepsWill(gs, T, om)
<1>1. ASSUME NEW d \in Dir
      PROVE  (df[d] = "torn" => "torn" \in K) /\ (df[d] \in {"env", "none", "nofile"} \cup K \/ There(df[d], gs, T, om) \/ Referred(df[d], d, T))
  <2>1. Referred(df[d], d, S) => Referred(df[d], d, T)
    BY ReferredStill
  <2> QED BY <2>1 DEF DefaultsWill
<1>2. ASSUME NEW y \in T
      PROVE  /\ y.do = "default" => y.alias \in {"env", "none"} \/ There(y.alias, gs, T, om)
             /\ y.do = "refer" => y.new = "none" \/ There(y.new, gs, T, om)
  BY DEF StepsWill
<1> QED BY <1>1, <1>2 DEF DefaultsWill, StepsWill

\* Nothing but files comes.
LEMMA FilesCome ==
  ASSUME NEW fs, NEW gs, NEW df, NEW x, NEW S, NEW T, S = {x} \cup T, x.do # "refer", NEW ol, NEW om, NEW K,
         DefaultsWill(fs, df, S, ol, K), StepsWill(fs, S, ol),
         \A a : There(a, fs, S, ol) => There(a, gs, T, om)
  PROVE  DefaultsWill(gs, df, T, om, K) /\ StepsWill(gs, T, om)
<1>1. ASSUME NEW d \in Dir
      PROVE  (df[d] = "torn" => "torn" \in K) /\ (df[d] \in {"env", "none", "nofile"} \cup K \/ There(df[d], gs, T, om) \/ Referred(df[d], d, T))
  <2>1. Referred(df[d], d, S) => Referred(df[d], d, T)
    BY ReferredStill
  <2> QED BY <2>1 DEF DefaultsWill
<1>2. ASSUME NEW y \in T
      PROVE  /\ y.do = "default" => y.alias \in {"env", "none"} \/ There(y.alias, gs, T, om)
             /\ y.do = "refer" => y.new = "none" \/ There(y.new, gs, T, om)
  BY DEF StepsWill
<1> QED BY <1>1, <1>2 DEF DefaultsWill, StepsWill

LEMMA DefaultComes ==
  ASSUME NEW fs, NEW df \in [Dir -> Alias \cup {"env", "none", "torn", "nofile"}], NEW x, NEW S, NEW T, S = {x} \cup T, NEW ol, NEW K,
         x.do = "default", x.dir \in Dir, x.alias # "torn",
         DefaultsWill(fs, df, S, ol, K), StepsWill(fs, S, ol)
  PROVE  DefaultsWill(fs, [df EXCEPT ![x.dir] = x.alias], T, ol, K) /\ StepsWill(fs, T, ol)
<1>1. \A a : There(a, fs, S, ol) => There(a, fs, T, ol)
  BY ComesStill DEF There
<1>2. DefaultsWill(fs, df, T, ol, K) /\ StepsWill(fs, T, ol)
  BY <1>1, FilesCome
<1>3. x.alias \in {"env", "none"} \/ There(x.alias, fs, T, ol)
  BY <1>1 DEF StepsWill
<1> DEFINE ef == [df EXCEPT ![x.dir] = x.alias]
<1>4. \A d \in Dir : ef[d] = IF d = x.dir THEN x.alias ELSE df[d]
  OBVIOUS
<1> HIDE DEF ef
<1>5. DefaultsWill(fs, ef, T, ol, K)
  <2> SUFFICES ASSUME NEW d \in Dir
               PROVE  (ef[d] = "torn" => "torn" \in K) /\ (ef[d] \in {"env", "none", "nofile"} \cup K \/ There(ef[d], fs, T, ol) \/ Referred(ef[d], d, T))
    BY DEF DefaultsWill
  <2>1. CASE d = x.dir
    BY <2>1, <1>3, <1>4
  <2>2. CASE d # x.dir
    BY <2>2, <1>2, <1>4 DEF DefaultsWill
  <2> QED BY <2>1, <2>2
<1> QED BY <1>2, <1>5 DEF ef

\* One file of defaults is gone over.
NewDefault(v, x) == CASE v = x.alias -> x.new [] v = "nofile" /\ x.new = "none" -> "none" [] OTHER -> v

LEMMA ReferGone ==
  ASSUME NEW fs, NEW df \in [Dir -> Alias \cup {"env", "none", "torn", "nofile"}], NEW x, NEW S, NEW T, S = {x} \cup T, NEW ol, NEW K,
         x.do = "refer", x.dir \in Dir, x.new # "torn",
         DefaultsWill(fs, df, S, ol, K), StepsWill(fs, S, ol)
  PROVE  DefaultsWill(fs, [df EXCEPT ![x.dir] = NewDefault(@, x)], T, ol, K) /\ StepsWill(fs, T, ol)
<1>1. \A a : There(a, fs, S, ol) => There(a, fs, T, ol)
  BY ComesStill DEF There
<1>2. StepsWill(fs, T, ol)
  BY <1>1 DEF StepsWill
<1>3. x.new = "none" \/ There(x.new, fs, T, ol)
  BY <1>1 DEF StepsWill
<1> DEFINE ef == [df EXCEPT ![x.dir] = NewDefault(@, x)]
<1>4. \A d \in Dir : ef[d] = IF d = x.dir THEN NewDefault(df[d], x) ELSE df[d]
  OBVIOUS
<1> HIDE DEF ef
<1>5. DefaultsWill(fs, ef, T, ol, K)
  <2> SUFFICES ASSUME NEW d \in Dir
               PROVE  (ef[d] = "torn" => "torn" \in K) /\ (ef[d] \in {"env", "none", "nofile"} \cup K \/ There(ef[d], fs, T, ol) \/ Referred(ef[d], d, T))
    BY DEF DefaultsWill
  <2>1. (df[d] = "torn" => "torn" \in K) /\ (df[d] \in {"env", "none", "nofile"} \cup K \/ There(df[d], fs, T, ol) \/ Referred(df[d], d, S))
    BY <1>1 DEF DefaultsWill
  <2>2. Referred(df[d], d, S) => Referred(df[d], d, T) \/ (x.dir = d /\ x.alias = df[d])
    BY ReferredStill
  <2>3. CASE d = x.dir
    BY <2>1, <2>2, <2>3, <1>3, <1>4 DEF NewDefault
  <2>4. CASE d # x.dir
    BY <2>1, <2>2, <2>4, <1>4
  <2> QED BY <2>3, <2>4
<1> QED BY <1>2, <1>5 DEF ef

\* The move of the files of the old layout, where only the project of the command has one.
Own(d, first) == IF d \in first THEN d ELSE "none"
Migrating(fs, df, S, ol, first, p) ==
  /\ \A d \in Dir : df[d] = Own(d, first) \/ \E x \in S : x.do = "default" /\ x.dir = d
  /\ \A x \in S : /\ x.do \in {"default", "mkdir", "move"}
                  /\ x.do = "default" => x.alias = Own(x.dir, first)
                  /\ x.do = "move" => x.alias = MigratedAlias(x.dir, p)
  /\ \A d \in first : fs[d] = d \/ (d \in ol /\ \E x \in S : x.do = "move" /\ x.dir = d)
  /\ \A a \in Alias : fs[a] \in {"none", a}

-----------------------------------------------------------------------------
(* The invariant.                                                            *)

KeychainTyped ==
  /\ keychainPc \in {"idle", "migrate", "ready", "work"}
  /\ old \subseteq oldAtFirst /\ oldAtFirst \subseteq Dir
  /\ files \in [Alias -> Dir \cup {"new", "torn", "none"}]
  /\ defaults \in [Dir -> Alias \cup {"env", "none", "torn", "nofile"}]
  /\ here \in Project /\ services \subseteq Alias \cup {"env"}
  /\ memoryDefault \in Alias \cup {"env", "none"}
  /\ todo \in Seq(Steps) /\ cut \subseteq Alias \cup {"env", "torn"}
  /\ commands \in 0..MaxCommands /\ crashes \in 0..MaxCrashes
KeychainPhase ==
  /\ Len(todo) # 0 => keychainPc \in {"migrate", "work"}
  /\ keychainPc = "ready" => StoredIn(files) \subseteq services /\ services \subseteq StoredIn(files) \cup {"env"}
  /\ FirstOnly(todo) /\ NewNamesFree(files, StepsOf(todo))
  /\ commands = 0 => /\ keychainPc = "idle" /\ old = oldAtFirst /\ servicesDir = FALSE
                     /\ (\A a \in Alias : files[a] = "none") /\ \A d \in Dir : defaults[d] = "nofile"
KeychainWill ==
  /\ DefaultsWill(files, defaults, StepsOf(todo), old, cut) /\ StepsWill(files, StepsOf(todo), old)
  /\ Goes(files, defaults, StepsOf(todo), cut) /\ MovesFit(StepsOf(todo), here)
  /\ crashes = 0 => cut = {}
KeychainMoves ==
  commands = 1 /\ keychainPc \in {"migrate", "ready"} /\ oldAtFirst \subseteq {"global", here} =>
    Migrating(files, defaults, StepsOf(todo), old, oldAtFirst, here)
KeychainInv == KeychainTyped /\ KeychainPhase /\ KeychainWill /\ KeychainMoves /\ DefaultIsUsable

LEMMA KeychainInvInit == KeychainInit => KeychainInv
<1> SUFFICES ASSUME KeychainInit PROVE KeychainInv
  OBVIOUS
<1>1. todo \in Seq(Steps) /\ Len(todo) = 0 /\ StepsOf(todo) = {}
  <2>1. todo = <<>>
    BY DEF KeychainInit
  <2> QED BY <2>1, NoSteps, Zenon
<1>2. commands \in 0..MaxCommands /\ crashes \in 0..MaxCrashes
  <2>1. commands = 0 /\ crashes = 0
    BY DEF KeychainInit
  <2> QED BY <2>1, KeychainAssumption
<1>3. KeychainTyped
  BY <1>1, <1>2 DEF KeychainInit, KeychainTyped
<1>4. KeychainPhase
  BY <1>1 DEF KeychainInit, KeychainPhase, FirstOnly, NewNamesFree
<1>5. KeychainWill
  <2>1. cut = {} /\ \A d \in Dir : defaults[d] = "nofile"
    BY DEF KeychainInit
  <2> QED BY <1>1, <2>1 DEF KeychainWill, DefaultsWill, StepsWill, Goes, MovesFit
<1>6. KeychainMoves /\ DefaultIsUsable
  BY DEF KeychainInit, KeychainMoves, DefaultIsUsable
<1> QED BY <1>3, <1>4, <1>5, <1>6 DEF KeychainInv

-----------------------------------------------------------------------------
(* The writes: what is left once a step is taken.                            *)

LEMMA StepTaken ==
  ASSUME KeychainInv, NEW w, Doing(w)
  PROVE  /\ Step \in Steps /\ Step.do = w
         /\ StepsOf(todo) = {Step} \cup StepsOf(Tail(todo)) /\ Tail(todo) \in Seq(Steps) /\ Len(todo) # 0
         /\ keychainPc \in {"migrate", "work"} /\ commands # 0
<1>1. Step.do = w /\ keychainPc \in {"migrate", "work"} /\ todo # <<>>
  BY DEF Doing
<1>2. todo \in Seq(Steps)
  BY DEF KeychainInv, KeychainTyped
<1>3. Len(todo) # 0
  BY <1>1, <1>2, EmptySeq, LenProperties
<1>4. commands # 0
  BY <1>1 DEF KeychainInv, KeychainPhase
<1> QED BY <1>1, <1>2, <1>3, <1>4, StepsOfTail DEF Step

\* A step that leaves what is to be done right leaves everything right.
LEMMA AdvanceKeeps ==
  ASSUME KeychainInv, NEW w, Doing(w), Advance,
         old' \subseteq old, files' \in [Alias -> Dir \cup {"new", "torn", "none"}],
         defaults' \in [Dir -> Alias \cup {"env", "none", "torn", "nofile"}],
         DefaultsWill(files', defaults', StepsOf(Tail(todo)), old', cut), StepsWill(files', StepsOf(Tail(todo)), old'),
         commands = 1 /\ keychainPc = "migrate" /\ oldAtFirst \subseteq {"global", here} =>
           Migrating(files', defaults', StepsOf(Tail(todo)), old', oldAtFirst, here)
  PROVE  KeychainInv'
<1>1. /\ todo' = Tail(todo) /\ UNCHANGED <<keychainPc, oldAtFirst, here, services, memoryDefault, cut, commands, crashes>>
  BY DEF Advance, KeepKeychain
<1>2. /\ StepsOf(todo) = {Step} \cup StepsOf(Tail(todo)) /\ Tail(todo) \in Seq(Steps) /\ Len(todo) # 0
      /\ keychainPc \in {"migrate", "work"} /\ commands # 0
  BY StepTaken
<1>3. KeychainTyped'
  BY <1>1, <1>2 DEF KeychainInv, KeychainTyped
<1>8. \A x \in StepsOf(Tail(todo)) : ~Leaves(x)
  BY <1>2 DEF KeychainInv, KeychainPhase, FirstOnly
<1>4. KeychainPhase'
  <2>1. FirstOnly(Tail(todo))
    BY <1>2, <1>8, StepsOfTail DEF FirstOnly
  <2>2. NewNamesFree(files', StepsOf(Tail(todo)))
    BY <1>8 DEF NewNamesFree, Leaves
  <2> QED BY <1>1, <1>2, <2>1, <2>2 DEF KeychainPhase
<1>5. KeychainWill'
  <2>1. MovesFit(StepsOf(todo), here)
    BY DEF KeychainInv, KeychainWill
  <2>4. MovesFit(StepsOf(Tail(todo)), here)
    BY <1>2, <2>1 DEF MovesFit
  <2>5. Goes(files', defaults', StepsOf(Tail(todo)), cut)
    BY <1>8 DEF Goes
  <2>6. crashes = 0 => cut = {}
    BY DEF KeychainInv, KeychainWill
  <2> QED BY <1>1, <2>4, <2>5, <2>6 DEF KeychainWill
<1>6. KeychainMoves'
  BY <1>1, <1>2 DEF KeychainMoves
<1>7. DefaultIsUsable'
  BY <1>1, <1>2 DEF DefaultIsUsable
<1> QED BY <1>3, <1>4, <1>5, <1>6, <1>7 DEF KeychainInv

\* What is known of the step.
LEMMA WillBefore ==
  ASSUME KeychainInv
  PROVE  /\ defaults \in [Dir -> Alias \cup {"env", "none", "torn", "nofile"}]
         /\ files \in [Alias -> Dir \cup {"new", "torn", "none"}]
         /\ DefaultsWill(files, defaults, StepsOf(todo), old, cut) /\ StepsWill(files, StepsOf(todo), old)
         /\ Goes(files, defaults, StepsOf(todo), cut) /\ MovesFit(StepsOf(todo), here)
         /\ (crashes = 0 => cut = {}) /\ cut \subseteq Alias \cup {"env", "torn"}
         /\ (commands = 1 /\ keychainPc = "migrate" /\ oldAtFirst \subseteq {"global", here} =>
               Migrating(files, defaults, StepsOf(todo), old, oldAtFirst, here))
         /\ old \subseteq oldAtFirst /\ oldAtFirst \subseteq Dir /\ here \in Project
         /\ NewNamesFree(files, StepsOf(todo))
BY DEF KeychainInv, KeychainTyped, KeychainPhase, KeychainWill, KeychainMoves

LEMMA DefaultWriteKeeps == KeychainInv /\ _write_default_services => KeychainInv'
<1> SUFFICES ASSUME KeychainInv, _write_default_services PROVE KeychainInv'
  OBVIOUS
<1> DEFINE x == Step  S == StepsOf(todo)  T == StepsOf(Tail(todo))
<1>1. Doing("default") /\ Advance /\ defaults' = [defaults EXCEPT ![x.dir] = x.alias] /\ UNCHANGED <<old, servicesDir, files>>
  BY DEF _write_default_services
<1>2. x \in Steps /\ x.do = "default" /\ S = {x} \cup T
  BY <1>1, StepTaken
<1>3. x.dir \in Dir /\ x.alias \in Alias \cup {"env", "none"} /\ x.alias # "torn"
  BY <1>2, StepShapes, Names
<1> HIDE DEF x, S, T
<1>4. defaults' \in [Dir -> Alias \cup {"env", "none", "torn", "nofile"}] /\ files' \in [Alias -> Dir \cup {"new", "torn", "none"}]
      /\ \A d \in Dir : defaults'[d] = IF d = x.dir THEN x.alias ELSE defaults[d]
  BY <1>1, <1>3, WillBefore
<1>5. DefaultsWill(files', defaults', T, old', cut) /\ StepsWill(files', T, old')
  BY <1>1, <1>2, <1>3, WillBefore, DefaultComes DEF S
<1>6. ASSUME Migrating(files, defaults, S, old, oldAtFirst, here)
      PROVE  Migrating(files', defaults', T, old', oldAtFirst, here)
  <2>1. x.alias = Own(x.dir, oldAtFirst)
    BY <1>2, <1>6 DEF Migrating
  <2>2. ASSUME NEW d \in Dir
        PROVE  defaults'[d] = Own(d, oldAtFirst) \/ \E y \in T : y.do = "default" /\ y.dir = d
    BY <1>2, <1>4, <1>6, <2>1 DEF Migrating
  <2>3. \A d \in oldAtFirst : files[d] = d \/ (d \in old /\ \E y \in T : y.do = "move" /\ y.dir = d)
    BY <1>2, <1>6 DEF Migrating
  <2> QED BY <1>1, <1>2, <1>6, <2>2, <2>3 DEF Migrating
<1> QED BY <1>1, <1>4, <1>5, <1>6, WillBefore, AdvanceKeeps DEF S, T

LEMMA MkdirKeeps == KeychainInv /\ _create_services_dir_structure => KeychainInv'
<1> SUFFICES ASSUME KeychainInv, _create_services_dir_structure PROVE KeychainInv'
  OBVIOUS
<1> DEFINE x == Step  S == StepsOf(todo)  T == StepsOf(Tail(todo))
<1>1. Doing("mkdir") /\ Advance /\ UNCHANGED <<old, files, defaults>>
  BY DEF _create_services_dir_structure
<1>2. x.do = "mkdir" /\ S = {x} \cup T
  BY <1>1, StepTaken
<1> HIDE DEF x, S, T
<1>3. DefaultsWill(files', defaults', T, old', cut) /\ StepsWill(files', T, old')
  <2>1. \A a : There(a, files, S, old) => There(a, files, T, old)
    BY <1>2, ComesStill DEF There
  <2> QED BY <1>1, <1>2, <2>1, WillBefore, FilesCome DEF S
<1>4. ASSUME Migrating(files, defaults, S, old, oldAtFirst, here)
      PROVE  Migrating(files', defaults', T, old', oldAtFirst, here)
  BY <1>1, <1>2, <1>4 DEF Migrating
<1> QED BY <1>1, <1>3, <1>4, WillBefore, AdvanceKeeps DEF S, T

LEMMA MoveKeeps == KeychainInv /\ _migrate_services_from_dir => KeychainInv'
<1> SUFFICES ASSUME KeychainInv, _migrate_services_from_dir PROVE KeychainInv'
  OBVIOUS
<1> DEFINE x == Step  S == StepsOf(todo)  T == StepsOf(Tail(todo))
<1>1. /\ Doing("move") /\ Advance /\ UNCHANGED <<servicesDir, defaults>>
      /\ IF x.dir \in old /\ x.alias \notin StoredIn(files)
         THEN files' = [files EXCEPT ![x.alias] = x.dir] /\ old' = old \ {x.dir}
         ELSE UNCHANGED <<files, old>>
  BY DEF _migrate_services_from_dir, Moves, Stored, StoredIn
<1>2. x \in Steps /\ x.do = "move" /\ S = {x} \cup T
  BY <1>1, StepTaken
<1>3. x.dir \in Dir /\ x.alias \in Dir /\ x.alias \in Alias
  BY <1>2, StepShapes, Names
<1> HIDE DEF x, S, T
<1>4. /\ files' \in [Alias -> Dir \cup {"new", "torn", "none"}] /\ old' \subseteq old /\ defaults' = defaults
      /\ \A a \in Alias : files'[a] = files[a] \/ (a = x.alias /\ files[a] = "none" /\ files'[a] = x.dir)
      /\ x.dir \in old => files'[x.alias] # "none"
      /\ \A d \in old : d # x.dir => d \in old'
  <2>1. CASE x.dir \in old /\ x.alias \notin StoredIn(files)
    <3>1. x.dir # "none"
      BY <1>3, Names
    <3> QED BY <1>1, <1>3, <2>1, <3>1, WillBefore DEF StoredIn
  <2>2. CASE ~(x.dir \in old /\ x.alias \notin StoredIn(files))
    BY <1>1, <1>3, <2>2, WillBefore DEF StoredIn
  <2> QED BY <2>1, <2>2
<1>5. DefaultsWill(files', defaults', T, old', cut) /\ StepsWill(files', T, old')
  <2>1. MovesFit(S, here)
    BY WillBefore DEF S
  <2>2. \A a \in StoredIn(files) : a \in StoredIn(files')
    BY <1>3, <1>4, Names DEF StoredIn
  <2>3. x.dir \in old => x.alias \in StoredIn(files')
    BY <1>3, <1>4 DEF StoredIn
  <2>4. ASSUME NEW a, Comes(a, S, old) PROVE There(a, files', T, old')
    <3>1. PICK y \in S : \/ y.do = "write" /\ y.alias = a
                         \/ y.do = "move" /\ y.dir \in old /\ y.alias = a
                         \/ y.do = "rename" /\ y.new = a
      BY <2>4 DEF Comes
    <3>2. CASE y.do = "move" /\ y.dir = x.dir
      <4>1. y.alias = a /\ a = x.alias /\ x.dir \in old
        BY <1>2, <2>1, <3>1, <3>2 DEF MovesFit
      <4> QED BY <4>1, <2>3 DEF There
    <3>3. CASE ~(y.do = "move" /\ y.dir = x.dir)
      <4>1. y \in T
        BY <1>2, <3>3
      <4> QED BY <4>1, <3>1, <3>3, <1>4 DEF There, Comes
    <3> QED BY <3>2, <3>3
  <2>5. \A a : There(a, files, S, old) => There(a, files', T, old')
    BY <2>2, <2>4 DEF There
  <2> QED BY <1>2, <1>4, <2>5, WillBefore, FilesCome DEF S
<1>6. ASSUME oldAtFirst \subseteq {"global", here}, Migrating(files, defaults, S, old, oldAtFirst, here)
      PROVE  Migrating(files', defaults', T, old', oldAtFirst, here)
  <2>1. x.alias = MigratedAlias(x.dir, here)
    BY <1>2, <1>6 DEF Migrating
  <2>2. x.dir \in old => x.alias = x.dir
    <3> SUFFICES ASSUME x.dir \in old PROVE x.alias = x.dir
      OBVIOUS
    <3>1. x.dir \in {"global", here} /\ here \in Project
      BY <1>6, WillBefore
    <3> QED BY <3>1, <2>1, <1>3, Migrated
  <2>3. \A a \in Alias : files'[a] \in {"none", a}
    <3> SUFFICES ASSUME NEW a \in Alias, files'[a] # files[a] PROVE files'[a] = a
      BY <1>6 DEF Migrating
    <3>1. a = x.alias /\ files'[a] = x.dir /\ x.dir \in old
      BY <1>1, <1>4
    <3> QED BY <3>1, <2>2
  <2>4. ASSUME NEW d \in oldAtFirst
        PROVE  files'[d] = d \/ (d \in old' /\ \E y \in T : y.do = "move" /\ y.dir = d)
    <3>1. d \in Dir /\ d \in Alias /\ d # "none"
      BY WillBefore, Names
    <3>2. CASE files[d] = d
      BY <3>1, <3>2, <1>4
    <3>3. CASE d \in old /\ d = x.dir
      <4>1. files'[d] # "none"
        BY <3>3, <2>2, <1>4
      <4> QED BY <4>1, <3>1, <2>3
    <3>4. CASE files[d] # d /\ d # x.dir
      <4>1. d \in old /\ \E y \in S : y.do = "move" /\ y.dir = d
        BY <3>4, <1>6 DEF Migrating
      <4> QED BY <4>1, <3>4, <1>2, <1>4
    <3>5. files[d] = d \/ d \in old
      BY <1>6 DEF Migrating
    <3> QED BY <3>2, <3>3, <3>4, <3>5
  <2>5. \A d \in Dir : defaults'[d] = Own(d, oldAtFirst) \/ \E y \in T : y.do = "default" /\ y.dir = d
    BY <1>2, <1>4, <1>6 DEF Migrating
  <2>6. \A y \in T : /\ y.do \in {"default", "mkdir", "move"}
                     /\ y.do = "default" => y.alias = Own(y.dir, oldAtFirst)
                     /\ y.do = "move" => y.alias = MigratedAlias(y.dir, here)
    BY <1>2, <1>6 DEF Migrating
  <2> QED BY <2>3, <2>4, <2>5, <2>6 DEF Migrating
<1> QED BY <1>1, <1>4, <1>5, <1>6, WillBefore, AdvanceKeeps DEF S, T

LEMMA WriteKeeps == KeychainInv /\ _save_encrypted_service => KeychainInv'
<1> SUFFICES ASSUME KeychainInv, _save_encrypted_service PROVE KeychainInv'
  OBVIOUS
<1> DEFINE x == Step  S == StepsOf(todo)  T == StepsOf(Tail(todo))
<1>1. Doing("write") /\ Advance /\ files' = [files EXCEPT ![x.alias] = "new"] /\ UNCHANGED <<old, defaults>>
  BY DEF _save_encrypted_service
<1>2. x \in Steps /\ x.do = "write" /\ S = {x} \cup T
  BY <1>1, StepTaken
<1>3. x.alias \in Alias
  BY <1>2, StepShapes
<1> HIDE DEF x, S, T
<1>4. /\ files' \in [Alias -> Dir \cup {"new", "torn", "none"}]
      /\ \A a \in Alias : files'[a] = IF a = x.alias THEN "new" ELSE files[a]
  BY <1>1, <1>3, WillBefore
<1>5. DefaultsWill(files', defaults', T, old', cut) /\ StepsWill(files', T, old')
  <2>1. \A a : There(a, files, S, old) => There(a, files', T, old')
    BY <1>1, <1>2, <1>3, <1>4, ComesStill DEF There, StoredIn
  <2> QED BY <1>1, <1>2, <2>1, WillBefore, FilesCome DEF S
<1>6. ~Migrating(files, defaults, S, old, oldAtFirst, here)
  BY <1>2 DEF Migrating
<1> QED BY <1>1, <1>4, <1>5, <1>6, WillBefore, AdvanceKeeps DEF S, T

\* A service that leaves: no default is of it that is not gone over, and nothing names it next.
LEMMA LeaveKeeps ==
  ASSUME KeychainInv, NEW w \in {"unlink", "rename"}, Doing(w), Advance, UNCHANGED <<old, defaults>>,
         files' \in [Alias -> Dir \cup {"new", "torn", "none"}],
         \A a \in Alias : a # Step.alias /\ files[a] # "none" => files'[a] # "none",
         w = "rename" => files'[Step.new] # "none"
  PROVE  KeychainInv'
<1> DEFINE x == Step  S == StepsOf(todo)  T == StepsOf(Tail(todo))
<1>1. x \in Steps /\ x.do = w /\ S = {x} \cup T /\ Leaves(x)
  BY StepTaken DEF Leaves
<1>2. x.do = "rename" => x.new \in Alias
  BY <1>1, StepShapes, Names
<1> HIDE DEF x, S, T
<1>3. DefaultsWill(files', defaults', T, old', cut) /\ StepsWill(files', T, old')
  <2>1. DefaultsWill(files, defaults, S, old, cut) /\ StepsWill(files, S, old) /\ Goes(files, defaults, S, cut)
    BY WillBefore DEF S
  <2>2. /\ \A d \in Dir : Referred(x.alias, d, S)
        /\ \A y \in S : (y.do = "default" => y.alias # x.alias) /\ (y.do = "refer" => y.new # x.alias)
    BY <1>1, <2>1 DEF Goes
  <2>3. ASSUME NEW a, There(a, files, S, old), a # x.alias PROVE There(a, files', T, old')
    <3>1. CASE a \in StoredIn(files)
      BY <2>3, <3>1 DEF There, StoredIn, x
    <3>2. CASE Comes(a, S, old)
      <4>1. Comes(a, T, old) \/ (x.do = "rename" /\ x.new = a)
        BY <1>1, <3>2, ComesStill
      <4> QED BY <4>1, <1>1, <1>2 DEF There, StoredIn, x
    <3> QED BY <2>3, <3>1, <3>2 DEF There
  <2>4. \A a : There(a, files, S, old) /\ a \notin {x.alias} => There(a, files', T, old')
    BY <2>3
  <2>5. \A d \in Dir : defaults[d] \in {x.alias} => Referred(defaults[d], d, S)
    BY <2>2
  <2>6. \A y \in T : /\ y.do = "default" => y.alias \notin {x.alias}
                     /\ y.do = "refer" => y.new \notin {x.alias}
    BY <1>1, <2>2
  <2>7. x.do # "refer"
    BY <1>1
  <2>8. DefaultsWill(files', defaults, T, old', cut) /\ StepsWill(files', T, old')
    BY <1>1, <2>1, <2>4, <2>5, <2>6, <2>7, FilesChange
  <2> QED BY <2>8
<1>4. ~Migrating(files, defaults, S, old, oldAtFirst, here)
  BY <1>1 DEF Migrating
<1> QED BY <1>3, <1>4, WillBefore, AdvanceKeeps DEF S, T

LEMMA UnlinkKeeps == KeychainInv /\ UnlinkService => KeychainInv'
<1> SUFFICES ASSUME KeychainInv, UnlinkService PROVE KeychainInv'
  OBVIOUS
<1>1. /\ Doing("unlink") /\ Advance /\ UNCHANGED <<old, defaults>> /\ Step.alias \in Alias
      /\ files' = [files EXCEPT ![Step.alias] = "none"]
  BY DEF UnlinkService, Stored
<1>2. /\ files' \in [Alias -> Dir \cup {"new", "torn", "none"}]
      /\ \A a \in Alias : a # Step.alias /\ files[a] # "none" => files'[a] # "none"
  BY <1>1, WillBefore
<1> QED BY <1>1, <1>2, LeaveKeeps

LEMMA RenameKeeps == KeychainInv /\ RenameFile => KeychainInv'
<1> SUFFICES ASSUME KeychainInv, RenameFile PROVE KeychainInv'
  OBVIOUS
<1>1. /\ Doing("rename") /\ Advance /\ UNCHANGED <<old, defaults>> /\ Step.alias \in Alias /\ files[Step.alias] # "none"
      /\ files' = [files EXCEPT ![Step.new] = files[Step.alias], ![Step.alias] = "none"]
  BY DEF RenameFile, Stored
<1>2. Step \in Steps /\ Step.do = "rename" /\ StepsOf(todo) = {Step} \cup StepsOf(Tail(todo))
  BY <1>1, StepTaken
<1>3. Step.new \in Alias
  BY <1>2, StepShapes, Names
<1> DEFINE x == Step
<1> HIDE DEF x
<1>4. /\ files' \in [Alias -> Dir \cup {"new", "torn", "none"}]
      /\ \A a \in Alias : files'[a] = IF a = x.alias THEN "none" ELSE IF a = x.new THEN files[x.alias] ELSE files[a]
  BY <1>1, <1>3, WillBefore DEF x
<1>5. \A a \in Alias : a # Step.alias /\ files[a] # "none" => files'[a] # "none"
  BY <1>1, <1>4 DEF x
<1>6. Step.new # Step.alias
  <2>1. Step.new \notin StoredIn(files)
    BY <1>2, WillBefore DEF NewNamesFree
  <2> QED BY <1>1, <2>1 DEF StoredIn
<1>7. files'[Step.new] # "none"
  BY <1>1, <1>3, <1>4, <1>6 DEF x
<1> QED BY <1>1, <1>4, <1>5, <1>7, LeaveKeeps

\* What a command that dies has still to do covers every default that names nothing.
LEMMA UnfinishedIs ==
  ASSUME KeychainInv
  PROVE  /\ \A x \in StepsOf(todo) : x.do \in {"write", "move", "refer"} => x.alias \in Unfinished
         /\ Unfinished \subseteq Alias \cup {"env"}
<1>1. todo \in Seq(Steps)
  BY DEF KeychainInv, KeychainTyped
<1>2. DOMAIN todo = 1..Len(todo) /\ \A i \in 1..Len(todo) : todo[i] \in Steps
  BY <1>1, LenProperties, ElementOfSeq
<1>3. \A x \in StepsOf(todo) : x.do \in {"write", "move", "refer"} => x.alias \in Unfinished
  BY <1>2 DEF StepsOf, Unfinished
<1>4. ASSUME NEW i \in 1..Len(todo), todo[i].do \in {"write", "move", "refer"}
      PROVE  todo[i].alias \in Alias \cup {"env"}
  <2>1. todo[i] \in Steps
    BY <1>2
  <2> QED BY <1>4, <2>1, StepShapes, Names
<1>5. Unfinished \subseteq Alias \cup {"env"}
  BY <1>2, <1>4 DEF Unfinished
<1> QED BY <1>3, <1>5

LEMMA CutCovers ==
  ASSUME KeychainInv, NEW d \in Dir
  PROVE  /\ defaults[d] \in StoredIn(files) \cup {"env", "none", "nofile"} \cup cut \cup Unfinished
         /\ defaults[d] = "torn" => "torn" \in cut
<1> DEFINE S == StepsOf(todo)
<1>1. DefaultsWill(files, defaults, S, old, cut) /\ Goes(files, defaults, S, cut)
  BY WillBefore
<1>2. \A x \in S : x.do \in {"write", "move", "refer"} => x.alias \in Unfinished
  BY UnfinishedIs
<1> HIDE DEF S
<1>3. CASE \E x \in S : Leaves(x)
  BY <1>1, <1>3 DEF Goes, DefaultsWill
<1>4. CASE \A x \in S : ~Leaves(x)
  <2>1. Comes(defaults[d], S, old) => defaults[d] \in Unfinished
    BY <1>2, <1>4 DEF Comes, Leaves
  <2>2. Referred(defaults[d], d, S) => defaults[d] \in Unfinished
    BY <1>2 DEF Referred
  <2> QED BY <1>1, <2>1, <2>2 DEF DefaultsWill, There
<1> QED BY <1>3, <1>4

LEMMA AbortKeeps ==
  ASSUME KeychainInv, Abort, Len(todo) # 0, keychainPc \in {"migrate", "work"}, commands # 0,
         cut \subseteq cut', cut' \subseteq Alias \cup {"env", "torn"}, crashes = 0 => cut' = {},
         \A d \in Dir : defaults[d] \in StoredIn(files) \cup {"env", "none", "nofile"} \cup cut'
  PROVE  KeychainInv'
<1>1. /\ keychainPc' = "idle" /\ todo' = <<>>
      /\ UNCHANGED <<old, servicesDir, files, defaults, oldAtFirst, here, services, memoryDefault, commands, crashes>>
  BY DEF Abort, KeepKeychain
<1>2. StepsOf(todo') = {} /\ todo' \in Seq(Steps) /\ Len(todo') = 0
  <2>1. todo' = <<>>
    BY <1>1
  <2> QED BY <2>1, NoSteps, Zenon
<1>3. KeychainTyped'
  BY <1>1, <1>2 DEF KeychainInv, KeychainTyped
<1>4. KeychainPhase'
  BY <1>1, <1>2 DEF KeychainPhase, FirstOnly, NewNamesFree
<1>5. KeychainWill'
  <2>1. \A d \in Dir : defaults[d] = "torn" => "torn" \in cut
    BY CutCovers
  <2>2. DefaultsWill(files, defaults, {}, old, cut')
    BY <2>1 DEF DefaultsWill, There
  <2> QED BY <1>1, <1>2, <2>2 DEF KeychainWill, StepsWill, Goes, MovesFit
<1>6. KeychainMoves' /\ DefaultIsUsable'
  BY <1>1 DEF KeychainMoves, DefaultIsUsable
<1> QED BY <1>3, <1>4, <1>5, <1>6 DEF KeychainInv

LEMMA FailsKeeps == KeychainInv /\ FileFails => KeychainInv'
<1> SUFFICES ASSUME KeychainInv, FileFails PROVE KeychainInv'
  OBVIOUS
<1>1. PICK w \in {"unlink", "rename"} : Doing(w) /\ Abort /\ cut' = cut
  BY DEF FileFails
<1>2. /\ Step.do = w /\ StepsOf(todo) = {Step} \cup StepsOf(Tail(todo)) /\ Len(todo) # 0
      /\ keychainPc \in {"migrate", "work"} /\ commands # 0
  BY <1>1, StepTaken
<1>3. \A d \in Dir : defaults[d] \in StoredIn(files) \cup {"env", "none", "nofile"} \cup cut
  BY <1>2, WillBefore DEF Goes, Leaves
<1> QED BY <1>1, <1>2, <1>3, WillBefore, AbortKeeps

LEMMA ReferKeeps == KeychainInv /\ _remove_reference_to_alias => KeychainInv'
<1> SUFFICES ASSUME KeychainInv, _remove_reference_to_alias PROVE KeychainInv'
  OBVIOUS
<1> DEFINE x == Step  S == StepsOf(todo)  T == StepsOf(Tail(todo))
<1>1. /\ Doing("refer")
      /\ \/ defaults[x.dir] = "torn" /\ Abort /\ cut' = cut \cup Unfinished
         \/ /\ Advance /\ UNCHANGED <<old, servicesDir, files>>
            /\ defaults' = [defaults EXCEPT ![x.dir] = NewDefault(@, x)]
  BY DEF _remove_reference_to_alias, NewDefault
<1>2. x \in Steps /\ x.do = "refer" /\ S = {x} \cup T /\ Len(todo) # 0 /\ keychainPc \in {"migrate", "work"} /\ commands # 0
  BY <1>1, StepTaken
<1>3. x.dir \in Dir /\ x.alias \in Alias \cup {"env"} /\ x.new \in NewAlias \cup {"none"} /\ x.new \in Alias \cup {"none"} /\ x.new # "torn"
  BY <1>2, StepShapes, Names
<1> HIDE DEF x, S, T
<1>4. CASE defaults[x.dir] = "torn" /\ Abort /\ cut' = cut \cup Unfinished
  <2>1. crashes # 0
    <3>1. "torn" \in cut
      BY <1>3, <1>4, CutCovers
    <3> QED BY <3>1, WillBefore
  <2>2. cut' \subseteq Alias \cup {"env", "torn"}
    BY <1>4, WillBefore, UnfinishedIs
  <2>3. \A d \in Dir : defaults[d] \in StoredIn(files) \cup {"env", "none", "nofile"} \cup cut'
    BY <1>4, CutCovers
  <2> QED BY <1>2, <1>4, <2>1, <2>2, <2>3, AbortKeeps
<1>5. CASE /\ Advance /\ UNCHANGED <<old, servicesDir, files>>
           /\ defaults' = [defaults EXCEPT ![x.dir] = NewDefault(@, x)]
  <2>1. \A v \in Alias \cup {"env", "none", "torn", "nofile"} : NewDefault(v, x) \in Alias \cup {"env", "none", "torn", "nofile"}
    BY <1>3 DEF NewDefault
  <2>2. defaults' \in [Dir -> Alias \cup {"env", "none", "torn", "nofile"}]
    BY <1>3, <1>5, <2>1, WillBefore
  <2>3. DefaultsWill(files', defaults', T, old', cut) /\ StepsWill(files', T, old')
    BY <1>2, <1>3, <1>5, WillBefore, ReferGone DEF S
  <2>4. ~Migrating(files, defaults, S, old, oldAtFirst, here)
    BY <1>2 DEF Migrating
  <2> QED BY <1>1, <1>5, <2>2, <2>3, <2>4, WillBefore, AdvanceKeeps DEF S, T
<1> QED BY <1>1, <1>4, <1>5

-----------------------------------------------------------------------------
(* Loading.                                                                  *)

DefaultOf(d, p) == [do |-> "default", dir |-> d, alias |-> IF d \in old THEN MigratedAlias(d, p) ELSE "none"]
MoveOf(d, p) == [do |-> "move", dir |-> d, alias |-> MigratedAlias(d, p)]
ReferOf(d, a, b) == [do |-> "refer", dir |-> d, alias |-> a, new |-> b]

LEMMA DefaultSteps_ ==
  ASSUME NEW d \in Dir, NEW p \in Project
  PROVE  /\ DefaultOf(d, p) \in Steps /\ DefaultOf(d, p).do = "default" /\ DefaultOf(d, p).dir = d
         /\ DefaultOf(d, p).alias = IF d \in old THEN MigratedAlias(d, p) ELSE "none"
<1>1. MigratedAlias(d, p) \in Alias
  BY Migrated, Names
<1> QED BY <1>1 DEF DefaultOf, Steps, DefaultSteps

LEMMA MoveSteps_ ==
  ASSUME NEW d \in Dir, NEW p \in Project
  PROVE  /\ MoveOf(d, p) \in Steps /\ MoveOf(d, p).do = "move" /\ MoveOf(d, p).dir = d
         /\ MoveOf(d, p).alias = MigratedAlias(d, p)
<1>1. MigratedAlias(d, p) \in Dir
  BY Migrated
<1> QED BY <1>1 DEF MoveOf, Steps, MoveSteps

LEMMA ReferSteps_ ==
  ASSUME NEW d \in Dir, NEW a \in Alias \cup {"env"}, NEW b \in NewAlias \cup {"none"}
  PROVE  /\ ReferOf(d, a, b) \in Steps /\ ReferOf(d, a, b).do = "refer" /\ ReferOf(d, a, b).dir = d
         /\ ReferOf(d, a, b).alias = a /\ ReferOf(d, a, b).new = b
BY DEF ReferOf, Steps, ReferSteps

\* A list with one step for each directory.
LEMMA ForEachDir ==
  ASSUME NEW F, \A d \in Dir : F[d] \in Steps, NEW list, list = [i \in DOMAIN Dirs |-> F[Dirs[i]]]
  PROVE  list \in Seq(Steps) /\ StepsOf(list) = {F[d] : d \in Dir}
<1>1. Dirs \in Seq(Dir) /\ Len(Dirs) \in Nat /\ DOMAIN Dirs = 1..Len(Dirs) /\ StepsOf(Dirs) = Dir
  BY DirsList
<1>2. \A i \in 1..Len(Dirs) : Dirs[i] \in Dir
  BY <1>1, ElementOfSeq
<1>3. list \in [1..Len(Dirs) -> Steps]
  BY <1>1, <1>2
<1>4. list \in Seq(Steps) /\ Len(list) = Len(Dirs)
  BY <1>1, <1>3
<1>5. \A i \in 1..Len(Dirs) : list[i] = F[Dirs[i]]
  BY <1>1
<1>6. \A d \in Dir : \E i \in 1..Len(Dirs) : Dirs[i] = d
  BY <1>1 DEF StepsOf
<1> QED BY <1>2, <1>4, <1>5, <1>6 DEF StepsOf

LEMMA DefaultList ==
  ASSUME NEW p \in Project
  PROVE  /\ _create_default_service_files(p) \in Seq(Steps)
         /\ StepsOf(_create_default_service_files(p))
            = IF defaults["global"] # "nofile" THEN {} ELSE {DefaultOf(d, p) : d \in Dir}
<1>1. CASE defaults["global"] # "nofile"
  <2>1. _create_default_service_files(p) = <<>>
    BY <1>1 DEF _create_default_service_files
  <2> QED BY <1>1, <2>1, NoSteps, Zenon
<1>2. CASE defaults["global"] = "nofile"
  <2> DEFINE F == [d \in Dir |-> DefaultOf(d, p)]
             list == _create_default_service_files(p)
  <2>1. \A d \in Dir : F[d] \in Steps /\ F[d] = DefaultOf(d, p)
    BY DefaultSteps_
  <2>2. \A i \in DOMAIN Dirs : Dirs[i] \in Dir
    BY DirsList, ElementOfSeq
  <2>3. list = [i \in DOMAIN Dirs |-> F[Dirs[i]]]
    BY <1>2, <2>2 DEF _create_default_service_files, DefaultOf
  <2> HIDE DEF F, list
  <2>4. list \in Seq(Steps) /\ StepsOf(list) = {F[d] : d \in Dir}
    BY <2>1, <2>3, ForEachDir
  <2>5. {F[d] : d \in Dir} = {DefaultOf(d, p) : d \in Dir}
    BY <2>1
  <2> QED BY <1>2, <2>4, <2>5 DEF list
<1> QED BY <1>1, <1>2

LEMMA MoveList ==
  ASSUME NEW p \in Project
  PROVE  _migrate_services(p) \in Seq(Steps) /\ StepsOf(_migrate_services(p)) = {MoveOf(d, p) : d \in Dir}
<1> DEFINE F == [d \in Dir |-> MoveOf(d, p)]
           list == _migrate_services(p)
<1>1. \A d \in Dir : F[d] \in Steps /\ F[d] = MoveOf(d, p)
  BY MoveSteps_
<1>2. \A i \in DOMAIN Dirs : Dirs[i] \in Dir
  BY DirsList, ElementOfSeq
<1>3. list = [i \in DOMAIN Dirs |-> F[Dirs[i]]]
  BY <1>2 DEF _migrate_services, MoveOf
<1> HIDE DEF F, list
<1>4. list \in Seq(Steps) /\ StepsOf(list) = {F[d] : d \in Dir}
  BY <1>1, <1>3, ForEachDir
<1>5. {F[d] : d \in Dir} = {MoveOf(d, p) : d \in Dir}
  BY <1>1
<1> QED BY <1>4, <1>5 DEF list

LEMMA ReferList ==
  ASSUME NEW a \in Alias \cup {"env"}, NEW b \in NewAlias \cup {"none"}
  PROVE  Refer(a, b) \in Seq(Steps) /\ StepsOf(Refer(a, b)) = {ReferOf(d, a, b) : d \in Dir}
<1> DEFINE F == [d \in Dir |-> ReferOf(d, a, b)]
           list == Refer(a, b)
<1>1. \A d \in Dir : F[d] \in Steps /\ F[d] = ReferOf(d, a, b)
  BY ReferSteps_
<1>2. \A i \in DOMAIN Dirs : Dirs[i] \in Dir
  BY DirsList, ElementOfSeq
<1>3. list = [i \in DOMAIN Dirs |-> F[Dirs[i]]]
  BY <1>2 DEF Refer, ReferOf
<1> HIDE DEF F, list
<1>4. list \in Seq(Steps) /\ StepsOf(list) = {F[d] : d \in Dir}
  BY <1>1, <1>3, ForEachDir
<1>5. {F[d] : d \in Dir} = {ReferOf(d, a, b) : d \in Dir}
  BY <1>1
<1> QED BY <1>4, <1>5 DEF list

\* With nothing left to do the defaults are right.
LEMMA DefaultsRight ==
  ASSUME KeychainInv, Len(todo) = 0
  PROVE  \A d \in Dir : defaults[d] \in StoredIn(files) \cup {"env", "none", "nofile"} \cup cut
<1>1. StepsOf(todo) = {}
  BY StepsOfNone
<1> QED BY <1>1, WillBefore DEF DefaultsWill, There, Comes, Referred

LEMMA IdleToDo == KeychainInv /\ keychainPc \in {"idle", "ready"} => Len(todo) = 0
<1> SUFFICES ASSUME KeychainInv, keychainPc = "idle" \/ keychainPc = "ready" PROVE Len(todo) = 0
  OBVIOUS
<1>1. Len(todo) # 0 => keychainPc = "migrate" \/ keychainPc = "work"
  BY DEF KeychainInv, KeychainPhase
<1> QED BY <1>1

\* What a command that is to move the files does.
MoveToDo(p) == _create_default_service_files(p) \o <<[do |-> "mkdir"]>> \o _migrate_services(p)

LEMMA MoveToDoIs ==
  ASSUME NEW p \in Project
  PROVE  /\ MoveToDo(p) \in Seq(Steps)
         /\ \A x \in StepsOf(MoveToDo(p)) :
              /\ x.do \in {"default", "mkdir", "move"}
              /\ x.do = "default" => x.dir \in Dir /\ x.alias = IF x.dir \in old THEN MigratedAlias(x.dir, p) ELSE "none"
              /\ x.do = "move" => x.alias = MigratedAlias(x.dir, p)
         /\ \A d \in Dir : \E x \in StepsOf(MoveToDo(p)) : x.do = "move" /\ x.dir = d /\ x.alias = MigratedAlias(d, p)
         /\ defaults["global"] = "nofile" => \A d \in Dir : \E x \in StepsOf(MoveToDo(p)) : x.do = "default" /\ x.dir = d
<1> DEFINE m == [do |-> "mkdir"]
           D == _create_default_service_files(p)
           M == _migrate_services(p)
<1>1. m \in Steps /\ m.do = "mkdir"
  BY DEF Steps, MkdirSteps
<1>2. D \in Seq(Steps) /\ StepsOf(D) = IF defaults["global"] # "nofile" THEN {} ELSE {DefaultOf(d, p) : d \in Dir}
  BY DefaultList
<1>3. M \in Seq(Steps) /\ StepsOf(M) = {MoveOf(d, p) : d \in Dir}
  BY MoveList
<1>4. MoveToDo(p) = D \o <<m>> \o M
  BY DEF MoveToDo
<1> DEFINE O == <<m>>
           E == D \o O
<1>5. O \in Seq(Steps) /\ StepsOf(O) = {m}
  BY <1>1, StepsOfOne, Zenon
<1> HIDE DEF m, D, M, O
<1>6. E \in Seq(Steps) /\ StepsOf(E) = StepsOf(D) \cup {m}
  <2>1. D \in Seq(Steps) /\ O \in Seq(Steps)
    BY <1>2, <1>5
  <2>2. StepsOf(E) = StepsOf(D) \cup StepsOf(O) /\ E \in Seq(Steps)
    BY <2>1, StepsOfConcat, Zenon
  <2> HIDE DEF E
  <2> QED BY <2>2, <1>5
<1>11. MoveToDo(p) = E \o M
  BY <1>4 DEF O
<1> HIDE DEF E
<1>7. MoveToDo(p) \in Seq(Steps) /\ StepsOf(MoveToDo(p)) = StepsOf(D) \cup {m} \cup StepsOf(M)
  <2>1. M \in Seq(Steps)
    BY <1>3
  <2>2. E \o M \in Seq(Steps) /\ StepsOf(E \o M) = StepsOf(E) \cup StepsOf(M)
    BY <2>1, <1>6, StepsOfConcat, Zenon
  <2> QED BY <2>2, <1>6, <1>11
<1>8. ASSUME NEW x \in StepsOf(MoveToDo(p))
      PROVE  /\ x.do \in {"default", "mkdir", "move"}
             /\ x.do = "default" => x.dir \in Dir /\ x.alias = IF x.dir \in old THEN MigratedAlias(x.dir, p) ELSE "none"
             /\ x.do = "move" => x.alias = MigratedAlias(x.dir, p)
  <2>1. CASE x = m
    BY <1>1, <2>1
  <2>2. CASE x \in StepsOf(D)
    <3>1. PICK d \in Dir : x = DefaultOf(d, p)
      BY <1>2, <2>2
    <3> QED BY <3>1, DefaultSteps_
  <2>3. CASE x \in StepsOf(M)
    <3>1. PICK d \in Dir : x = MoveOf(d, p)
      BY <1>3, <2>3
    <3> QED BY <3>1, MoveSteps_
  <2> QED BY <1>7, <2>1, <2>2, <2>3
<1>9. ASSUME NEW d \in Dir
      PROVE  \E x \in StepsOf(MoveToDo(p)) : x.do = "move" /\ x.dir = d /\ x.alias = MigratedAlias(d, p)
  BY <1>3, <1>7, MoveSteps_
<1>10. ASSUME defaults["global"] = "nofile", NEW d \in Dir
       PROVE  \E x \in StepsOf(MoveToDo(p)) : x.do = "default" /\ x.dir = d
  <2>1. DefaultOf(d, p) \in StepsOf(MoveToDo(p))
    BY <1>2, <1>7, <1>10
  <2> QED BY <2>1, DefaultSteps_
<1> QED BY <1>7, <1>8, <1>9, <1>10

LEMMA LoadKeeps == ASSUME KeychainInv, NEW p \in Project, _load_services(p) PROVE KeychainInv'
<1> DEFINE S == StepsOf(todo')
<1>1. /\ keychainPc = "idle" /\ commands < MaxCommands /\ commands' = commands + 1 /\ here' = p /\ keychainPc' = "migrate"
      /\ services' = {} /\ memoryDefault' = "none"
      /\ UNCHANGED <<old, oldAtFirst, servicesDir, files, defaults, cut, crashes>>
  BY DEF _load_services
<1>2. (todo' = <<>> /\ servicesDir) \/ todo' = MoveToDo(p)
  BY DEF _load_services, MoveToDo
<1>3. Len(todo) = 0
  BY <1>1, IdleToDo
<1>4. commands \in 0..MaxCommands
  BY DEF KeychainInv, KeychainTyped
<1>5. commands' \in 0..MaxCommands /\ commands' # 0 /\ (commands' = 1 => commands = 0)
  BY <1>1, <1>4, KeychainAssumption
<1>6. /\ todo' \in Seq(Steps)
      /\ \A x \in S : /\ x.do \in {"default", "mkdir", "move"}
                      /\ x.do = "default" => x.dir \in Dir /\ x.alias = IF x.dir \in old THEN MigratedAlias(x.dir, p) ELSE "none"
                      /\ x.do = "move" => x.alias = MigratedAlias(x.dir, p)
      /\ (S = {} \/ \A d \in Dir : \E x \in S : x.do = "move" /\ x.dir = d /\ x.alias = MigratedAlias(d, p))
      /\ (~servicesDir /\ defaults["global"] = "nofile" => \A d \in Dir : \E x \in S : x.do = "default" /\ x.dir = d)
      /\ ~servicesDir => \A d \in Dir : \E x \in S : x.do = "move" /\ x.dir = d
  <2>1. CASE todo' = <<>> /\ servicesDir
    <3>1. todo' \in Seq(Steps) /\ S = {}
      BY <2>1, NoSteps, Zenon
    <3> HIDE DEF S
    <3> QED BY <2>1, <3>1
  <2>2. CASE todo' = MoveToDo(p)
    BY <2>2, MoveToDoIs
  <2> QED BY <1>2, <2>1, <2>2
<1> HIDE DEF S
<1>7. KeychainTyped'
  BY <1>1, <1>5, <1>6 DEF KeychainInv, KeychainTyped
<1>8. FirstOnly(todo')
  <2> SUFFICES ASSUME Len(todo') # 0, NEW x \in StepsOf(Tail(todo')) PROVE ~Leaves(x)
    BY DEF FirstOnly
  <2>1. x \in S
    BY <1>6, StepsOfTail DEF S
  <2> QED BY <2>1, <1>6 DEF Leaves
<1>9. KeychainPhase'
  <2>1. NewNamesFree(files', S)
    BY <1>6 DEF NewNamesFree
  <2> QED BY <1>1, <1>5, <1>8, <2>1 DEF KeychainPhase, S
<1>10. KeychainWill'
  <2> SUFFICES DefaultsWill(files, defaults, S, old, cut) /\ StepsWill(files, S, old) /\ Goes(files, defaults, S, cut) /\ MovesFit(S, p)
    <3>1. crashes = 0 => cut = {}
      BY WillBefore
    <3> QED BY <1>1, <3>1 DEF KeychainWill, S
  <2>1. DefaultsWill(files, defaults, S, old, cut)
    <3>1. \A d \in Dir : defaults[d] = "torn" => "torn" \in cut
      BY WillBefore DEF DefaultsWill
    <3> QED BY <1>3, <3>1, DefaultsRight DEF DefaultsWill, There
  <2>2. ASSUME NEW x \in S
        PROVE  /\ x.do = "default" => x.alias \in {"env", "none"} \/ There(x.alias, files, S, old)
               /\ x.do = "refer" => x.new = "none" \/ There(x.new, files, S, old)
    <3>1. CASE x.do = "default" /\ x.dir \in old
      <4>1. x.dir \in Dir /\ x.alias = MigratedAlias(x.dir, p)
        BY <1>6, <3>1
      <4>2. PICK y \in S : y.do = "move" /\ y.dir = x.dir /\ y.alias = MigratedAlias(x.dir, p)
        BY <1>6, <4>1
      <4> QED BY <3>1, <4>1, <4>2 DEF There, Comes
    <3>2. CASE ~(x.do = "default" /\ x.dir \in old)
      BY <1>6, <3>2
    <3> QED BY <3>1, <3>2
  <2>3. StepsWill(files, S, old)
    BY <2>2 DEF StepsWill
  <2>4. Goes(files, defaults, S, cut) /\ MovesFit(S, p)
    BY <1>6 DEF Goes, Leaves, MovesFit
  <2> QED BY <2>1, <2>3, <2>4
<1>11. KeychainMoves'
  <2> SUFFICES ASSUME commands' = 1, oldAtFirst \subseteq {"global", p}
               PROVE  Migrating(files, defaults, S, old, oldAtFirst, p)
    BY <1>1 DEF KeychainMoves, S
  <2>1. /\ old = oldAtFirst /\ servicesDir = FALSE
        /\ (\A a \in Alias : files[a] = "none") /\ \A d \in Dir : defaults[d] = "nofile"
    BY <1>5 DEF KeychainInv, KeychainPhase
  <2>2. old \subseteq Dir
    BY WillBefore
  <2>3. \A d \in Dir : \E x \in S : x.do = "default" /\ x.dir = d
    BY <1>6, <2>1, Names
  <2>4. \A d \in oldAtFirst : d \in old /\ \E x \in S : x.do = "move" /\ x.dir = d
    BY <1>6, <2>1, <2>2
  <2>5. ASSUME NEW x \in S, x.do = "default" PROVE x.alias = Own(x.dir, oldAtFirst)
    <3>1. x.dir \in Dir /\ x.alias = IF x.dir \in old THEN MigratedAlias(x.dir, p) ELSE "none"
      BY <1>6, <2>5
    <3> QED BY <3>1, <2>1, Migrated DEF Own
  <2> QED BY <1>6, <2>1, <2>3, <2>4, <2>5 DEF Migrating
<1>12. DefaultIsUsable'
  BY <1>1 DEF DefaultIsUsable
<1> QED BY <1>7, <1>9, <1>10, <1>11, <1>12 DEF KeychainInv

LEMMA LoadFilesKeeps == KeychainInv /\ _load_service_files => KeychainInv'
<1> SUFFICES ASSUME KeychainInv, _load_service_files PROVE KeychainInv'
  OBVIOUS
<1>1. PICK env \in {{}, {"env"}} :
        /\ services' = Stored \cup env
        /\ \/ keychainPc' = "idle" /\ memoryDefault' = "none"
           \/ /\ keychainPc' = "ready" /\ "torn" \notin {defaults["global"], defaults[here]}
              /\ \E first \in IF env # {} THEN env ELSE IF Stored = {} THEN {"none"} ELSE Stored :
                   memoryDefault' = LoadedDefault(first)
  BY DEF _load_service_files
<1>2. keychainPc = "migrate" /\ todo = <<>> /\ UNCHANGED <<old, oldAtFirst, servicesDir, files, defaults, here, todo, cut, commands, crashes>>
  BY DEF _load_service_files
<1>3. Len(todo) = 0
  <2>1. todo = <<>>
    BY <1>2
  <2> QED BY <2>1, NoSteps, Zenon
<1>4. services' \subseteq Alias \cup {"env"} /\ StoredIn(files) \subseteq services' /\ services' \subseteq StoredIn(files) \cup {"env"}
  BY <1>1 DEF Stored, StoredIn
<1>5. defaults["global"] \in Alias \cup {"env", "none", "torn", "nofile"} /\ defaults[here] \in Alias \cup {"env", "none", "torn", "nofile"}
  BY WillBefore, Names
<1>6. CASE keychainPc' = "ready"
  <2>1. PICK first \in IF env # {} THEN env ELSE IF Stored = {} THEN {"none"} ELSE Stored : memoryDefault' = LoadedDefault(first)
    BY <1>1, <1>6
  <2>2. first \in services' \cup {"none"} /\ (first = "none" /\ "none" \notin services' => services' = {})
    BY <1>1, <2>1
  <2>3. defaults["global"] # "torn" /\ defaults[here] # "torn"
    BY <1>1, <1>6
  <2>4. memoryDefault' \in {first, defaults["global"], defaults[here]}
        /\ (memoryDefault' = first \/ memoryDefault' \notin {"none", "nofile"})
    BY <2>1 DEF LoadedDefault
  <2>5. memoryDefault' \in Alias \cup {"env", "none"}
    BY <1>4, <1>5, <2>2, <2>3, <2>4
  <2>6. DefaultIsUsable'
    <3> SUFFICES ASSUME services' # {}, "env" \notin {defaults["global"], defaults[here]}
                 PROVE  memoryDefault' \in services' \cup cut
      BY <1>2 DEF DefaultIsUsable
    <3>1. \A d \in Dir : defaults[d] \in StoredIn(files) \cup {"env", "none", "nofile"} \cup cut
      BY <1>3, DefaultsRight
    <3>2. here \in Dir /\ "global" \in Dir
      BY WillBefore, Names
    <3>3. CASE memoryDefault' = first
      BY <3>3, <2>2
    <3>4. CASE memoryDefault' # first
      BY <3>1, <3>2, <3>4, <2>4, <1>4
    <3> QED BY <3>3, <3>4
  <2>7. KeychainTyped'
    BY <1>2, <1>4, <1>6, <2>5 DEF KeychainInv, KeychainTyped
  <2>8. KeychainPhase' /\ KeychainWill' /\ KeychainMoves'
    BY <1>2, <1>3, <1>4, <1>6 DEF KeychainInv, KeychainPhase, KeychainWill, KeychainMoves
  <2> QED BY <2>6, <2>7, <2>8 DEF KeychainInv
<1>7. CASE keychainPc' = "idle" /\ memoryDefault' = "none"
  <2>1. KeychainTyped'
    BY <1>2, <1>4, <1>7 DEF KeychainInv, KeychainTyped
  <2>2. KeychainPhase' /\ KeychainWill' /\ KeychainMoves'
    BY <1>2, <1>3, <1>7 DEF KeychainInv, KeychainPhase, KeychainWill, KeychainMoves
  <2>3. DefaultIsUsable'
    BY <1>7 DEF DefaultIsUsable
  <2> QED BY <2>1, <2>2, <2>3 DEF KeychainInv
<1> QED BY <1>1, <1>6, <1>7

-----------------------------------------------------------------------------
(* Commands.                                                                 *)

LEMMA FirstOfNone ==
  ASSUME NEW list \in Seq(Steps), \A x \in StepsOf(list) : ~Leaves(x)
  PROVE  FirstOnly(list)
<1>1. Len(list) # 0 => \A x \in StepsOf(Tail(list)) : x \in StepsOf(list)
  BY StepsOfTail
<1> QED BY <1>1 DEF FirstOnly

LEMMA FirstOfOne ==
  ASSUME NEW x \in Steps
  PROVE  FirstOnly(<<x>>)
<1> DEFINE o == <<x>>
<1>1. o \in Seq(Steps) /\ Len(o) = 1
  BY StepsOfOne, Zenon
<1> HIDE DEF o
<1>2. Tail(o) \in Seq(Steps) /\ Len(Tail(o)) = 0
  BY <1>1, HeadTailProperties, EmptySeq
<1>3. StepsOf(Tail(o)) = {}
  BY <1>2, StepsOfNone
<1>4. FirstOnly(o)
  BY <1>3 DEF FirstOnly
<1> QED BY <1>4 DEF o

LEMMA FirstThen ==
  ASSUME NEW l \in Seq(Steps), NEW t \in Seq(Steps), Len(l) # 0, FirstOnly(l), \A x \in StepsOf(t) : ~Leaves(x)
  PROVE  FirstOnly(l \o t)
<1> DEFINE c == l \o t
<1>1. /\ c \in Seq(Steps) /\ Len(c) = Len(l) + Len(t) /\ Len(l) \in Nat /\ Len(t) \in Nat
      /\ \A i \in 1..Len(l) + Len(t) : c[i] = IF i <= Len(l) THEN l[i] ELSE t[i - Len(l)]
  BY ConcatProperties, LenProperties
<1> HIDE DEF c
<1>2. /\ Len(Tail(c)) = Len(c) - 1 /\ \A i \in 1..Len(Tail(c)) : Tail(c)[i] = c[i + 1]
  <2>1. c # <<>>
    BY <1>1, EmptySeq
  <2> QED BY <1>1, <2>1, HeadTailProperties
<1>3. /\ Len(Tail(l)) = Len(l) - 1 /\ \A i \in 1..Len(Tail(l)) : Tail(l)[i] = l[i + 1]
  <2>1. l # <<>>
    BY EmptySeq
  <2> QED BY <2>1, HeadTailProperties
<1>4. ASSUME NEW i \in 1..Len(Tail(c)) PROVE ~Leaves(Tail(c)[i])
  <2>1. Tail(c)[i] = c[i + 1] /\ i + 1 \in 1..Len(l) + Len(t)
    BY <1>1, <1>2
  <2>2. CASE i + 1 <= Len(l)
    <3>1. i \in 1..Len(Tail(l)) /\ Tail(c)[i] = Tail(l)[i]
      BY <1>1, <1>3, <2>1, <2>2
    <3>2. Tail(c)[i] \in StepsOf(Tail(l))
      BY <3>1 DEF StepsOf
    <3> QED BY <3>2 DEF FirstOnly
  <2>3. CASE ~(i + 1 <= Len(l))
    <3>1. i + 1 - Len(l) \in 1..Len(t) /\ Tail(c)[i] = t[i + 1 - Len(l)]
      BY <1>1, <2>1, <2>3
    <3>2. Tail(c)[i] \in StepsOf(t)
      BY <3>1 DEF StepsOf
    <3> QED BY <3>2
  <2> QED BY <2>2, <2>3
<1>5. FirstOnly(c)
  BY <1>4 DEF FirstOnly, StepsOf
<1> QED BY <1>5 DEF c

\* A command that lists what it is to do.
LEMMA WorkKeeps ==
  ASSUME KeychainInv, NEW list \in Seq(Steps), Work(list),
         services' \subseteq Alias \cup {"env"}, memoryDefault' \in Alias \cup {"env", "none"},
         FirstOnly(list), NewNamesFree(files, StepsOf(list)), \A x \in StepsOf(list) : x.do # "move",
         StepsWill(files, StepsOf(list), old), Goes(files, defaults, StepsOf(list), cut)
  PROVE  KeychainInv'
<1>1. /\ keychainPc = "ready" /\ keychainPc' = "work" /\ todo' = list
      /\ UNCHANGED <<old, oldAtFirst, servicesDir, files, defaults, here, cut, commands, crashes>>
  BY DEF Work
<1>2. commands # 0
  BY <1>1 DEF KeychainInv, KeychainPhase
<1>3. KeychainTyped'
  BY <1>1 DEF KeychainInv, KeychainTyped
<1>4. KeychainPhase'
  BY <1>1, <1>2 DEF KeychainPhase
<1>5. KeychainWill'
  <2> SUFFICES DefaultsWill(files, defaults, StepsOf(list), old, cut) /\ MovesFit(StepsOf(list), here)
    <3>1. crashes = 0 => cut = {}
      BY WillBefore
    <3> QED BY <1>1, <3>1 DEF KeychainWill
  <2>1. Len(todo) = 0
    BY <1>1, IdleToDo
  <2>2. \A d \in Dir : defaults[d] \in StoredIn(files) \cup {"env", "none", "nofile"} \cup cut /\ (defaults[d] = "torn" => "torn" \in cut)
    BY <2>1, DefaultsRight, WillBefore DEF DefaultsWill
  <2> QED BY <2>2 DEF DefaultsWill, There, MovesFit
<1>6. KeychainMoves' /\ DefaultIsUsable'
  BY <1>1 DEF KeychainMoves, DefaultIsUsable
<1> QED BY <1>3, <1>4, <1>5, <1>6 DEF KeychainInv

DefaultTo(d, a) == [do |-> "default", dir |-> d, alias |-> a]
WriteOf(a) == [do |-> "write", alias |-> a]
UnlinkOf(a) == [do |-> "unlink", alias |-> a]
RenameOf(a, b) == [do |-> "rename", alias |-> a, new |-> b]

LEMMA CommandSteps ==
  ASSUME NEW d \in Dir, NEW a \in Alias \cup {"env"}, NEW b \in NewAlias
  PROVE  /\ DefaultTo(d, a) \in Steps /\ DefaultTo(d, a).do = "default" /\ DefaultTo(d, a).dir = d /\ DefaultTo(d, a).alias = a
         /\ a # "env" => WriteOf(a) \in Steps
         /\ WriteOf(a).do = "write" /\ WriteOf(a).alias = a
         /\ UnlinkOf(a) \in Steps /\ UnlinkOf(a).do = "unlink" /\ UnlinkOf(a).alias = a
         /\ RenameOf(a, b) \in Steps /\ RenameOf(a, b).do = "rename" /\ RenameOf(a, b).alias = a /\ RenameOf(a, b).new = b
<1>1. DefaultTo(d, a) \in DefaultSteps /\ (a # "env" => WriteOf(a) \in WriteSteps)
  BY DEF DefaultTo, DefaultSteps, WriteOf, WriteSteps
<1>2. UnlinkOf(a) \in UnlinkSteps /\ RenameOf(a, b) \in RenameSteps
  BY DEF UnlinkOf, UnlinkSteps, RenameOf, RenameSteps
<1>3. DefaultTo(d, a) \in Steps /\ (a # "env" => WriteOf(a) \in Steps) /\ UnlinkOf(a) \in Steps /\ RenameOf(a, b) \in Steps
  BY <1>1, <1>2 DEF Steps
<1> QED BY <1>3 DEF DefaultTo, WriteOf, UnlinkOf, RenameOf

\* What is known when a command starts.
LEMMA ReadyKnows ==
  ASSUME KeychainInv, keychainPc = "ready"
  PROVE  /\ services \subseteq Alias \cup {"env"} /\ StoredIn(files) \subseteq services
         /\ services \subseteq StoredIn(files) \cup {"env"} /\ memoryDefault \in Alias \cup {"env", "none"}
         /\ \A d \in Dir : defaults[d] \in StoredIn(files) \cup {"env", "none", "nofile"} \cup cut
         /\ here \in Dir /\ "global" \in Dir /\ Len(todo) = 0
<1>1. Len(todo) = 0
  BY IdleToDo
<1>2. here \in Project
  BY WillBefore
<1>3. /\ services \subseteq Alias \cup {"env"} /\ StoredIn(files) \subseteq services
      /\ services \subseteq StoredIn(files) \cup {"env"} /\ memoryDefault \in Alias \cup {"env", "none"}
  BY DEF KeychainInv, KeychainTyped, KeychainPhase
<1> QED BY <1>1, <1>2, <1>3, DefaultsRight, Names

LEMMA SaveDefaultList ==
  ASSUME NEW d \in Dir, NEW a \in Alias \cup {"env"}
  PROVE  /\ SaveDefault(d, a) \in Seq(Steps) /\ StepsOf(SaveDefault(d, a)) = {DefaultTo(d, a)}
         /\ DefaultTo(d, a).do = "default" /\ DefaultTo(d, a).alias = a
<1> DEFINE x == DefaultTo(d, a)
<1>1. x \in Steps /\ x.do = "default" /\ x.alias = a
  <2>1. x \in DefaultSteps
    BY DEF DefaultTo, DefaultSteps
  <2> QED BY <2>1 DEF Steps, DefaultTo
<1>2. SaveDefault(d, a) = <<x>>
  BY DEF SaveDefault, DefaultTo
<1> HIDE DEF x
<1>3. <<x>> \in Seq(Steps) /\ StepsOf(<<x>>) = {x}
  BY <1>1, StepsOfOne, Zenon
<1>4. SaveDefault(d, a) \in Seq(Steps) /\ StepsOf(SaveDefault(d, a)) = {x}
  BY <1>2, <1>3
<1> QED BY <1>1, <1>4 DEF x

LEMMA DefaultSetKeeps ==
  ASSUME KeychainInv, NEW a \in services, NEW d \in {"global", here}, set_default_service(a, d)
  PROVE  KeychainInv'
<1>1. Work(SaveDefault(d, a)) /\ memoryDefault' = a /\ services' = services /\ keychainPc = "ready"
  BY DEF set_default_service, Work
<1>2. d \in Dir /\ a \in Alias \cup {"env"} /\ a \in StoredIn(files) \cup {"env"} /\ services \subseteq Alias \cup {"env"}
  BY <1>1, ReadyKnows
<1>3. /\ SaveDefault(d, a) \in Seq(Steps)
      /\ \A x \in StepsOf(SaveDefault(d, a)) : x.do = "default" /\ x.alias = a
  BY <1>2, SaveDefaultList
<1>4. FirstOnly(SaveDefault(d, a))
  BY <1>3, FirstOfNone DEF Leaves
<1>5. NewNamesFree(files, StepsOf(SaveDefault(d, a)))
  BY <1>3 DEF NewNamesFree
<1>6. StepsWill(files, StepsOf(SaveDefault(d, a)), old)
  BY <1>2, <1>3 DEF StepsWill, There
<1>7. Goes(files, defaults, StepsOf(SaveDefault(d, a)), cut)
  BY <1>3 DEF Goes, Leaves
<1>8. services' \subseteq Alias \cup {"env"} /\ memoryDefault' \in Alias \cup {"env", "none"}
  BY <1>1, <1>2
<1> QED BY <1>1, <1>3, <1>4, <1>5, <1>6, <1>7, <1>8, WorkKeeps

\* The list of set_service: defaults before the write and after it.
LEMMA SetList ==
  ASSUME NEW a \in Alias, NEW A \in Seq(Steps), NEW C \in Seq(Steps),
         \A x \in StepsOf(A) \cup StepsOf(C) : x.do = "default" /\ x.alias = a
  PROVE  /\ A \o <<WriteOf(a)>> \o C \in Seq(Steps)
         /\ \A x \in StepsOf(A \o <<WriteOf(a)>> \o C) : x.do \in {"default", "write"} /\ x.alias = a
         /\ \E x \in StepsOf(A \o <<WriteOf(a)>> \o C) : x.do = "write" /\ x.alias = a
<1> DEFINE w == WriteOf(a)
           O == <<w>>
           E == A \o O
           L == E \o C
<1>1. w \in Steps /\ w.do = "write" /\ w.alias = a
  <2>1. w \in WriteSteps
    BY DEF WriteOf, WriteSteps
  <2> QED BY <2>1 DEF Steps, WriteOf
<1> HIDE DEF w
<1>2. O \in Seq(Steps) /\ StepsOf(O) = {w}
  BY <1>1, StepsOfOne, Zenon
<1> HIDE DEF O
<1>3. E \in Seq(Steps) /\ StepsOf(E) = StepsOf(A) \cup StepsOf(O)
  BY <1>2, StepsOfConcat, Zenon
<1> HIDE DEF E
<1>4. L \in Seq(Steps) /\ StepsOf(L) = StepsOf(E) \cup StepsOf(C)
  <2>1. E \in Seq(Steps)
    BY <1>3
  <2> QED BY <2>1, StepsOfConcat, Zenon
<1> HIDE DEF L
<1>5. \A x \in StepsOf(L) : x.do \in {"default", "write"} /\ x.alias = a
  BY <1>1, <1>2, <1>3, <1>4
<1>6. \E x \in StepsOf(L) : x.do = "write" /\ x.alias = a
  BY <1>1, <1>2, <1>3, <1>4
<1>7. L = A \o <<WriteOf(a)>> \o C
  BY DEF L, E, O, w
<1> QED BY <1>4, <1>5, <1>6, <1>7

LEMMA SetKeeps ==
  ASSUME KeychainInv, NEW a \in NewAlias \cup (services \ {"env"}), _set_service(a)
  PROVE  KeychainInv'
<1> DEFINE A == IF services = {} THEN SaveDefault("global", a) ELSE <<>>
<1>1. PICK C \in {<<>>, SaveDefault("global", a), SaveDefault(here, a)} :
        /\ Work(A \o <<WriteOf(a)>> \o C) /\ services' = services \cup {a}
        /\ (memoryDefault' = a \/ memoryDefault' = memoryDefault)
  BY DEF _set_service, WriteOf
<1>2. keychainPc = "ready"
  BY <1>1 DEF Work
<1>3. a \in Alias
  BY <1>2, ReadyKnows, Names
<1>4. \A d \in {"global", here} : /\ SaveDefault(d, a) \in Seq(Steps)
                                  /\ \A x \in StepsOf(SaveDefault(d, a)) : x.do = "default" /\ x.alias = a
  <2> SUFFICES ASSUME NEW d \in {"global", here}
               PROVE  /\ SaveDefault(d, a) \in Seq(Steps)
                      /\ \A x \in StepsOf(SaveDefault(d, a)) : x.do = "default" /\ x.alias = a
    OBVIOUS
  <2>1. d \in Dir
    BY <1>2, ReadyKnows
  <2> QED BY <1>3, <2>1, SaveDefaultList
<1>5. ASSUME NEW l, l = <<>> \/ l = SaveDefault("global", a) \/ l = SaveDefault(here, a)
      PROVE  l \in Seq(Steps) /\ \A x \in StepsOf(l) : x.do = "default" /\ x.alias = a
  <2>1. CASE l = <<>>
    <3>1. l \in Seq(Steps) /\ StepsOf(l) = {}
      BY <2>1, NoSteps, Zenon
    <3> QED BY <3>1
  <2>2. CASE l = SaveDefault("global", a) \/ l = SaveDefault(here, a)
    BY <2>2, <1>4
  <2> QED BY <1>5, <2>1, <2>2
<1>6. A = <<>> \/ A = SaveDefault("global", a)
  BY Zenon
<1>7. A \in Seq(Steps) /\ \A x \in StepsOf(A) : x.do = "default" /\ x.alias = a
  BY <1>5, <1>6, Zenon
<1>8. C \in Seq(Steps) /\ \A x \in StepsOf(C) : x.do = "default" /\ x.alias = a
  BY <1>1, <1>5, Zenon
<1> HIDE DEF A
<1> DEFINE L == A \o <<WriteOf(a)>> \o C
<1>9. /\ L \in Seq(Steps) /\ \A x \in StepsOf(L) : x.do \in {"default", "write"} /\ x.alias = a
      /\ \E x \in StepsOf(L) : x.do = "write" /\ x.alias = a
  BY <1>3, <1>7, <1>8, SetList
<1>10. Work(L)
  BY <1>1
<1> HIDE DEF L
<1>11. FirstOnly(L)
  BY <1>9, FirstOfNone DEF Leaves
<1>12. NewNamesFree(files, StepsOf(L)) /\ Goes(files, defaults, StepsOf(L), cut) /\ \A x \in StepsOf(L) : x.do # "move"
  BY <1>9 DEF NewNamesFree, Goes, Leaves
<1>13. StepsWill(files, StepsOf(L), old)
  <2>1. There(a, files, StepsOf(L), old)
    BY <1>9 DEF There, Comes
  <2> QED BY <1>9, <2>1 DEF StepsWill
<1>14. services' \subseteq Alias \cup {"env"} /\ memoryDefault' \in Alias \cup {"env", "none"}
  BY <1>1, <1>2, <1>3, ReadyKnows
<1> QED BY <1>9, <1>10, <1>11, <1>12, <1>13, <1>14, WorkKeeps

\* The files of defaults are gone over, every one.
LEMMA ReferKnows ==
  ASSUME NEW a \in Alias \cup {"env"}, NEW b \in NewAlias \cup {"none"}
  PROVE  /\ Refer(a, b) \in Seq(Steps)
         /\ \A x \in StepsOf(Refer(a, b)) : x.do = "refer" /\ x.new = b /\ ~Leaves(x)
         /\ \A d \in Dir : Referred(a, d, StepsOf(Refer(a, b)))
<1>1. Refer(a, b) \in Seq(Steps) /\ StepsOf(Refer(a, b)) = {ReferOf(d, a, b) : d \in Dir}
  BY ReferList
<1>2. \A d \in Dir : /\ ReferOf(d, a, b).do = "refer" /\ ReferOf(d, a, b).dir = d
                     /\ ReferOf(d, a, b).alias = a /\ ReferOf(d, a, b).new = b
  BY ReferSteps_
<1>3. \A x \in StepsOf(Refer(a, b)) : x.do = "refer" /\ x.new = b
  BY <1>1, <1>2
<1>4. \A d \in Dir : Referred(a, d, StepsOf(Refer(a, b)))
  BY <1>1, <1>2 DEF Referred
<1> QED BY <1>1, <1>3, <1>4 DEF Leaves

LEMMA RenameStarts ==
  ASSUME KeychainInv, NEW a \in services, NEW b \in NewAlias, rename_service(a, b)
  PROVE  KeychainInv'
<1> DEFINE r == RenameOf(a, b)
           O == <<r>>
           R == Refer(a, b)
           L == O \o R
<1>1. Work(L) /\ services' = (services \ {a}) \cup {b} /\ memoryDefault' = memoryDefault /\ b \notin services
      /\ keychainPc = "ready"
  BY DEF rename_service, Work, RenameOf
<1>2. a \in Alias \cup {"env"} /\ b \in Alias /\ b # "none" /\ b # "env"
  BY <1>1, ReadyKnows, Names
<1>3. r \in Steps /\ r.do = "rename" /\ r.alias = a /\ r.new = b
  <2>1. r \in RenameSteps
    BY <1>2 DEF RenameOf, RenameSteps
  <2> QED BY <2>1 DEF Steps, RenameOf
<1> HIDE DEF r
<1>4. O \in Seq(Steps) /\ StepsOf(O) = {r} /\ Len(O) = 1 /\ FirstOnly(O)
  BY <1>3, StepsOfOne, FirstOfOne, Zenon
<1>5. /\ R \in Seq(Steps) /\ \A x \in StepsOf(R) : x.do = "refer" /\ x.new = b /\ ~Leaves(x)
      /\ \A d \in Dir : Referred(a, d, StepsOf(R))
  BY <1>2, ReferKnows
<1> HIDE DEF O, R
<1>6. L \in Seq(Steps) /\ StepsOf(L) = StepsOf(O) \cup StepsOf(R)
  <2>1. O \in Seq(Steps) /\ R \in Seq(Steps)
    BY <1>4, <1>5
  <2> QED BY <2>1, StepsOfConcat, Zenon
<1>7. FirstOnly(L)
  BY <1>4, <1>5, FirstThen
<1> HIDE DEF L
<1>8. \A x \in StepsOf(L) : x = r \/ (x.do = "refer" /\ x.new = b)
  BY <1>4, <1>5, <1>6
<1>9. b \notin StoredIn(files)
  BY <1>1, ReadyKnows
<1>10. NewNamesFree(files, StepsOf(L)) /\ \A x \in StepsOf(L) : x.do # "move"
  BY <1>3, <1>8, <1>9 DEF NewNamesFree
<1>11. There(b, files, StepsOf(L), old)
  BY <1>3, <1>4, <1>6 DEF There, Comes
<1>12. StepsWill(files, StepsOf(L), old)
  BY <1>3, <1>8, <1>11 DEF StepsWill
<1>13. Goes(files, defaults, StepsOf(L), cut)
  <2>1. \A d \in Dir : defaults[d] \in StoredIn(files) \cup {"env", "none", "nofile"} \cup cut
    BY <1>1, ReadyKnows
  <2>2. \A d \in Dir : Referred(a, d, StepsOf(L))
    BY <1>5, <1>6 DEF Referred
  <2>3. a # b
    BY <1>1
  <2>4. \A x \in StepsOf(L) : Leaves(x) => x = r
    BY <1>8 DEF Leaves
  <2>5. \A y \in StepsOf(L) : (y.do = "default" => y.alias # a) /\ (y.do = "refer" => y.new # a)
    BY <1>3, <1>8, <2>3
  <2> QED BY <1>3, <2>1, <2>2, <2>4, <2>5 DEF Goes
<1>14. services' \subseteq Alias \cup {"env"} /\ memoryDefault' \in Alias \cup {"env", "none"}
  BY <1>1, <1>2, ReadyKnows
<1> QED BY <1>1, <1>6, <1>7, <1>10, <1>12, <1>13, <1>14, WorkKeeps

LEMMA RemoveStarts ==
  ASSUME KeychainInv, NEW a \in services, remove_service(a)
  PROVE  KeychainInv'
<1> DEFINE u == UnlinkOf(a)
           O == <<u>>
           R == Refer(a, "none")
           D(n) == IF memoryDefault = a /\ n # "none" THEN SaveDefault("global", n) ELSE <<>>
<1>1. PICK next \in Successors(a) : Work(O \o R \o D(next)) /\ memoryDefault' = next
  BY DEF remove_service, UnlinkOf
<1>2. services' = services \ {a} /\ keychainPc = "ready"
  BY DEF remove_service, Work
<1>3. a \in Alias \cup {"env"} /\ a # "none"
  BY <1>2, ReadyKnows, Names
<1>4. /\ next \in Alias \cup {"env", "none"}
      /\ memoryDefault = a /\ next # "none" => next \in services /\ next # a
  <2>1. services \subseteq Alias \cup {"env"} /\ memoryDefault \in Alias \cup {"env", "none"}
    BY <1>2, ReadyKnows
  <2>2. CASE memoryDefault # a
    BY <2>1, <2>2 DEF Successors
  <2>3. CASE memoryDefault = a
    <3>1. next \in (services \ {a}) \cup {"none"}
      BY <2>3 DEF Successors
    <3> QED BY <3>1, <2>1, <2>3
  <2> QED BY <2>2, <2>3
<1>5. u \in Steps /\ u.do = "unlink" /\ u.alias = a
  <2>1. u \in UnlinkSteps
    BY <1>3 DEF UnlinkOf, UnlinkSteps
  <2> QED BY <2>1 DEF Steps, UnlinkOf
<1> HIDE DEF u
<1>6. O \in Seq(Steps) /\ StepsOf(O) = {u} /\ Len(O) = 1 /\ FirstOnly(O)
  BY <1>5, StepsOfOne, FirstOfOne, Zenon
<1>7. /\ R \in Seq(Steps) /\ \A x \in StepsOf(R) : x.do = "refer" /\ x.new = "none" /\ ~Leaves(x)
      /\ \A d \in Dir : Referred(a, d, StepsOf(R))
  BY <1>3, ReferKnows
<1> DEFINE C == D(next)
<1>8. C \in Seq(Steps) /\ \A x \in StepsOf(C) : x.do = "default" /\ x.alias = next /\ next \in services /\ next # a
  <2>1. CASE memoryDefault = a /\ next # "none"
    <3>1. next \in Alias \cup {"env"} /\ "global" \in Dir /\ next \in services /\ next # a
      BY <2>1, <1>2, <1>4, ReadyKnows
    <3>2. C = SaveDefault("global", next)
      BY <2>1
    <3> HIDE DEF C
    <3> QED BY <3>1, <3>2, SaveDefaultList
  <2>2. CASE ~(memoryDefault = a /\ next # "none")
    <3>1. C = <<>>
      BY <2>2
    <3> HIDE DEF C
    <3>2. C \in Seq(Steps) /\ StepsOf(C) = {}
      BY <3>1, NoSteps, Zenon
    <3> QED BY <3>2
  <2> QED BY <2>1, <2>2
<1> DEFINE E == O \o R
           L == E \o C
<1>9. Work(L)
  BY <1>1
<1> HIDE DEF O, R, C
<1>10. /\ E \in Seq(Steps) /\ StepsOf(E) = StepsOf(O) \cup StepsOf(R)
       /\ Len(E) = Len(O) + Len(R) /\ Len(O) = 1 /\ Len(R) \in Nat
  <2>1. O \in Seq(Steps) /\ R \in Seq(Steps) /\ Len(O) = 1 /\ Len(R) \in Nat
    BY <1>6, <1>7, LenProperties
  <2> QED BY <2>1, StepsOfConcat, Zenon
<1>11. FirstOnly(E)
  BY <1>6, <1>7, FirstThen
<1> HIDE DEF E
<1>12. L \in Seq(Steps) /\ StepsOf(L) = StepsOf(E) \cup StepsOf(C)
  <2>1. E \in Seq(Steps) /\ C \in Seq(Steps)
    BY <1>8, <1>10
  <2> QED BY <2>1, StepsOfConcat, Zenon
<1>13. FirstOnly(L)
  <2>1. \A x \in StepsOf(C) : ~Leaves(x)
    BY <1>8 DEF Leaves
  <2>2. Len(E) # 0
    BY <1>10
  <2> QED BY <1>8, <1>10, <1>11, <2>1, <2>2, FirstThen
<1> HIDE DEF L
<1>14. \A x \in StepsOf(L) : \/ x = u
                             \/ x.do = "refer" /\ x.new = "none"
                             \/ x.do = "default" /\ x.alias = next /\ next \in services /\ next # a
  BY <1>6, <1>7, <1>8, <1>10, <1>12
<1>15. NewNamesFree(files, StepsOf(L)) /\ \A x \in StepsOf(L) : x.do # "move"
  BY <1>5, <1>14 DEF NewNamesFree
<1>16. StepsWill(files, StepsOf(L), old)
  <2>1. next \in services => next \in {"env"} \/ next \in StoredIn(files)
    BY <1>2, ReadyKnows
  <2> QED BY <1>5, <1>14, <2>1 DEF StepsWill, There
<1>17. Goes(files, defaults, StepsOf(L), cut)
  <2>1. \A d \in Dir : defaults[d] \in StoredIn(files) \cup {"env", "none", "nofile"} \cup cut
    BY <1>2, ReadyKnows
  <2>2. \A d \in Dir : Referred(a, d, StepsOf(L))
    BY <1>7, <1>10, <1>12 DEF Referred
  <2>3. \A x \in StepsOf(L) : Leaves(x) => x = u
    BY <1>14 DEF Leaves
  <2>4. \A y \in StepsOf(L) : (y.do = "default" => y.alias # a) /\ (y.do = "refer" => y.new # a)
    BY <1>3, <1>5, <1>14
  <2> QED BY <1>5, <2>1, <2>2, <2>3, <2>4 DEF Goes
<1>18. services' \subseteq Alias \cup {"env"} /\ memoryDefault' \in Alias \cup {"env", "none"}
  BY <1>1, <1>2, <1>4, ReadyKnows
<1> QED BY <1>9, <1>12, <1>13, <1>15, <1>16, <1>17, <1>18, WorkKeeps

-----------------------------------------------------------------------------
(* The end of a command.                                                     *)

LEMMA FinishKeeps == KeychainInv /\ Finish => KeychainInv'
<1> SUFFICES ASSUME KeychainInv, Finish PROVE KeychainInv'
  OBVIOUS
<1>1. /\ keychainPc \in {"ready", "work"} /\ keychainPc' = "idle" /\ todo = <<>> /\ todo' = <<>>
      /\ UNCHANGED <<old, servicesDir, files, defaults, oldAtFirst, here, services, memoryDefault, cut, commands, crashes>>
  BY DEF Finish, KeepKeychain
<1>2. todo' = todo /\ Len(todo) = 0
  <2>1. todo = <<>> /\ todo' = <<>>
    BY <1>1
  <2> QED BY <2>1, NoSteps, Zenon
<1>3. KeychainTyped'
  BY <1>1, <1>2 DEF KeychainInv, KeychainTyped
<1>4. KeychainPhase'
  BY <1>1, <1>2 DEF KeychainInv, KeychainPhase
<1>5. KeychainWill'
  BY <1>1, <1>2 DEF KeychainInv, KeychainWill
<1>6. KeychainMoves' /\ DefaultIsUsable'
  BY <1>1 DEF KeychainMoves, DefaultIsUsable
<1> QED BY <1>3, <1>4, <1>5, <1>6 DEF KeychainInv

LEMMA KilledKeeps == KeychainInv /\ Killed => KeychainInv'
<1> SUFFICES ASSUME KeychainInv, Killed PROVE KeychainInv'
  OBVIOUS
<1>1. /\ keychainPc \in {"migrate", "work"} /\ keychainPc' = "idle" /\ todo # <<>> /\ todo' = <<>>
      /\ crashes < MaxCrashes /\ crashes' = crashes + 1
      /\ UNCHANGED <<old, oldAtFirst, servicesDir, here, services, memoryDefault, commands>>
  BY DEF Killed
<1>2. PICK tear \in BOOLEAN :
        /\ defaults' = IF tear /\ Step.do \in {"default", "refer"} THEN [defaults EXCEPT ![Step.dir] = "torn"] ELSE defaults
        /\ files' = IF tear /\ Step.do = "write" THEN [files EXCEPT ![Step.alias] = "torn"] ELSE files
        /\ cut' = cut \cup Unfinished \cup IF defaults' # defaults THEN {"torn"} ELSE {}
  BY DEF Killed
<1>3. StepsOf(todo') = {} /\ todo' \in Seq(Steps) /\ Len(todo') = 0
  <2>1. todo' = <<>>
    BY <1>1
  <2> QED BY <2>1, NoSteps, Zenon
<1>4. /\ defaults' \in [Dir -> Alias \cup {"env", "none", "torn", "nofile"}]
      /\ files' \in [Alias -> Dir \cup {"new", "torn", "none"}]
  <2>1. /\ defaults \in [Dir -> Alias \cup {"env", "none", "torn", "nofile"}]
        /\ files \in [Alias -> Dir \cup {"new", "torn", "none"}]
    BY WillBefore
  <2>2. defaults' = defaults \/ defaults' = [defaults EXCEPT ![Step.dir] = "torn"]
    BY <1>2
  <2>3. files' = files \/ files' = [files EXCEPT ![Step.alias] = "torn"]
    BY <1>2
  <2>4. defaults' \in [Dir -> Alias \cup {"env", "none", "torn", "nofile"}]
    BY <2>1, <2>2
  <2>5. files' \in [Alias -> Dir \cup {"new", "torn", "none"}]
    BY <2>1, <2>3
  <2> QED BY <2>4, <2>5
<1>5. crashes' \in 0..MaxCrashes /\ crashes' # 0
  <2>1. crashes \in 0..MaxCrashes
    BY DEF KeychainInv, KeychainTyped
  <2> QED BY <1>1, <2>1, KeychainAssumption
<1>6. commands # 0
  <2>1. keychainPc # "idle"
    BY <1>1
  <2> QED BY <2>1 DEF KeychainInv, KeychainPhase
<1>10. cut' \subseteq Alias \cup {"env", "torn"}
  BY <1>2, WillBefore, UnfinishedIs
<1>7. KeychainTyped'
  BY <1>1, <1>3, <1>4, <1>5, <1>10 DEF KeychainInv, KeychainTyped
<1>8. KeychainPhase'
  BY <1>1, <1>3, <1>6 DEF KeychainPhase, FirstOnly, NewNamesFree
<1>9. KeychainMoves' /\ DefaultIsUsable'
  BY <1>1 DEF KeychainMoves, DefaultIsUsable
<1>11. KeychainWill'
  <2>1. \A a \in StoredIn(files) : a \in StoredIn(files')
    <3>1. files' = files \/ files' = [files EXCEPT ![Step.alias] = "torn"]
      BY <1>2
    <3> QED BY <3>1, WillBefore DEF StoredIn
  <2>2. ASSUME NEW d \in Dir
        PROVE  /\ defaults'[d] = "torn" => "torn" \in cut'
               /\ defaults'[d] \in StoredIn(files') \cup {"env", "none", "nofile"} \cup cut'
    <3> DEFINE K == cut \cup Unfinished
    <3>3. K \subseteq cut'
      BY <1>2
    <3>4. /\ defaults[d] \in StoredIn(files) \cup {"env", "none", "nofile"} \cup K
          /\ defaults[d] = "torn" => "torn" \in K
      BY CutCovers
    <3> HIDE DEF K
    <3>1. CASE defaults'[d] = defaults[d]
      BY <2>1, <3>1, <3>3, <3>4
    <3>2. CASE defaults'[d] # defaults[d]
      <4>1. defaults' # defaults /\ defaults' = [defaults EXCEPT ![Step.dir] = "torn"]
        BY <1>2, <3>2
      <4>2. defaults'[d] = "torn"
        BY <3>2, <4>1, WillBefore
      <4> QED BY <1>2, <4>1, <4>2
    <3> QED BY <3>1, <3>2
  <2>3. DefaultsWill(files', defaults', {}, old', cut')
    BY <2>2 DEF DefaultsWill, There
  <2> QED BY <1>3, <1>5, <2>3 DEF KeychainWill, StepsWill, Goes, MovesFit
<1> QED BY <1>7, <1>8, <1>9, <1>11 DEF KeychainInv

LEMMA KeychainInvNext == KeychainInv /\ [KeychainNext]_keychainVars => KeychainInv'
<1> SUFFICES ASSUME KeychainInv, [KeychainNext]_keychainVars PROVE KeychainInv'
  OBVIOUS
<1>1. CASE \E p \in Project : _load_services(p)
  BY <1>1, LoadKeeps
<1>2. CASE _load_service_files
  BY <1>2, LoadFilesKeeps
<1>3. CASE \E a \in NewAlias \cup (services \ {"env"}) : _set_service(a)
  BY <1>3, SetKeeps
<1>4. CASE \E a \in services, d \in {"global", here} : set_default_service(a, d)
  BY <1>4, DefaultSetKeeps
<1>5. CASE \E a \in services, b \in NewAlias : rename_service(a, b)
  BY <1>5, RenameStarts
<1>6. CASE \E a \in services : remove_service(a)
  BY <1>6, RemoveStarts
<1>7. CASE FileStep
  BY <1>7, DefaultWriteKeeps, MkdirKeeps, MoveKeeps, WriteKeeps, UnlinkKeeps, RenameKeeps, FailsKeeps, ReferKeeps
     DEF FileStep
<1>8. CASE Finish
  BY <1>8, FinishKeeps
<1>9. CASE Killed
  BY <1>9, KilledKeeps
<1>10. CASE UNCHANGED keychainVars
  <2>1. UNCHANGED <<keychainPc, old, oldAtFirst, servicesDir, files, defaults, here, services,
                    memoryDefault, todo, cut, commands, crashes>>
    BY <1>10 DEF keychainVars
  <2>2. KeychainTyped'
    BY <2>1 DEF KeychainInv, KeychainTyped
  <2>3. KeychainPhase' /\ KeychainWill' /\ KeychainMoves' /\ DefaultIsUsable'
    BY <2>1 DEF KeychainInv, KeychainPhase, KeychainWill, KeychainMoves, DefaultIsUsable
  <2> QED BY <2>2, <2>3 DEF KeychainInv
<1> QED BY <1>1, <1>2, <1>3, <1>4, <1>5, <1>6, <1>7, <1>8, <1>9, <1>10 DEF KeychainNext

\* Once the files are moved, those of the defaults are what they should be.
LEMMA MovesAreRight == KeychainInv => MigrationKeepsDefaults
<1> SUFFICES ASSUME KeychainInv, keychainPc = "ready", commands = 1, oldAtFirst \subseteq {"global", here}, NEW p \in Project
             PROVE  LET d == IF defaults[p] \in {"none", "nofile"} THEN defaults["global"] ELSE defaults[p]
                        own == IF p \in oldAtFirst THEN {p} ELSE oldAtFirst \cap {"global"} IN
                    IF own = {} THEN d \in {"none", "nofile"} ELSE d \in Alias /\ files[d] \in own
  BY DEF MigrationKeepsDefaults
<1>1. StepsOf(todo) = {}
  BY ReadyKnows, StepsOfNone
<1>2. Migrating(files, defaults, {}, old, oldAtFirst, here)
  BY <1>1 DEF KeychainInv, KeychainMoves
<1>3. /\ \A d \in Dir : defaults[d] = Own(d, oldAtFirst)
      /\ \A d \in oldAtFirst : files[d] = d
  BY <1>2 DEF Migrating
<1>4. p \in Dir /\ "global" \in Dir /\ p # "global" /\ oldAtFirst \subseteq Dir /\ Dir \subseteq Alias
      /\ "none" \notin Alias /\ "nofile" \notin Alias
  BY Names, WillBefore
<1>5. defaults[p] = Own(p, oldAtFirst) /\ defaults["global"] = Own("global", oldAtFirst)
  BY <1>3, <1>4
<1>6. CASE p \in oldAtFirst
  <2>1. defaults[p] = p /\ p \in Alias /\ files[p] = p /\ p # "none" /\ p # "nofile"
    BY <1>3, <1>4, <1>5, <1>6 DEF Own
  <2> QED BY <1>6, <2>1
<1>7. CASE p \notin oldAtFirst
  <2>1. defaults[p] = "none"
    BY <1>5, <1>7 DEF Own
  <2>2. CASE "global" \in oldAtFirst
    <3>1. defaults["global"] = "global" /\ "global" \in Alias /\ files["global"] = "global"
      BY <1>3, <1>4, <1>5, <2>2 DEF Own
    <3> QED BY <1>7, <2>1, <2>2, <3>1
  <2>3. CASE "global" \notin oldAtFirst
    <3>1. defaults["global"] = "none"
      BY <1>5, <2>3 DEF Own
    <3> QED BY <1>7, <2>1, <2>3, <3>1
  <2> QED BY <2>2, <2>3
<1> QED BY <1>6, <1>7

LEMMA KeychainInvGives ==
  KeychainInv => KeychainTypeOK /\ DefaultsExist /\ DefaultIsUsable /\ MigrationKeepsDefaults
<1> SUFFICES ASSUME KeychainInv PROVE KeychainTypeOK /\ DefaultsExist /\ DefaultIsUsable /\ MigrationKeepsDefaults
  OBVIOUS
<1>1. \A i \in DOMAIN todo : todo[i].do \in {"default", "mkdir", "move", "write", "unlink", "rename", "refer"}
  <2> SUFFICES ASSUME NEW i \in DOMAIN todo
               PROVE  todo[i].do \in {"default", "mkdir", "move", "write", "unlink", "rename", "refer"}
    OBVIOUS
  <2>1. todo \in Seq(Steps)
    BY DEF KeychainInv, KeychainTyped
  <2>2. todo[i] \in Steps
    BY <2>1, ElementOfSeq, LenProperties
  <2> QED BY <2>2, StepShapes
<1>2. KeychainTypeOK
  BY <1>1 DEF KeychainInv, KeychainTyped, KeychainTypeOK
<1>3. DefaultsExist
  <2> SUFFICES ASSUME keychainPc = "idle"
               PROVE  \A d \in Dir : defaults[d] \in StoredIn(files) \cup {"env", "none", "nofile"} \cup cut
    BY WillBefore DEF DefaultsExist, Stored, StoredIn
  <2> QED BY IdleToDo, DefaultsRight
<1> QED BY <1>2, <1>3, MovesAreRight DEF KeychainInv

\* Whatever the commands, the projects and the moments of death, the defaults of the
\* services name services that are there, or ones a killed command had still to deal with; a
\* process that finds services has one to give, but for those; and moving the files of the
\* old layout keeps the default of every project.
THEOREM ServicesAreSound ==
  KeychainSpec => [](KeychainTypeOK /\ DefaultsExist /\ DefaultIsUsable /\ MigrationKeepsDefaults)
<1>1. KeychainInit => KeychainInv
  BY KeychainInvInit
<1>2. KeychainInv /\ [KeychainNext]_keychainVars => KeychainInv'
  BY KeychainInvNext
<1>3. KeychainInv => KeychainTypeOK /\ DefaultsExist /\ DefaultIsUsable /\ MigrationKeepsDefaults
  BY KeychainInvGives
<1> QED BY <1>1, <1>2, <1>3, PTL DEF KeychainSpec

-----------------------------------------------------------------------------
(* What is held of the old layout.                                           *)

\* A file that changes loses what it held only if it is the one written or removed.
LEMMA HeldUnlessGone ==
  ASSUME NEW d \in Dir, NEW x \in Alias, Held(d), ~Held(d)', d \in old => d \in old',
         \A a \in Alias : a # x => files'[a] = files[a]
  PROVE  files[x] = d
BY DEF Held

LEMMA HeldStays ==
  ASSUME KeychainInv, KeychainNext, NEW d \in Dir, Held(d), ~Held(d)'
  PROVE  \E a \in Alias : /\ files[a] = d /\ todo # <<>>
                          /\ Step.do \in {"write", "unlink"} /\ Step.alias = a
<1>1. files \in [Alias -> Dir \cup {"new", "torn", "none"}] /\ NewNamesFree(files, StepsOf(todo))
  BY WillBefore
<1>2. UNCHANGED <<old, files>> => FALSE
  BY DEF Held
<1>3. CASE _migrate_services_from_dir
  <2>1. Step \in Steps /\ Step.do = "move"
    BY <1>3, StepTaken DEF _migrate_services_from_dir
  <2>2. Step.alias \in Alias
    BY <2>1, StepShapes, Names
  <2>3. /\ Step.alias \notin Stored /\ files' = [files EXCEPT ![Step.alias] = Step.dir] /\ old' = old \ {Step.dir}
    BY <1>2, <1>3 DEF _migrate_services_from_dir, Moves
  <2>4. files'[Step.alias] = Step.dir /\ \A a \in Alias : a # Step.alias => files'[a] = files[a]
    BY <1>1, <2>2, <2>3
  <2>5. d \in old => d \in old'
    BY <2>2, <2>3, <2>4 DEF Held
  <2>6. files[Step.alias] = d
    BY <2>2, <2>4, <2>5, HeldUnlessGone
  <2>7. d # "none"
    BY Names
  <2> QED BY <2>2, <2>3, <2>6, <2>7 DEF Stored
<1>4. CASE _save_encrypted_service
  <2>1. Step \in Steps /\ Step.do = "write"
    BY <1>4, StepTaken DEF _save_encrypted_service
  <2>2. Step.alias \in Alias
    BY <2>1, StepShapes
  <2>3. files' = [files EXCEPT ![Step.alias] = "new"] /\ old' = old /\ todo # <<>>
    BY <1>4 DEF _save_encrypted_service, Doing
  <2>4. files[Step.alias] = d
    BY <1>1, <2>2, <2>3, HeldUnlessGone
  <2> QED BY <2>1, <2>2, <2>3, <2>4
<1>5. CASE UnlinkService
  <2>1. Step.do = "unlink" /\ Step.alias \in Alias /\ todo # <<>> /\ old' = old
        /\ files' = [files EXCEPT ![Step.alias] = "none"]
    BY <1>5 DEF UnlinkService, Doing, Stored
  <2>2. files[Step.alias] = d
    BY <1>1, <2>1, HeldUnlessGone
  <2> QED BY <2>1, <2>2
<1>6. CASE RenameFile
  <2>1. Step \in Steps /\ Step.do = "rename" /\ StepsOf(todo) = {Step} \cup StepsOf(Tail(todo))
    BY <1>6, StepTaken DEF RenameFile
  <2>2. Step.new \in Alias /\ Step.new \notin StoredIn(files)
    BY <1>1, <2>1, StepShapes, Names DEF NewNamesFree
  <2>3. /\ Step.alias \in Alias /\ files[Step.alias] # "none" /\ old' = old
        /\ files' = [files EXCEPT ![Step.new] = files[Step.alias], ![Step.alias] = "none"]
    BY <1>6 DEF RenameFile, Stored
  <2> DEFINE x == Step.alias
             y == Step.new
  <2> HIDE DEF x, y
  <2>4. x \in Alias /\ y \in Alias /\ x # y /\ files[y] = "none"
    BY <2>2, <2>3 DEF StoredIn, x, y
  <2>5. files'[y] = files[x] /\ \A a \in Alias : a \notin {x, y} => files'[a] = files[a]
    BY <1>1, <2>3, <2>4 DEF x, y
  <2>6. PICK a \in Alias : files[a] = d
    BY <2>3 DEF Held
  <2>7. a # y
    BY <2>4, <2>6, Names
  <2>8. files'[a] = d \/ files'[y] = d
    BY <2>5, <2>6, <2>7
  <2> QED BY <2>4, <2>8 DEF Held
<1>7. CASE Killed
  <2>1. PICK tear \in BOOLEAN :
          files' = IF tear /\ Step.do = "write" THEN [files EXCEPT ![Step.alias] = "torn"] ELSE files
    BY <1>7 DEF Killed
  <2>2. old' = old /\ todo # <<>> /\ keychainPc \in {"migrate", "work"}
    BY <1>7 DEF Killed
  <2>3. Step.do = "write" /\ files' = [files EXCEPT ![Step.alias] = "torn"]
    BY <1>2, <2>1, <2>2
  <2>4. Doing("write")
    BY <2>2, <2>3 DEF Doing
  <2>5. Step \in Steps
    BY <2>4, StepTaken
  <2>6. Step.alias \in Alias
    BY <2>3, <2>5, StepShapes
  <2>7. files[Step.alias] = d
    BY <1>1, <2>2, <2>3, <2>6, HeldUnlessGone
  <2> QED BY <2>2, <2>3, <2>6, <2>7
<1>8. CASE FileFails \/ _remove_reference_to_alias
  BY <1>2, <1>8 DEF FileFails, _remove_reference_to_alias, Abort
<1>9. CASE _write_default_services \/ _create_services_dir_structure
  BY <1>2, <1>9 DEF _write_default_services, _create_services_dir_structure
<1>10. CASE \/ \E p \in Project : _load_services(p)
            \/ _load_service_files \/ Finish
  BY <1>2, <1>10 DEF _load_services, _load_service_files, Finish
<1>11. CASE \/ \E a \in NewAlias \cup (services \ {"env"}) : _set_service(a)
            \/ \E a \in services, b \in {"global", here} : set_default_service(a, b)
            \/ \E a \in services, b \in NewAlias : rename_service(a, b)
            \/ \E a \in services : remove_service(a)
  BY <1>2, <1>11 DEF _set_service, set_default_service, rename_service, remove_service, Work
<1> QED BY <1>3, <1>4, <1>5, <1>6, <1>7, <1>8, <1>9, <1>10, <1>11 DEF KeychainNext, FileStep

\* Whatever is killed and whenever, a service of the old layout is not lost but by a command
\* that writes over its file or removes it.
THEOREM MovedAreNotLost == KeychainSpec => MovedNotLost
<1>1. KeychainInit => KeychainInv
  BY KeychainInvInit
<1>2. KeychainInv /\ [KeychainNext]_keychainVars => KeychainInv'
  BY KeychainInvNext
<1>3. KeychainInv /\ [KeychainNext]_keychainVars =>
        [\A d \in Dir : Held(d) /\ ~Held(d)' =>
           \E a \in Alias : /\ files[a] = d /\ todo # <<>>
                            /\ Step.do \in {"write", "unlink"} /\ Step.alias = a]_keychainVars
  BY HeldStays
<1> QED BY <1>1, <1>2, <1>3, PTL DEF KeychainSpec, MovedNotLost

-----------------------------------------------------------------------------
(* The orgs of the keychain: OrgKeychain.                                     *)

\* What files of orgs may hold: an org of all projects is never a scratch org, and only a
\* scratch org that was made has a server.
Files == [Scope -> [OrgName -> OrgConfig]]
ConfigFits(c) == /\ c.kind # "scratch" => c.server = 0
                 /\ c.kind = "none" => ~c.flag
FilesFit(fs) == \A n \in OrgName : /\ ConfigFits(fs["local"][n]) /\ ConfigFits(fs["global"][n])
                                   /\ fs["global"][n].kind # "scratch"

\* What a process on its way holds: what it loaded, but for the org it made.
UserState == [pc : {"idle", "create", "save"}, name : OrgName \cup {""}, scope : Scope,
              base : OrgConfig, config : OrgConfig]
Pending(u) == u.config # u.base
UserFits(u) ==
  /\ ConfigFits(u.config) /\ ConfigFits(u.base)
  /\ u.base.kind = u.config.kind /\ u.base.flag = u.config.flag
  /\ u.scope = "global" => u.config.kind # "scratch"
  /\ Pending(u) => u.pc = "save" /\ u.base.server = 0 /\ u.config.server # 0
  /\ u.pc = "idle" => u.config.server = 0
  /\ u.pc # "idle" => u.name \in OrgName
  /\ u.pc = "create" => u.config.kind = "scratch" /\ u.config.server = 0

\* The name a server is known by: only one, in the file and in the processes, unless it was
\* imported under a second; a free one by none. "sh" are the servers so shared.
HeldAs(fs, us, n, s) == fs["local"][n].server = s \/ \E p \in Process : us[p].name = n /\ us[p].config.server = s
OneName(fs, us, sh) ==
  \A s \in Server \ sh, n, m \in OrgName : HeldAs(fs, us, n, s) /\ HeldAs(fs, us, m, s) => n = m
FreeUnheld(fs, us, h) ==
  \A s \in Server : h[s] = "free" =>
    (\A n \in OrgName : fs["local"][n].server # s) /\ (\A p \in Process : us[p].config.server # s)

\* A server a process is to save: in no file, with no other process, and not deleted.
PendingAlone(fs, us, h, sh) ==
  \A p \in Process : Pending(us[p]) /\ us[p].config.server \notin sh =>
    /\ h[us[p].config.server] # "deleted"
    /\ \A n \in OrgName : fs["local"][n].server # us[p].config.server
    /\ \A q \in Process \ {p} : us[q].config.server # us[p].config.server

Explained(s, fs, us, ex) ==
  \/ s \in ex
  \/ \E n \in OrgName : fs["local"][n].server = s
  \/ \E p \in Process : Pending(us[p]) /\ us[p].config.server = s
AllExplained(fs, us, h, ex) == \A s \in Server : h[s] = "live" => Explained(s, fs, us, ex)

NoneDeleted(fs, h, sh) ==
  \A n \in OrgName : fs["local"][n].server \notin {0} \cup sh => h[fs["local"][n].server] # "deleted"

FlagsWithin(fs, names) == \A x \in Scope, n \in OrgName : fs[x][n].flag => n \in names

KeyTyped ==
  /\ orgFiles \in Files /\ users \in [Process -> UserState] /\ hub \in [Server -> {"free", "live", "expired", "deleted"}]
  /\ defaultOrg \in OrgName \cup {""} /\ orgCommands \in 0..MaxOrgCommands
  /\ chosen \subseteq OrgName /\ hidden \subseteq OrgName /\ excused \subseteq Server
  /\ shared \subseteq Server /\ clobbered \in BOOLEAN
KeyFits == FilesFit(orgFiles) /\ \A p \in Process : UserFits(users[p])
ServersFit ==
  /\ OneName(orgFiles, users, shared) /\ FreeUnheld(orgFiles, users, hub) /\ PendingAlone(orgFiles, users, hub, shared)
  /\ AllExplained(orgFiles, users, hub, excused) /\ (~clobbered => NoneDeleted(orgFiles, hub, shared))
DefaultFits ==
  ~clobbered => /\ FlagsWithin(orgFiles, chosen \cup hidden)
                /\ defaultOrg # "" => defaultOrg \in chosen \cup hidden
OrgKeyInv == KeyTyped /\ KeyFits /\ ServersFit /\ DefaultFits

LEMMA Scopes == "local" \in Scope /\ "global" \in Scope /\ \A x \in Scope : x = "local" \/ x = "global"
BY DEF Scope
LEMMA ServersAre == /\ MaxServers \in Nat /\ \A s \in Server : s \in 0..MaxServers /\ s # 0
                    /\ \A s \in 0..MaxServers : s # 0 => s \in Server
BY OrgAssumption DEF Server
LEMMA ConfigsAre == /\ NoOrg \in OrgConfig /\ Fresh \in OrgConfig /\ ConfigFits(NoOrg) /\ ConfigFits(Fresh)
                    /\ NoOrg.server = 0 /\ Fresh.server = 0 /\ ~NoOrg.flag /\ ~Fresh.flag
                    /\ NoOrg.kind = "none" /\ Fresh.kind = "scratch"
BY ServersAre DEF NoOrg, Fresh, OrgConfig, ConfigFits

LEMMA OrgKeyInvInit == OrgKeyInit => OrgKeyInv
<1> SUFFICES ASSUME OrgKeyInit PROVE OrgKeyInv
  OBVIOUS
<1> USE ConfigsAre, Scopes
<1>1. /\ \A x \in Scope, n \in OrgName : orgFiles[x][n] = NoOrg
      /\ \A p \in Process : users[p] = IdleUser
      /\ \A s \in Server : hub[s] = "free"
  BY DEF OrgKeyInit
<1>2. IdleUser \in UserState /\ IdleUser.config = NoOrg /\ IdleUser.base = NoOrg /\ IdleUser.pc = "idle" /\ IdleUser.scope = "local"
  BY DEF IdleUser, UserState
<1>3. KeyTyped
  <2>1. orgFiles \in Files /\ users \in [Process -> UserState]
    BY <1>2 DEF OrgKeyInit, Files
  <2>2. clobbered \in BOOLEAN
    BY Zenon DEF OrgKeyInit
  <2>3. orgCommands \in 0..MaxOrgCommands
    <3>1. orgCommands = 0
      BY DEF OrgKeyInit
    <3> QED BY <3>1, OrgAssumption
  <2>4. hub \in [Server -> {"free", "live", "expired", "deleted"}]
    BY DEF OrgKeyInit
  <2> QED BY <2>1, <2>2, <2>3, <2>4 DEF OrgKeyInit, KeyTyped
<1>4. KeyFits
  BY <1>1, <1>2 DEF KeyFits, FilesFit, UserFits, Pending
<1>5. ServersFit
  <2>1. \A s \in Server : s # 0
    BY ServersAre
  <2> QED BY <1>1, <1>2, <2>1 DEF ServersFit, OneName, HeldAs, FreeUnheld, PendingAlone, Pending, AllExplained, NoneDeleted
<1>6. DefaultFits
  BY <1>1 DEF DefaultFits, FlagsWithin, OrgKeyInit
<1> QED BY <1>3, <1>4, <1>5, <1>6 DEF OrgKeyInv

-----------------------------------------------------------------------------
\* What one save does to the files.
LEMMA Saved ==
  ASSUME NEW fs \in Files, NEW s \in Scope, NEW n \in OrgName, NEW c \in OrgConfig
  PROVE  /\ save(fs, s, n, c) \in Files
         /\ \A x \in Scope, m \in OrgName : save(fs, s, n, c)[x][m] = IF x = s /\ m = n THEN c ELSE fs[x][m]
BY DEF save, Files

LEMMA SavedFit ==
  ASSUME NEW fs \in Files, FilesFit(fs), NEW s \in Scope, NEW n \in OrgName, NEW c \in OrgConfig, ConfigFits(c),
         s = "global" => c.kind # "scratch"
  PROVE  FilesFit(save(fs, s, n, c))
BY Saved, Scopes DEF FilesFit

\* The org of a name.
LEMMA Got ==
  ASSUME NEW fs \in Files, FilesFit(fs), NEW n \in OrgName
  PROVE  /\ ScopeOf(fs, n) \in Scope /\ get_org(fs, n) = fs[ScopeOf(fs, n)][n] /\ get_org(fs, n) \in OrgConfig
         /\ ConfigFits(get_org(fs, n))
         /\ get_org(fs, n).kind = "scratch" => ScopeOf(fs, n) = "local"
         /\ get_org(fs, n).server # 0 => ScopeOf(fs, n) = "local"
         /\ ScopeOf(fs, n) = "global" => fs["local"][n].kind = "none" /\ fs["local"][n].server = 0 /\ ~fs["local"][n].flag
         /\ get_org(fs, n).kind = "none" => fs["local"][n].kind = "none" /\ fs["global"][n].kind = "none"
BY Scopes DEF ScopeOf, get_org, Files, FilesFit, ConfigFits

\* Two sets of files with the same servers.
SameServers(gs, fs) == \A n \in OrgName : gs["local"][n].server = fs["local"][n].server
FewerFlags(gs, fs) == \A x \in Scope, n \in OrgName : gs[x][n].flag => fs[x][n].flag

LEMMA Loaded ==
  ASSUME KeyTyped, KeyFits
  PROVE  LET fs == _load_scratch_orgs IN
         fs \in Files /\ FilesFit(fs) /\ SameServers(fs, orgFiles) /\ FewerFlags(fs, orgFiles)
<1> DEFINE fs == _load_scratch_orgs
<1>1. orgFiles \in Files /\ FilesFit(orgFiles)
  BY DEF KeyTyped, KeyFits
<1>2. \A x \in Scope, n \in OrgName :
        fs[x][n] = IF x = "local" /\ n \in Predefined \ list_orgs(orgFiles) THEN Fresh ELSE orgFiles[x][n]
  BY <1>1, Scopes DEF _load_scratch_orgs, Files
<1>3. fs \in Files
  BY <1>1, ConfigsAre DEF _load_scratch_orgs, Files
<1>4. \A n \in OrgName : n \notin list_orgs(orgFiles) =>
        orgFiles["local"][n].kind = "none" /\ orgFiles["local"][n].server = 0
  BY <1>1, Got DEF list_orgs, FilesFit, ConfigFits
<1>5. FilesFit(fs)
  BY <1>1, <1>2, ConfigsAre, Scopes DEF FilesFit
<1>6. SameServers(fs, orgFiles)
  BY <1>2, <1>4, ConfigsAre, Scopes DEF SameServers
<1>7. FewerFlags(fs, orgFiles)
  BY <1>2, ConfigsAre, Scopes DEF FewerFlags
<1> QED BY <1>3, <1>5, <1>6, <1>7

\* The flags cleared, and one set.
HiddenOf(fs) == {n \in OrgName : fs["local"][n].kind # "none" /\ fs["global"][n].flag}

LEMMA Unflagged ==
  ASSUME NEW c \in OrgConfig
  PROVE  LET d == [c EXCEPT !.flag = FALSE] IN
         d \in OrgConfig /\ d.kind = c.kind /\ d.server = c.server /\ ~d.flag
BY DEF OrgConfig

LEMMA Unset ==
  ASSUME NEW fs \in Files, FilesFit(fs)
  PROVE  LET gs == unset_default_org(fs) IN
         /\ gs \in Files /\ FilesFit(gs) /\ SameServers(gs, fs) /\ FewerFlags(gs, fs)
         /\ FlagsWithin(gs, HiddenOf(gs))
         /\ \A x \in Scope, n \in OrgName : gs[x][n].kind = fs[x][n].kind
         /\ \A n \in OrgName : ScopeOf(gs, n) = ScopeOf(fs, n)
<1> DEFINE gs == unset_default_org(fs)
<1>1. \A x \in Scope, n \in OrgName :
        gs[x][n] = IF x = ScopeOf(fs, n) THEN [fs[x][n] EXCEPT !.flag = FALSE] ELSE fs[x][n]
  BY DEF unset_default_org
<1>2. \A x \in Scope, n \in OrgName : fs[x][n] \in OrgConfig
  BY DEF Files
<1>3. \A x \in Scope, n \in OrgName :
        /\ gs[x][n] \in OrgConfig /\ gs[x][n].kind = fs[x][n].kind /\ gs[x][n].server = fs[x][n].server
        /\ (gs[x][n].flag => fs[x][n].flag) /\ (x = ScopeOf(fs, n) => ~gs[x][n].flag)
  <2> SUFFICES ASSUME NEW x \in Scope, NEW n \in OrgName
               PROVE  /\ gs[x][n] \in OrgConfig /\ gs[x][n].kind = fs[x][n].kind /\ gs[x][n].server = fs[x][n].server
                      /\ (gs[x][n].flag => fs[x][n].flag) /\ (x = ScopeOf(fs, n) => ~gs[x][n].flag)
    OBVIOUS
  <2> HIDE DEF gs
  <2>1. CASE x = ScopeOf(fs, n)
    <3>1. gs[x][n] = [fs[x][n] EXCEPT !.flag = FALSE]
      BY <1>1, <2>1
    <3> QED BY <1>2, <3>1, Unflagged
  <2>2. CASE x # ScopeOf(fs, n)
    BY <1>1, <1>2, <2>2
  <2> QED BY <2>1, <2>2
<1>4. gs \in Files
  BY <1>1, <1>3 DEF Files, unset_default_org
<1> HIDE DEF gs
<1>5. FilesFit(gs)
  BY <1>3, Scopes DEF FilesFit, ConfigFits
<1>6. \A n \in OrgName : ScopeOf(gs, n) = ScopeOf(fs, n)
  BY <1>3, Scopes DEF ScopeOf
<1>7. FlagsWithin(gs, HiddenOf(gs))
  <2> SUFFICES ASSUME NEW x \in Scope, NEW n \in OrgName, gs[x][n].flag PROVE n \in HiddenOf(gs)
    BY DEF FlagsWithin
  <2>1. x # ScopeOf(fs, n)
    BY <1>3
  <2>2. CASE x = "local"
    BY <1>3, <2>1, <2>2, Scopes DEF ScopeOf, FilesFit, ConfigFits
  <2>3. CASE x = "global"
    BY <1>3, <2>1, <2>3, Scopes DEF ScopeOf, HiddenOf
  <2> QED BY <2>2, <2>3, Scopes
<1>8. SameServers(gs, fs) /\ FewerFlags(gs, fs)
  BY <1>3, Scopes DEF SameServers, FewerFlags
<1> QED BY <1>3, <1>4, <1>5, <1>6, <1>7, <1>8 DEF gs

LEMMA FlaggedIs ==
  ASSUME NEW fs \in Files, FilesFit(fs), NEW n \in OrgName, get_org(fs, n).kind # "none"
  PROVE  LET gs == Flagged(fs, n) IN
         gs \in Files /\ FilesFit(gs) /\ SameServers(gs, fs) /\ FlagsWithin(gs, {n} \cup HiddenOf(gs))
<1> DEFINE us == unset_default_org(fs)
           c == [get_org(fs, n) EXCEPT !.flag = TRUE]
           gs == Flagged(fs, n)
<1>1. /\ us \in Files /\ FilesFit(us) /\ SameServers(us, fs) /\ FlagsWithin(us, HiddenOf(us))
      /\ \A x \in Scope, m \in OrgName : us[x][m].kind = fs[x][m].kind
  BY Unset
<1>2. /\ ScopeOf(fs, n) \in Scope /\ get_org(fs, n) \in OrgConfig /\ ConfigFits(get_org(fs, n))
      /\ get_org(fs, n) = fs[ScopeOf(fs, n)][n] /\ (get_org(fs, n).kind = "scratch" => ScopeOf(fs, n) = "local")
  BY Got
<1>3. c \in OrgConfig /\ c.kind = get_org(fs, n).kind /\ c.server = get_org(fs, n).server /\ ConfigFits(c)
  BY <1>2 DEF OrgConfig, ConfigFits
<1> HIDE DEF us, c
<1>4. gs = save(us, ScopeOf(fs, n), n, c)
  BY DEF Flagged, us, c
<1> HIDE DEF gs
<1>5. /\ gs \in Files
      /\ \A x \in Scope, m \in OrgName : gs[x][m] = IF x = ScopeOf(fs, n) /\ m = n THEN c ELSE us[x][m]
  BY <1>1, <1>2, <1>3, <1>4, Saved
<1>6. FilesFit(gs)
  BY <1>1, <1>2, <1>3, <1>4, SavedFit, Scopes
<1>7. \A x \in Scope, m \in OrgName : gs[x][m].kind = fs[x][m].kind
  BY <1>1, <1>2, <1>3, <1>5
<1>8. SameServers(gs, fs)
  BY <1>1, <1>2, <1>3, <1>5, Scopes DEF SameServers
<1>9. FlagsWithin(gs, {n} \cup HiddenOf(gs))
  <2> SUFFICES ASSUME NEW x \in Scope, NEW m \in OrgName, gs[x][m].flag, m # n PROVE m \in HiddenOf(gs)
    BY DEF FlagsWithin
  <2>1. \A y \in Scope : gs[y][m] = us[y][m]
    BY <1>5
  <2>2. m \in HiddenOf(us)
    BY <1>1, <2>1 DEF FlagsWithin
  <2> QED BY <2>1, <2>2, Scopes DEF HiddenOf
<1> QED BY <1>5, <1>6, <1>8, <1>9 DEF gs

\* Every command writes over the files as loaded, which have the servers they had.
FewerServers(gs, fs) ==
  \A n \in OrgName : gs["local"][n].server = fs["local"][n].server \/ gs["local"][n].server = 0

\* What may happen to the servers while the processes stand still: some expire, and those of
\* files are deleted.
HubMoves(k, h, fs) ==
  \A s \in Server : /\ k[s] = "free" => h[s] = "free"
                    /\ k[s] = "live" => h[s] = "live"
                    /\ k[s] = "deleted" => h[s] = "deleted" \/ \E n \in OrgName : fs["local"][n].server = s

ServersAlone(fs, us, h, sh) == OneName(fs, us, sh) /\ FreeUnheld(fs, us, h) /\ PendingAlone(fs, us, h, sh)

\* The servers of processes that are to save are servers.
PendingAreServers(us) == \A p \in Process : Pending(us[p]) => us[p].config.server \in Server

LEMMA PendingServers ==
  ASSUME NEW us \in [Process -> UserState], \A p \in Process : UserFits(us[p])
  PROVE  PendingAreServers(us)
<1> SUFFICES ASSUME NEW p \in Process, Pending(us[p]) PROVE us[p].config.server \in Server
  BY DEF PendingAreServers
<1>1. us[p].config.server # 0 /\ us[p] \in UserState
  BY DEF UserFits
<1>2. us[p].config.server \in 0..MaxServers
  BY <1>1 DEF UserState, OrgConfig
<1> QED BY <1>1, <1>2, ServersAre

LEMMA FewerAlone ==
  ASSUME NEW fs, NEW gs, FewerServers(gs, fs), NEW us, PendingAreServers(us), NEW h, NEW k, HubMoves(k, h, fs),
         NEW sh, ServersAlone(fs, us, h, sh)
  PROVE  ServersAlone(gs, us, k, sh)
<1>1. \A s \in Server, n \in OrgName : gs["local"][n].server = s => fs["local"][n].server = s
  BY ServersAre DEF FewerServers
<1>2. OneName(gs, us, sh)
  <2>1. \A s \in Server, n \in OrgName : HeldAs(gs, us, n, s) => HeldAs(fs, us, n, s)
    BY <1>1 DEF HeldAs
  <2> QED BY <2>1 DEF ServersAlone, OneName
<1>3. FreeUnheld(gs, us, k)
  BY <1>1 DEF ServersAlone, FreeUnheld, HubMoves
<1>4. PendingAlone(gs, us, k, sh)
  <2> SUFFICES ASSUME NEW p \in Process, Pending(us[p]), us[p].config.server \notin sh
               PROVE  /\ k[us[p].config.server] # "deleted"
                      /\ \A n \in OrgName : gs["local"][n].server # us[p].config.server
                      /\ \A q \in Process \ {p} : us[q].config.server # us[p].config.server
    BY DEF PendingAlone
  <2>1. us[p].config.server \in Server
    BY DEF PendingAreServers
  <2>2. /\ h[us[p].config.server] # "deleted"
        /\ \A n \in OrgName : fs["local"][n].server # us[p].config.server
        /\ \A q \in Process \ {p} : us[q].config.server # us[p].config.server
    BY DEF ServersAlone, PendingAlone
  <2> QED BY <1>1, <2>1, <2>2 DEF HubMoves
<1> QED BY <1>2, <1>3, <1>4 DEF ServersAlone

LEMMA FewerExplained ==
  ASSUME NEW fs, NEW gs, NEW us, NEW h, NEW k, HubMoves(k, h, fs), NEW ex, NEW dx, ex \subseteq dx,
         \A n \in OrgName : \A s \in Server :
           fs["local"][n].server = s /\ k[s] = "live" => gs["local"][n].server = s \/ s \in dx,
         AllExplained(fs, us, h, ex)
  PROVE  AllExplained(gs, us, k, dx)
<1> SUFFICES ASSUME NEW s \in Server, k[s] = "live" PROVE Explained(s, gs, us, dx)
  BY DEF AllExplained
<1>1. Explained(s, fs, us, ex)
  BY DEF HubMoves, AllExplained
<1> QED BY <1>1 DEF Explained

LEMMA FewerDeleted ==
  ASSUME NEW fs, NEW gs, FewerServers(gs, fs), NEW h, NEW k, NEW sh, NoneDeleted(fs, h, sh),
         \A n \in OrgName : gs["local"][n].server \notin {0} \cup sh /\ k[gs["local"][n].server] = "deleted" =>
           h[gs["local"][n].server] = "deleted"
  PROVE  NoneDeleted(gs, k, sh)
BY DEF NoneDeleted, FewerServers

\* A step that only moves files and servers keeps what is said of the servers.
LEMMA FilesMove ==
  ASSUME OrgKeyInv, UNCHANGED <<users, clobbered, shared>>, FewerServers(orgFiles', orgFiles), HubMoves(hub', hub, orgFiles),
         excused \subseteq excused',
         \A n \in OrgName : \A s \in Server :
           orgFiles["local"][n].server = s /\ hub'[s] = "live" => orgFiles'["local"][n].server = s \/ s \in excused',
         \A n \in OrgName :
           orgFiles'["local"][n].server \notin {0} \cup shared /\ hub'[orgFiles'["local"][n].server] = "deleted" =>
             hub[orgFiles'["local"][n].server] = "deleted"
  PROVE  ServersFit'
<1>1. /\ OneName(orgFiles, users, shared) /\ FreeUnheld(orgFiles, users, hub) /\ PendingAlone(orgFiles, users, hub, shared)
      /\ AllExplained(orgFiles, users, hub, excused) /\ (~clobbered => NoneDeleted(orgFiles, hub, shared))
  BY DEF OrgKeyInv, ServersFit
<1>2. PendingAreServers(users)
  BY PendingServers DEF OrgKeyInv, KeyTyped, KeyFits
<1>3. ServersAlone(orgFiles', users, hub', shared)
  BY <1>1, <1>2, FewerAlone DEF ServersAlone
<1>4. AllExplained(orgFiles', users, hub', excused')
  BY <1>1, FewerExplained
<1>5. ~clobbered => NoneDeleted(orgFiles', hub', shared)
  BY <1>1, FewerDeleted
<1>6. users' = users /\ clobbered' = clobbered /\ shared' = shared
  OBVIOUS
<1> QED BY <1>3, <1>4, <1>5, <1>6 DEF ServersFit, ServersAlone

\* One that moves only files, each with its server, moves no servers.
LEMMA FilesOnly ==
  ASSUME OrgKeyInv, UNCHANGED <<users, clobbered, shared, hub, excused>>, SameServers(orgFiles', orgFiles)
  PROVE  ServersFit'
<1>1. FewerServers(orgFiles', orgFiles)
  BY DEF SameServers, FewerServers
<1>2. HubMoves(hub', hub, orgFiles)
  BY DEF HubMoves
<1>3. \A n \in OrgName : \A s \in Server :
        orgFiles["local"][n].server = s /\ hub'[s] = "live" => orgFiles'["local"][n].server = s \/ s \in excused'
  BY DEF SameServers
<1> QED BY <1>1, <1>2, <1>3, FilesMove

\* No flag was set.
LEMMA FlagsKept ==
  ASSUME OrgKeyInv, UNCHANGED chosen, hidden \subseteq hidden',
         clobbered' \/ FewerFlags(orgFiles', orgFiles), clobbered => clobbered', defaultOrg' \in {defaultOrg, ""}
  PROVE  DefaultFits'
<1> SUFFICES ASSUME ~clobbered'
             PROVE  /\ FlagsWithin(orgFiles', chosen' \cup hidden')
                    /\ defaultOrg' # "" => defaultOrg' \in chosen' \cup hidden'
  BY DEF DefaultFits
<1>1. FlagsWithin(orgFiles, chosen \cup hidden) /\ (defaultOrg # "" => defaultOrg \in chosen \cup hidden)
  BY DEF OrgKeyInv, DefaultFits
<1>2. FewerFlags(orgFiles', orgFiles)
  OBVIOUS
<1>3. FlagsWithin(orgFiles', chosen' \cup hidden')
  BY <1>1, <1>2 DEF FlagsWithin, FewerFlags
<1> QED BY <1>1, <1>3

-----------------------------------------------------------------------------
\* The commands.
HubState == [Server -> {"free", "live", "expired", "deleted"}]
Grows == hidden' = hidden \cup HiddenOf(orgFiles')

LEMMA CommandCounted ==
  ASSUME OrgKeyInv, Command
  PROVE  orgCommands' \in 0..MaxOrgCommands
<1>1. orgCommands \in 0..MaxOrgCommands
  BY DEF OrgKeyInv, KeyTyped
<1>2. orgCommands < MaxOrgCommands /\ orgCommands' = orgCommands + 1
  BY DEF Command
<1> QED BY <1>1, <1>2, OrgAssumption

LEMMA CommandTyped ==
  ASSUME OrgKeyInv, Grows, Command, orgFiles' \in Files, defaultOrg' \in OrgName \cup {""}, chosen' \subseteq OrgName,
         users' \in [Process -> UserState], hub' \in HubState, excused' \subseteq Server, shared' \subseteq Server,
         UNCHANGED clobbered
  PROVE  KeyTyped'
<1>1. orgCommands' \in 0..MaxOrgCommands
  BY CommandCounted
<1>2. clobbered' \in BOOLEAN
  BY Zenon DEF OrgKeyInv, KeyTyped
<1>3. hidden' \subseteq OrgName
  BY DEF OrgKeyInv, KeyTyped, Grows, HiddenOf
<1> QED BY <1>1, <1>2, <1>3 DEF KeyTyped, HubState

LEMMA FitsKept ==
  ASSUME OrgKeyInv, FilesFit(orgFiles'), UNCHANGED users
  PROVE  KeyFits'
BY DEF OrgKeyInv, KeyFits

\* The state a command finds, and what all commands do first.
LEMMA OrgFound ==
  ASSUME OrgKeyInv
  PROVE  /\ orgFiles \in Files /\ FilesFit(orgFiles) /\ users \in [Process -> UserState] /\ hub \in HubState
         /\ defaultOrg \in OrgName \cup {""} /\ chosen \subseteq OrgName /\ excused \subseteq Server
         /\ shared \subseteq Server
         /\ _load_scratch_orgs \in Files /\ FilesFit(_load_scratch_orgs)
         /\ SameServers(_load_scratch_orgs, orgFiles) /\ FewerFlags(_load_scratch_orgs, orgFiles)
BY Loaded DEF OrgKeyInv, KeyTyped, KeyFits, HubState

LEMMA FileServer ==
  ASSUME OrgKeyInv, NEW n \in OrgName
  PROVE  /\ orgFiles["local"][n] \in OrgConfig /\ orgFiles["local"][n].server \in 0..MaxServers
         /\ orgFiles["local"][n].server # 0 => orgFiles["local"][n].server \in Server
<1>1. orgFiles["local"][n] \in OrgConfig
  BY OrgFound, Scopes DEF Files
<1>2. orgFiles["local"][n].server \in 0..MaxServers
  BY <1>1 DEF OrgConfig
<1> QED BY <1>1, <1>2, ServersAre

\* Files written without a change of servers or a new flag.
LEMMA FilesWritten ==
  ASSUME OrgKeyInv, Grows, Command, orgFiles' \in Files, FilesFit(orgFiles'), SameServers(orgFiles', orgFiles),
         FewerFlags(orgFiles', orgFiles), defaultOrg' \in {defaultOrg, ""},
         UNCHANGED <<chosen, users, hub, excused, clobbered, shared>>
  PROVE  OrgKeyInv'
<1>1. KeyTyped'
  BY OrgFound, CommandTyped
<1>2. KeyFits'
  BY FitsKept
<1>3. ServersFit'
  BY FilesOnly
<1>4. DefaultFits'
  BY FlagsKept DEF Grows
<1> QED BY <1>1, <1>2, <1>3, <1>4 DEF OrgKeyInv

\* The flags are of the name chosen, or hidden.
LEMMA FlagsOfChosen ==
  ASSUME OrgKeyInv, Grows, Command, orgFiles' \in Files, FilesFit(orgFiles'), SameServers(orgFiles', orgFiles),
         chosen' \subseteq OrgName,
         ~clobbered => FlagsWithin(orgFiles', chosen' \cup HiddenOf(orgFiles')),
         defaultOrg' \in OrgName \cup {""}, ~clobbered /\ defaultOrg' # "" => defaultOrg' \in chosen' \cup hidden',
         UNCHANGED <<users, hub, excused, clobbered, shared>>
  PROVE  OrgKeyInv'
<1>1. KeyTyped'
  BY OrgFound, CommandTyped
<1>2. KeyFits'
  BY FitsKept
<1>3. ServersFit'
  BY FilesOnly
<1>4. DefaultFits'
  <2> SUFFICES ASSUME ~clobbered' PROVE FlagsWithin(orgFiles', chosen' \cup hidden')
    BY DEF DefaultFits
  <2>1. FlagsWithin(orgFiles', chosen' \cup HiddenOf(orgFiles'))
    OBVIOUS
  <2> QED BY <2>1 DEF Grows, FlagsWithin
<1> QED BY <1>1, <1>2, <1>3, <1>4 DEF OrgKeyInv

LEMMA SameServersTwice ==
  ASSUME NEW fs, NEW gs, NEW hs, SameServers(gs, fs), SameServers(hs, gs)
  PROVE  SameServers(hs, fs)
BY DEF SameServers

LEMMA DefaultSet ==
  ASSUME OrgKeyInv, Grows, Command, NEW fs \in Files, FilesFit(fs), SameServers(fs, orgFiles), NEW n \in OrgName,
         get_org(fs, n).kind # "none", SetDefault(fs, n), UNCHANGED <<users, hub, excused, clobbered, shared>>
  PROVE  OrgKeyInv'
<1>1. CASE orgFiles' = Flagged(fs, n) /\ defaultOrg' \in {n, ""} /\ chosen' = {n}
  <2>1. orgFiles' \in Files /\ FilesFit(orgFiles') /\ SameServers(orgFiles', fs) /\ FlagsWithin(orgFiles', {n} \cup HiddenOf(orgFiles'))
    BY <1>1, FlaggedIs
  <2>2. SameServers(orgFiles', orgFiles)
    BY <2>1, SameServersTwice
  <2> QED BY <1>1, <2>1, <2>2, FlagsOfChosen
<1>2. CASE orgFiles' = unset_default_org(fs) /\ defaultOrg' = "" /\ chosen' = {}
  <2>1. orgFiles' \in Files /\ FilesFit(orgFiles') /\ SameServers(orgFiles', fs) /\ FlagsWithin(orgFiles', HiddenOf(orgFiles'))
    BY <1>2, Unset
  <2>2. SameServers(orgFiles', orgFiles)
    BY <2>1, SameServersTwice
  <2>3. FlagsWithin(orgFiles', chosen' \cup HiddenOf(orgFiles'))
    BY <1>2, <2>1
  <2> QED BY <1>2, <2>1, <2>2, <2>3, FlagsOfChosen
<1> QED BY <1>1, <1>2 DEF SetDefault

\* A new org under a free name.
LEMMA NewOrg ==
  ASSUME OrgKeyInv, Grows, Command, NEW n \in OrgName, check_org_overwrite(n), NEW s \in Scope,
         NEW c \in OrgConfig, ConfigFits(c), s = "global" => c.kind # "scratch", c.server = 0, ~c.flag, c.kind # "none",
         MayBeDefault(save(_load_scratch_orgs, s, n, c), n), UNCHANGED <<users, hub, excused, clobbered, shared>>
  PROVE  OrgKeyInv'
<1> DEFINE fs == _load_scratch_orgs
           gs == save(fs, s, n, c)
<1>1. fs \in Files /\ FilesFit(fs) /\ SameServers(fs, orgFiles) /\ FewerFlags(fs, orgFiles)
  BY OrgFound
<1>2. get_org(fs, n).kind = "none" \/ (get_org(fs, n).kind = "scratch" /\ get_org(fs, n).server = 0)
  BY DEF check_org_overwrite
<1> HIDE DEF fs
<1>3. fs["local"][n].server = 0
  <2>1. CASE get_org(fs, n).kind = "none"
    BY <1>1, <2>1, Got, Scopes DEF FilesFit, ConfigFits
  <2>2. CASE get_org(fs, n).kind = "scratch" /\ get_org(fs, n).server = 0
    BY <1>1, <2>2, Got
  <2> QED BY <1>2, <2>1, <2>2
<1>4. gs \in Files /\ \A x \in Scope, m \in OrgName : gs[x][m] = IF x = s /\ m = n THEN c ELSE fs[x][m]
  BY <1>1, Saved
<1>5. FilesFit(gs)
  BY <1>1, SavedFit
<1>6. MayBeDefault(gs, n)
  BY DEF fs
<1> HIDE DEF gs
<1>7. SameServers(gs, orgFiles)
  BY <1>1, <1>3, <1>4, Scopes DEF SameServers
<1>8. FewerFlags(gs, orgFiles)
  BY <1>1, <1>4 DEF FewerFlags
<1>9. get_org(gs, n).kind # "none"
  BY <1>4, Scopes DEF get_org, ScopeOf
<1>10. CASE SetDefault(gs, n)
  BY <1>4, <1>5, <1>7, <1>9, <1>10, DefaultSet
<1>11. CASE orgFiles' = gs /\ UNCHANGED <<defaultOrg, chosen>>
  BY <1>4, <1>5, <1>7, <1>8, <1>11, FilesWritten
<1> QED BY <1>6, <1>10, <1>11 DEF MayBeDefault

LEMMA ScratchStep == ASSUME OrgKeyInv, Grows, NEW n \in OrgName, org_scratch(n) PROVE OrgKeyInv'
BY NewOrg, ConfigsAre, Scopes DEF org_scratch, create_scratch_org

LEMMA ConnectStep == ASSUME OrgKeyInv, Grows, NEW n \in OrgName, NEW s \in Scope, org_connect(n, s) PROVE OrgKeyInv'
<1> DEFINE c == [kind |-> "persistent", server |-> 0, flag |-> FALSE]
<1>1. c \in OrgConfig /\ ConfigFits(c) /\ c.kind # "scratch" /\ c.server = 0 /\ ~c.flag /\ c.kind # "none"
  BY ServersAre DEF OrgConfig, ConfigFits
<1>2. /\ Command /\ check_org_overwrite(n) /\ MayBeDefault(save(_load_scratch_orgs, s, n, c), n)
      /\ UNCHANGED <<users, hub, excused, clobbered, shared>>
  BY DEF org_connect
<1> HIDE DEF c
<1> QED BY <1>1, <1>2, NewOrg

LEMMA DefaultStep == ASSUME OrgKeyInv, Grows, NEW n \in OrgName, org_default(n) PROVE OrgKeyInv'
<1>1. get_org(_load_scratch_orgs, n).kind # "none"
  BY DEF org_default, list_orgs
<1> QED BY <1>1, OrgFound, DefaultSet DEF org_default

LEMMA UnsetStep == ASSUME OrgKeyInv, Grows, org_default_unset PROVE OrgKeyInv'
<1>1. orgFiles' = unset_default_org(_load_scratch_orgs) /\ defaultOrg' = "" /\ chosen' = {} /\ Command
      /\ UNCHANGED <<users, hub, excused, clobbered, shared>>
  BY DEF org_default_unset
<1>2. /\ orgFiles' \in Files /\ FilesFit(orgFiles') /\ SameServers(orgFiles', _load_scratch_orgs)
      /\ FlagsWithin(orgFiles', HiddenOf(orgFiles'))
  BY <1>1, OrgFound, Unset
<1>3. SameServers(orgFiles', orgFiles)
  BY <1>2, OrgFound, SameServersTwice
<1>4. FlagsWithin(orgFiles', chosen' \cup HiddenOf(orgFiles'))
  BY <1>1, <1>2
<1> QED BY <1>1, <1>2, <1>3, <1>4, FlagsOfChosen

LEMMA AskStep == ASSUME OrgKeyInv, Grows, AskDefault PROVE OrgKeyInv'
<1> DEFINE fs == _load_scratch_orgs
<1>1. fs \in Files /\ FilesFit(fs) /\ SameServers(fs, orgFiles) /\ FewerFlags(fs, orgFiles)
  BY OrgFound
<1>2. Command /\ UNCHANGED <<hub, users, chosen, excused, clobbered, shared>>
  BY DEF AskDefault
<1>3. CASE orgFiles' = fs /\ defaultOrg' \in {defaultOrg, ""}
  BY <1>1, <1>2, <1>3, FilesWritten
<1>4. ASSUME NEW n \in FlaggedOrgs(fs), orgFiles' = Flagged(fs, n), defaultOrg' = n PROVE OrgKeyInv'
  <2>1. n \in OrgName /\ get_org(fs, n).kind # "none" /\ get_org(fs, n).flag
    BY <1>4 DEF FlaggedOrgs, list_orgs
  <2> HIDE DEF fs
  <2>2. ~clobbered => n \in chosen \cup hidden
    <3>1. ScopeOf(fs, n) \in Scope /\ fs[ScopeOf(fs, n)][n].flag
      BY <1>1, <2>1, Got
    <3>2. orgFiles[ScopeOf(fs, n)][n].flag
      BY <1>1, <2>1, <3>1 DEF FewerFlags
    <3>3. ~clobbered => FlagsWithin(orgFiles, chosen \cup hidden)
      BY DEF OrgKeyInv, DefaultFits
    <3> QED BY <2>1, <3>1, <3>2, <3>3 DEF FlagsWithin
  <2>3. /\ orgFiles' \in Files /\ FilesFit(orgFiles') /\ SameServers(orgFiles', fs)
        /\ FlagsWithin(orgFiles', {n} \cup HiddenOf(orgFiles'))
    BY <1>1, <1>4, <2>1, FlaggedIs
  <2>4. SameServers(orgFiles', orgFiles)
    BY <1>1, <2>3, SameServersTwice
  <2>5. KeyTyped'
    BY <1>2, <1>4, <2>1, <2>3, OrgFound, CommandTyped
  <2>6. KeyFits'
    BY <1>2, <2>3, FitsKept
  <2>7. ServersFit'
    BY <1>2, <2>4, FilesOnly
  <2>8. DefaultFits'
    BY <1>2, <1>4, <2>2, <2>3 DEF DefaultFits, Grows, FlagsWithin
  <2> QED BY <2>5, <2>6, <2>7, <2>8 DEF OrgKeyInv
<1> QED BY <1>3, <1>4 DEF AskDefault

\* A server in the files has one name.
LEMMA OneHolder ==
  ASSUME OrgKeyInv, NEW n \in OrgName, NEW m \in OrgName, NEW s \in Server,
         s \notin shared, orgFiles["local"][n].server = s, orgFiles["local"][m].server = s
  PROVE  n = m
BY DEF OrgKeyInv, ServersFit, OneName, HeldAs

LEMMA ServersMoved ==
  ASSUME OrgKeyInv, Grows, Command, orgFiles' \in Files, FilesFit(orgFiles'), FewerFlags(orgFiles', orgFiles),
         hub' \in HubState, excused' \subseteq Server, shared' \subseteq Server, ServersFit',
         UNCHANGED <<defaultOrg, chosen, users, clobbered>>
  PROVE  OrgKeyInv'
<1>1. KeyTyped'
  BY OrgFound, CommandTyped
<1>2. KeyFits'
  BY FitsKept
<1>3. DefaultFits'
  BY FlagsKept DEF Grows
<1> QED BY <1>1, <1>2, <1>3 DEF OrgKeyInv

LEMMA LiveIs == ASSUME NEW c PROVE \A s \in Server : s \in Live(c) <=> s = c.server /\ hub[s] = "live"
BY DEF Live

\* Files of which some orgs lost their servers, and their files.
LEMMA ServersDropped ==
  ASSUME OrgKeyInv, Grows, Command, orgFiles' \in Files, FilesFit(orgFiles'), FewerFlags(orgFiles', orgFiles),
         FewerServers(orgFiles', orgFiles), excused \subseteq excused', excused' \subseteq Server,
         \A n \in OrgName : orgFiles'["local"][n].server = orgFiles["local"][n].server
                            \/ Live(orgFiles["local"][n]) \subseteq excused',
         UNCHANGED <<defaultOrg, hub, chosen, users, clobbered, shared>>
  PROVE  OrgKeyInv'
<1>1. HubMoves(hub', hub, orgFiles)
  BY DEF HubMoves
<1>2. \A n \in OrgName : \A s \in Server :
        orgFiles["local"][n].server = s /\ hub'[s] = "live" => orgFiles'["local"][n].server = s \/ s \in excused'
  BY LiveIs
<1>3. ServersFit'
  BY <1>1, <1>2, FilesMove
<1> QED BY <1>3, OrgFound, ServersMoved

\* The same, with the server of one org deleted.
LEMMA ServerDeleted ==
  ASSUME OrgKeyInv, Grows, Command, orgFiles' \in Files, FilesFit(orgFiles'), FewerFlags(orgFiles', orgFiles),
         FewerServers(orgFiles', orgFiles), NEW n \in OrgName, NEW t \in Server, orgFiles["local"][n].server = t,
         hub' = [hub EXCEPT ![t] = "deleted"], orgFiles'["local"][n].server = 0,
         \A m \in OrgName : m # n => orgFiles'["local"][m].server = orgFiles["local"][m].server,
         UNCHANGED <<defaultOrg, chosen, users, excused, clobbered, shared>>
  PROVE  OrgKeyInv'
<1>1. hub \in HubState
  BY OrgFound
<1>2. hub' \in HubState /\ \A s \in Server : hub'[s] = IF s = t THEN "deleted" ELSE hub[s]
  BY <1>1 DEF HubState
<1>3. HubMoves(hub', hub, orgFiles)
  BY <1>2 DEF HubMoves
<1>4. \A m \in OrgName : \A s \in Server :
        orgFiles["local"][m].server = s /\ hub'[s] = "live" => orgFiles'["local"][m].server = s \/ s \in excused'
  BY <1>2
<1>5. \A m \in OrgName :
        orgFiles'["local"][m].server \notin {0} \cup shared /\ hub'[orgFiles'["local"][m].server] = "deleted" =>
          hub[orgFiles'["local"][m].server] = "deleted"
  <2> SUFFICES ASSUME NEW m \in OrgName, orgFiles'["local"][m].server \notin {0} \cup shared
               PROVE  orgFiles'["local"][m].server \in Server /\ orgFiles'["local"][m].server # t
    BY <1>2
  <2>1. m # n /\ orgFiles'["local"][m].server = orgFiles["local"][m].server
    OBVIOUS
  <2>2. orgFiles["local"][m].server \in 0..MaxServers
    BY FileServer
  <2>3. orgFiles["local"][m].server \in Server
    BY <2>1, <2>2, ServersAre
  <2> QED BY <2>1, <2>3, OneHolder
<1>6. ServersFit'
  BY <1>3, <1>4, <1>5, FilesMove
<1>7. excused' \subseteq Server /\ shared' \subseteq Server
  BY OrgFound
<1> QED BY <1>2, <1>6, <1>7, ServersMoved

LEMMA Servers ==
  ASSUME OrgKeyInv
  PROVE  /\ OneName(orgFiles, users, shared) /\ FreeUnheld(orgFiles, users, hub) /\ PendingAlone(orgFiles, users, hub, shared)
         /\ AllExplained(orgFiles, users, hub, excused) /\ (~clobbered => NoneDeleted(orgFiles, hub, shared))
         /\ PendingAreServers(users)
BY PendingServers DEF OrgKeyInv, ServersFit, KeyTyped, KeyFits

\* A scratch org imported: its name is the only one, or it is shared from now on.
LEMMA ImportedOrg ==
  ASSUME OrgKeyInv, Grows, NEW n \in OrgName, NEW t \in Server, Command, hub[t] # "deleted",
         hub' = [hub EXCEPT ![t] = IF @ = "free" THEN "live" ELSE @],
         orgFiles' = save(_load_scratch_orgs, "local", n, [kind |-> "scratch", server |-> t, flag |-> FALSE]),
         excused' = excused \cup (Live(_load_scratch_orgs["local"][n]) \ {t}),
         shared' = IF NamedElsewhere(_load_scratch_orgs, n, t) THEN shared \cup {t} ELSE shared,
         UNCHANGED <<defaultOrg, users, chosen, clobbered>>
  PROVE  OrgKeyInv'
<1> DEFINE fs == _load_scratch_orgs
           c == [kind |-> "scratch", server |-> t, flag |-> FALSE]
<1>3. fs \in Files /\ FilesFit(fs) /\ SameServers(fs, orgFiles) /\ FewerFlags(fs, orgFiles)
  BY OrgFound
<1>4. c \in OrgConfig /\ ConfigFits(c) /\ c.server = t /\ ~c.flag
  BY ServersAre DEF OrgConfig, ConfigFits
<1>5. /\ orgFiles' = save(fs, "local", n, c) /\ excused' = excused \cup (Live(fs["local"][n]) \ {t})
      /\ shared' = IF NamedElsewhere(fs, n, t) THEN shared \cup {t} ELSE shared
  OBVIOUS
<1> HIDE DEF fs, c
<1>6. orgFiles' \in Files /\ \A x \in Scope, m \in OrgName : orgFiles'[x][m] = IF x = "local" /\ m = n THEN c ELSE fs[x][m]
  <2>1. "local" \in Scope
    BY Scopes
  <2>2. /\ save(fs, "local", n, c) \in Files
        /\ \A x \in Scope, m \in OrgName : save(fs, "local", n, c)[x][m] = IF x = "local" /\ m = n THEN c ELSE fs[x][m]
    BY <1>3, <1>4, <2>1, Saved
  <2> QED BY <1>5, <2>2
<1>7. FilesFit(orgFiles')
  BY <1>3, <1>4, <1>5, Scopes, SavedFit
<1>8. FewerFlags(orgFiles', orgFiles)
  BY <1>3, <1>4, <1>6 DEF FewerFlags
<1>9. /\ hub' \in HubState /\ hub'[t] \notin {"free", "deleted"}
      /\ \A s \in Server : s # t => hub'[s] = hub[s]
  BY OrgFound DEF HubState
<1>10. excused' \subseteq Server /\ shared \subseteq shared' /\ shared' \subseteq Server
  BY <1>5, OrgFound DEF Live
<1>11. \A m \in OrgName : orgFiles'["local"][m].server = IF m = n THEN t ELSE orgFiles["local"][m].server
  BY <1>3, <1>4, <1>6, Scopes DEF SameServers
<1>12. /\ OneName(orgFiles, users, shared) /\ FreeUnheld(orgFiles, users, hub) /\ PendingAlone(orgFiles, users, hub, shared)
       /\ AllExplained(orgFiles, users, hub, excused) /\ (~clobbered => NoneDeleted(orgFiles, hub, shared))
       /\ PendingAreServers(users)
  BY Servers
<1>13. t \notin shared' => /\ \A m \in OrgName \ {n} : orgFiles["local"][m].server # t
                           /\ \A p \in Process : users[p].config.server # t
  <2>1. t \notin shared' => ~NamedElsewhere(fs, n, t)
    BY <1>5
  <2>2. ~NamedElsewhere(fs, n, t) => /\ \A m \in OrgName \ {n} : fs["local"][m].server # t
                                     /\ \A p \in Process : users[p].config.server # t
    BY Scopes DEF NamedElsewhere
  <2> QED BY <2>1, <2>2, <1>3 DEF SameServers
<1>14. OneName(orgFiles', users, shared')
  <2>1. \A s \in Server \ shared', m \in OrgName : HeldAs(orgFiles', users, m, s) =>
          IF s = t THEN m = n ELSE HeldAs(orgFiles, users, m, s)
    BY <1>11, <1>13 DEF HeldAs
  <2> QED BY <2>1, <1>10, <1>12 DEF OneName
<1>15. FreeUnheld(orgFiles', users, hub')
  BY <1>9, <1>11, <1>12 DEF FreeUnheld
<1>16. PendingAlone(orgFiles', users, hub', shared')
  <2> SUFFICES ASSUME NEW p \in Process, Pending(users[p]), users[p].config.server \notin shared'
               PROVE  /\ hub'[users[p].config.server] # "deleted"
                      /\ \A m \in OrgName : orgFiles'["local"][m].server # users[p].config.server
                      /\ \A q \in Process \ {p} : users[q].config.server # users[p].config.server
    BY DEF PendingAlone
  <2>1. users[p].config.server \in Server /\ users[p].config.server # t
    BY <1>12, <1>13 DEF PendingAreServers
  <2> QED BY <2>1, <1>9, <1>10, <1>11, <1>12 DEF PendingAlone
<1>17. AllExplained(orgFiles', users, hub', excused')
  <2> SUFFICES ASSUME NEW s \in Server, hub'[s] = "live" PROVE Explained(s, orgFiles', users, excused')
    BY DEF AllExplained
  <2>1. CASE s = t
    BY <2>1, <1>11 DEF Explained
  <2>2. CASE s # t
    <3>1. Explained(s, orgFiles, users, excused) /\ hub[s] = "live"
      BY <2>2, <1>9, <1>12 DEF AllExplained
    <3>2. CASE orgFiles["local"][n].server = s
      <4>1. s \in Live(fs["local"][n])
        BY <3>1, <3>2, <1>3, LiveIs DEF SameServers
      <4> QED BY <4>1, <2>2, <1>5 DEF Explained
    <3>3. CASE orgFiles["local"][n].server # s
      BY <3>1, <3>3, <1>5, <1>11 DEF Explained
    <3> QED BY <3>2, <3>3
  <2> QED BY <2>1, <2>2
<1>18. ~clobbered => NoneDeleted(orgFiles', hub', shared')
  <2> SUFFICES ASSUME NoneDeleted(orgFiles, hub, shared), NEW m \in OrgName,
                      orgFiles'["local"][m].server \notin {0} \cup shared'
               PROVE  hub'[orgFiles'["local"][m].server] # "deleted"
    BY <1>12 DEF NoneDeleted
  <2>1. CASE m = n
    BY <2>1, <1>9, <1>11
  <2>2. CASE m # n
    <3>1. orgFiles["local"][m].server \in 0..MaxServers
      BY FileServer
    <3> QED BY <2>2, <3>1, <1>9, <1>10, <1>11, ServersAre DEF NoneDeleted
  <2> QED BY <2>1, <2>2
<1>19. ServersFit'
  BY <1>14, <1>15, <1>16, <1>17, <1>18 DEF ServersFit
<1> QED BY <1>6, <1>7, <1>8, <1>9, <1>10, <1>19, ServersMoved

\* Any other org imported: the name no longer has the server it had.
LEMMA ImportedOther ==
  ASSUME OrgKeyInv, Grows, NEW n \in OrgName, Command,
         orgFiles' = save(_load_scratch_orgs, "local", n, [kind |-> "persistent", server |-> 0, flag |-> FALSE]),
         excused' = excused \cup Live(_load_scratch_orgs["local"][n]),
         UNCHANGED <<defaultOrg, hub, users, chosen, clobbered, shared>>
  PROVE  OrgKeyInv'
<1> DEFINE fs == _load_scratch_orgs
           c == [kind |-> "persistent", server |-> 0, flag |-> FALSE]
<1>1. fs \in Files /\ FilesFit(fs) /\ SameServers(fs, orgFiles) /\ FewerFlags(fs, orgFiles) /\ excused \subseteq Server
  BY OrgFound
<1>2. c \in OrgConfig /\ ConfigFits(c) /\ c.server = 0 /\ ~c.flag
  BY ServersAre DEF OrgConfig, ConfigFits
<1>3. orgFiles' = save(fs, "local", n, c) /\ excused' = excused \cup Live(fs["local"][n])
  OBVIOUS
<1> HIDE DEF fs, c
<1>4. orgFiles' \in Files /\ \A x \in Scope, m \in OrgName : orgFiles'[x][m] = IF x = "local" /\ m = n THEN c ELSE fs[x][m]
  BY <1>1, <1>2, <1>3, Scopes, Saved
<1>5. FilesFit(orgFiles')
  BY <1>1, <1>2, <1>3, Scopes, SavedFit
<1>6. FewerFlags(orgFiles', orgFiles)
  BY <1>1, <1>2, <1>4 DEF FewerFlags
<1>7. \A m \in OrgName : orgFiles'["local"][m].server = IF m = n THEN 0 ELSE orgFiles["local"][m].server
  BY <1>1, <1>2, <1>4, Scopes DEF SameServers
<1>8. FewerServers(orgFiles', orgFiles)
  BY <1>7 DEF FewerServers
<1>9. Live(fs["local"][n]) = Live(orgFiles["local"][n])
  BY <1>1 DEF SameServers, Live
<1>10. excused \subseteq excused' /\ excused' \subseteq Server
  BY <1>1, <1>3 DEF Live
<1>11. \A m \in OrgName : orgFiles'["local"][m].server = orgFiles["local"][m].server
                          \/ Live(orgFiles["local"][m]) \subseteq excused'
  BY <1>3, <1>7, <1>9
<1> QED BY <1>4, <1>5, <1>6, <1>8, <1>10, <1>11, ServersDropped

LEMMA ImportStep == ASSUME OrgKeyInv, Grows, NEW n \in OrgName, org_import(n) PROVE OrgKeyInv'
<1>1. Command /\ UNCHANGED <<defaultOrg, users, chosen, clobbered>>
  BY DEF org_import
<1>2. ASSUME NEW t \in Server, hub[t] # "deleted",
             hub' = [hub EXCEPT ![t] = IF @ = "free" THEN "live" ELSE @],
             orgFiles' = save(_load_scratch_orgs, "local", n, [kind |-> "scratch", server |-> t, flag |-> FALSE]),
             excused' = excused \cup (Live(_load_scratch_orgs["local"][n]) \ {t}),
             shared' = IF NamedElsewhere(_load_scratch_orgs, n, t) THEN shared \cup {t} ELSE shared
      PROVE  OrgKeyInv'
  BY <1>1, <1>2, ImportedOrg
<1>3. CASE /\ orgFiles' = save(_load_scratch_orgs, "local", n, [kind |-> "persistent", server |-> 0, flag |-> FALSE])
           /\ excused' = excused \cup Live(_load_scratch_orgs["local"][n]) /\ UNCHANGED <<hub, shared>>
  BY <1>1, <1>3, ImportedOther
<1>4. CASE orgFiles' = _load_scratch_orgs /\ UNCHANGED <<hub, excused, shared>>
  BY <1>1, <1>4, OrgFound, FilesWritten
<1> QED BY <1>2, <1>3, <1>4 DEF org_import

\* The config of a deleted org.
LEMMA DeletedIs ==
  ASSUME NEW c \in OrgConfig, ConfigFits(c)
  PROVE  Deleted(c) \in OrgConfig /\ ConfigFits(Deleted(c)) /\ Deleted(c).server = 0 /\ Deleted(c).flag = c.flag /\ Deleted(c).kind = c.kind
BY ServersAre DEF Deleted, OrgConfig, ConfigFits

\* Files in which the org of a name is deleted.
LEMMA DeletedFile ==
  ASSUME OrgKeyInv, NEW n \in OrgName, Live(get_org(_load_scratch_orgs, n)) # {}
  PROVE  LET fs == _load_scratch_orgs
             gs == save(fs, ScopeOf(fs, n), n, Deleted(get_org(fs, n))) IN
         /\ gs \in Files /\ FilesFit(gs) /\ FewerFlags(gs, orgFiles)
         /\ gs["local"][n].server = 0
         /\ \A m \in OrgName : m # n => gs["local"][m].server = orgFiles["local"][m].server
         /\ get_org(fs, n).server \in Server /\ orgFiles["local"][n].server = get_org(fs, n).server
         /\ ScopeOf(fs, n) = "local"
<1> DEFINE fs == _load_scratch_orgs
           c == get_org(fs, n)
           gs == save(fs, ScopeOf(fs, n), n, Deleted(c))
<1>1. fs \in Files /\ FilesFit(fs) /\ SameServers(fs, orgFiles) /\ FewerFlags(fs, orgFiles)
  BY OrgFound
<1>2. c.server \in Server
  BY LiveIs DEF Live
<1> HIDE DEF fs
<1>3. ScopeOf(fs, n) = "local" /\ c = fs["local"][n] /\ c \in OrgConfig /\ ConfigFits(c)
  BY <1>1, <1>2, Got, ServersAre
<1>4. Deleted(c) \in OrgConfig /\ ConfigFits(Deleted(c)) /\ Deleted(c).server = 0 /\ Deleted(c).flag = c.flag
  BY <1>3, DeletedIs
<1> HIDE DEF c
<1>5. gs \in Files /\ FilesFit(gs) /\ \A x \in Scope, m \in OrgName : gs[x][m] = IF x = "local" /\ m = n THEN Deleted(c) ELSE fs[x][m]
  BY <1>1, <1>3, <1>4, Scopes, Saved, SavedFit
<1> HIDE DEF gs
<1>6. FewerFlags(gs, orgFiles)
  BY <1>1, <1>3, <1>4, <1>5, Scopes DEF FewerFlags
<1>7. gs["local"][n].server = 0 /\ \A m \in OrgName : m # n => gs["local"][m].server = orgFiles["local"][m].server
  BY <1>1, <1>4, <1>5, Scopes DEF SameServers
<1>8. orgFiles["local"][n].server = c.server
  BY <1>1, <1>3 DEF SameServers
<1> QED BY <1>2, <1>3, <1>5, <1>6, <1>7, <1>8 DEF gs, c, fs

LEMMA FewerByZero ==
  ASSUME NEW gs, NEW n \in OrgName, gs["local"][n].server = 0,
         \A m \in OrgName : m # n => gs["local"][m].server = orgFiles["local"][m].server
  PROVE  FewerServers(gs, orgFiles)
BY DEF FewerServers

LEMMA DeleteStep == ASSUME OrgKeyInv, Grows, NEW n \in OrgName, org_scratch_delete(n) PROVE OrgKeyInv'
<1> DEFINE fs == _load_scratch_orgs
           c == get_org(fs, n)
<1>1. Command /\ UNCHANGED <<defaultOrg, users, chosen, excused, clobbered, shared>>
  BY DEF org_scratch_delete
<1>2. CASE /\ Live(c) # {} /\ hub' = [hub EXCEPT ![c.server] = "deleted"]
           /\ orgFiles' = save(fs, ScopeOf(fs, n), n, Deleted(c))
  <2>1. /\ orgFiles' \in Files /\ FilesFit(orgFiles') /\ FewerFlags(orgFiles', orgFiles)
        /\ orgFiles'["local"][n].server = 0
        /\ \A m \in OrgName : m # n => orgFiles'["local"][m].server = orgFiles["local"][m].server
        /\ c.server \in Server /\ orgFiles["local"][n].server = c.server
    BY <1>2, DeletedFile
  <2> HIDE DEF c
  <2>2. FewerServers(orgFiles', orgFiles)
    BY <2>1, FewerByZero
  <2> QED BY <1>1, <1>2, <2>1, <2>2, ServerDeleted
<1>3. CASE orgFiles' = fs /\ UNCHANGED hub
  BY <1>1, <1>3, OrgFound, FilesWritten
<1> QED BY <1>2, <1>3 DEF org_scratch_delete

\* One file removed.
Emptied(gs, s, n) == IF gs[s][n].kind = "none" THEN gs ELSE save(gs, s, n, NoOrg)

LEMMA EmptiedIs ==
  ASSUME NEW gs \in Files, FilesFit(gs), NEW s \in Scope, NEW n \in OrgName
  PROVE  /\ Emptied(gs, s, n) \in Files /\ FilesFit(Emptied(gs, s, n)) /\ FewerFlags(Emptied(gs, s, n), gs)
         /\ \A m \in OrgName : Emptied(gs, s, n)["local"][m].server
                               = IF s = "local" /\ m = n THEN 0 ELSE gs["local"][m].server
<1>1. CASE gs[s][n].kind = "none"
  <2>1. Emptied(gs, s, n) = gs
    BY <1>1 DEF Emptied
  <2>2. s = "local" => gs["local"][n].server = 0
    BY <1>1 DEF FilesFit, ConfigFits
  <2> QED BY <2>1, <2>2 DEF FewerFlags
<1>2. CASE gs[s][n].kind # "none"
  <2>1. Emptied(gs, s, n) = save(gs, s, n, NoOrg)
    BY <1>2 DEF Emptied
  <2>2. save(gs, s, n, NoOrg) \in Files
        /\ \A x \in Scope, m \in OrgName : save(gs, s, n, NoOrg)[x][m] = IF x = s /\ m = n THEN NoOrg ELSE gs[x][m]
    BY Saved, ConfigsAre
  <2>3. FilesFit(save(gs, s, n, NoOrg))
    BY SavedFit, ConfigsAre
  <2>4. FewerFlags(save(gs, s, n, NoOrg), gs)
    BY <2>2, ConfigsAre DEF FewerFlags
  <2>5. \A m \in OrgName : save(gs, s, n, NoOrg)["local"][m].server
                           = IF s = "local" /\ m = n THEN 0 ELSE gs["local"][m].server
    BY <2>2, ConfigsAre, Scopes
  <2> QED BY <2>1, <2>2, <2>3, <2>4, <2>5
<1> QED BY <1>1, <1>2

LEMMA FewerFlagsTwice ==
  ASSUME NEW fs, NEW gs, NEW hs, FewerFlags(gs, fs), FewerFlags(hs, gs)
  PROVE  FewerFlags(hs, fs)
BY DEF FewerFlags

LEMMA RemoveStep == ASSUME OrgKeyInv, Grows, NEW n \in OrgName, NEW s \in Scope, org_remove(n, s) PROVE OrgKeyInv'
<1> DEFINE fs == _load_scratch_orgs
           c == get_org(fs, n)
           gs == save(fs, ScopeOf(fs, n), n, Deleted(c))
<1>1. Command /\ UNCHANGED <<defaultOrg, users, chosen, clobbered, shared>>
  BY DEF org_remove
<1>2. \/ /\ Live(c) # {} /\ hub' = [hub EXCEPT ![c.server] = "deleted"]
         /\ orgFiles' = Emptied(gs, s, n) /\ UNCHANGED excused
      \/ /\ orgFiles' = Emptied(fs, s, n) /\ UNCHANGED hub
         /\ excused' = IF s = ScopeOf(fs, n) THEN excused \cup Live(c) ELSE excused
  BY DEF org_remove, Emptied
<1>3. CASE /\ Live(c) # {} /\ hub' = [hub EXCEPT ![c.server] = "deleted"]
           /\ orgFiles' = Emptied(gs, s, n) /\ UNCHANGED excused
  <2>1. /\ gs \in Files /\ FilesFit(gs) /\ FewerFlags(gs, orgFiles) /\ gs["local"][n].server = 0
        /\ \A m \in OrgName : m # n => gs["local"][m].server = orgFiles["local"][m].server
        /\ c.server \in Server /\ orgFiles["local"][n].server = c.server
    BY <1>3, DeletedFile
  <2> HIDE DEF gs, c
  <2>2. /\ orgFiles' \in Files /\ FilesFit(orgFiles') /\ FewerFlags(orgFiles', gs)
        /\ \A m \in OrgName : orgFiles'["local"][m].server = IF s = "local" /\ m = n THEN 0 ELSE gs["local"][m].server
    BY <1>3, <2>1, EmptiedIs
  <2>3. FewerFlags(orgFiles', orgFiles)
    BY <2>1, <2>2, FewerFlagsTwice
  <2>4. orgFiles'["local"][n].server = 0 /\ \A m \in OrgName : m # n => orgFiles'["local"][m].server = orgFiles["local"][m].server
    BY <2>1, <2>2
  <2>5. FewerServers(orgFiles', orgFiles)
    BY <2>4, FewerByZero
  <2> QED BY <1>1, <1>3, <2>1, <2>2, <2>3, <2>4, <2>5, ServerDeleted
<1>4. CASE /\ orgFiles' = Emptied(fs, s, n) /\ UNCHANGED hub
           /\ excused' = IF s = ScopeOf(fs, n) THEN excused \cup Live(c) ELSE excused
  <2>1. fs \in Files /\ FilesFit(fs) /\ SameServers(fs, orgFiles) /\ FewerFlags(fs, orgFiles) /\ excused \subseteq Server
    BY OrgFound
  <2> HIDE DEF fs, gs
  <2>2. /\ orgFiles' \in Files /\ FilesFit(orgFiles') /\ FewerFlags(orgFiles', fs)
        /\ \A m \in OrgName : orgFiles'["local"][m].server = IF s = "local" /\ m = n THEN 0 ELSE fs["local"][m].server
    BY <1>4, <2>1, EmptiedIs
  <2>3. FewerFlags(orgFiles', orgFiles)
    BY <2>1, <2>2, FewerFlagsTwice
  <2>4. FewerServers(orgFiles', orgFiles)
    BY <2>1, <2>2 DEF FewerServers, SameServers
  <2>5. excused \subseteq excused' /\ excused' \subseteq Server
    BY <1>4, <2>1 DEF Live
  <2>6. \A m \in OrgName : orgFiles'["local"][m].server = orgFiles["local"][m].server
                           \/ Live(orgFiles["local"][m]) \subseteq excused'
    <3> SUFFICES ASSUME s = "local", orgFiles["local"][n].server # 0
                 PROVE  Live(orgFiles["local"][n]) \subseteq excused'
      BY <2>1, <2>2 DEF SameServers
    <3>1. fs["local"][n].server # 0
      BY <2>1 DEF SameServers
    <3>2. ScopeOf(fs, n) = "local"
      BY <3>1, <2>1, Got, Scopes
    <3>3. c.server = orgFiles["local"][n].server
      BY <3>2, <2>1, Got DEF SameServers
    <3>4. Live(c) = Live(orgFiles["local"][n])
      BY <3>3 DEF Live
    <3> QED BY <3>2, <3>4, <1>4
  <2> QED BY <1>1, <1>4, <2>2, <2>3, <2>4, <2>5, <2>6, ServersDropped
<1> QED BY <1>2, <1>3, <1>4

LEMMA PruneStep == ASSUME OrgKeyInv, Grows, NEW active \in BOOLEAN, org_prune(active) PROVE OrgKeyInv'
<1> DEFINE fs == _load_scratch_orgs
           gone == Pruned(fs, active)
<1>1. /\ Command /\ UNCHANGED <<defaultOrg, hub, users, chosen, clobbered, shared>>
      /\ orgFiles' = [fs EXCEPT !["local"] = [n \in OrgName |-> IF n \in gone THEN NoOrg ELSE @[n]]]
      /\ excused' = IF active THEN excused \cup UNION {Live(get_org(fs, n)) : n \in gone} ELSE excused
  BY DEF org_prune
<1>2. fs \in Files /\ FilesFit(fs) /\ SameServers(fs, orgFiles) /\ FewerFlags(fs, orgFiles) /\ excused \subseteq Server
  BY OrgFound
<1>3. \A n \in gone : /\ n \in OrgName /\ get_org(fs, n).kind = "scratch" /\ (Live(get_org(fs, n)) # {} => active)
  BY DEF Pruned, list_orgs
<1> HIDE DEF fs, gone
<1>4. \A x \in Scope, n \in OrgName : orgFiles'[x][n] = IF x = "local" /\ n \in gone THEN NoOrg ELSE fs[x][n]
  BY <1>1, <1>2, Scopes DEF Files
<1>5. orgFiles' \in Files
  BY <1>1, <1>2, ConfigsAre DEF Files
<1>6. FilesFit(orgFiles')
  BY <1>2, <1>4, ConfigsAre, Scopes DEF FilesFit
<1>7. FewerFlags(orgFiles', orgFiles)
  BY <1>2, <1>4, ConfigsAre DEF FewerFlags
<1>8. FewerServers(orgFiles', orgFiles)
  BY <1>2, <1>4, ConfigsAre, Scopes DEF FewerServers, SameServers
<1>9. excused \subseteq excused' /\ excused' \subseteq Server
  BY <1>1, <1>2 DEF Live
<1>10. \A n \in OrgName : orgFiles'["local"][n].server = orgFiles["local"][n].server
                          \/ Live(orgFiles["local"][n]) \subseteq excused'
  <2> SUFFICES ASSUME NEW n \in gone, n \in OrgName, NEW t \in Live(orgFiles["local"][n]) PROVE t \in excused'
    BY <1>2, <1>4, Scopes DEF SameServers
  <2>1. get_org(fs, n).server = orgFiles["local"][n].server
    BY <1>2, <1>3, Got DEF SameServers
  <2>2. t \in Live(get_org(fs, n))
    BY <2>1 DEF Live
  <2> QED BY <2>2, <1>1, <1>3
<1> QED BY <1>1, <1>5, <1>6, <1>7, <1>8, <1>9, <1>10, ServersDropped

-----------------------------------------------------------------------------
\* The processes.
ProcessTyped == users' \in [Process -> UserState] /\ \A p \in Process : UserFits(users'[p])

LEMMA StepTyped ==
  ASSUME OrgKeyInv, Grows, ProcessTyped, orgFiles' \in Files, FilesFit(orgFiles'), hub' \in HubState,
         excused' \subseteq Server, Command \/ UNCHANGED orgCommands, UNCHANGED <<defaultOrg, chosen, shared>>,
         clobbered' \in BOOLEAN
  PROVE  KeyTyped' /\ KeyFits'
<1>1. orgCommands' \in 0..MaxOrgCommands
  <2>1. CASE Command
    BY <2>1, CommandCounted
  <2>2. CASE UNCHANGED orgCommands
    BY <2>2 DEF OrgKeyInv, KeyTyped
  <2> QED BY <2>1, <2>2
<1>2. hidden' \subseteq OrgName
  BY DEF OrgKeyInv, KeyTyped, Grows, HiddenOf
<1>3. KeyTyped'
  BY <1>1, <1>2, OrgFound, Zenon DEF KeyTyped, HubState, ProcessTyped
<1>4. KeyFits'
  BY DEF KeyFits, ProcessTyped
<1> QED BY <1>3, <1>4

LEMMA Idle == /\ IdleUser \in UserState /\ UserFits(IdleUser) /\ ~Pending(IdleUser) /\ IdleUser.config.server = 0
<1>1. IdleUser \in UserState
  BY ConfigsAre, Scopes DEF IdleUser, UserState
<1>2. IdleUser.config = NoOrg /\ IdleUser.base = NoOrg /\ IdleUser.pc = "idle" /\ IdleUser.scope = "local"
  BY DEF IdleUser
<1> QED BY <1>1, <1>2, ConfigsAre DEF UserFits, Pending

\* A process that stops being one that is to save, or starts to hold what a file holds.
LEMMA ProcessAlone ==
  ASSUME NEW fs, NEW us, NEW vs, NEW h, NEW p \in Process, NEW sh, ServersAlone(fs, us, h, sh), PendingAreServers(us),
         \A q \in Process : q # p => vs[q] = us[q], ~Pending(vs[p]),
         \A s \in Server : vs[p].config.server = s => vs[p].name \in OrgName /\ fs["local"][vs[p].name].server = s
  PROVE  ServersAlone(fs, vs, h, sh)
<1>1. \A s \in Server, n \in OrgName : HeldAs(fs, vs, n, s) => HeldAs(fs, us, n, s)
  BY DEF HeldAs
<1>2. OneName(fs, vs, sh)
  BY <1>1 DEF ServersAlone, OneName
<1>3. FreeUnheld(fs, vs, h)
  BY DEF ServersAlone, FreeUnheld
<1>4. PendingAlone(fs, vs, h, sh)
  <2> SUFFICES ASSUME NEW q \in Process, Pending(vs[q]), vs[q].config.server \notin sh
               PROVE  /\ h[vs[q].config.server] # "deleted"
                      /\ \A n \in OrgName : fs["local"][n].server # vs[q].config.server
                      /\ \A r \in Process \ {q} : vs[r].config.server # vs[q].config.server
    BY DEF PendingAlone
  <2>1. q # p /\ vs[q] = us[q]
    OBVIOUS
  <2>2. /\ us[q].config.server \in Server /\ h[us[q].config.server] # "deleted"
        /\ \A n \in OrgName : fs["local"][n].server # us[q].config.server
        /\ \A r \in Process \ {q} : us[r].config.server # us[q].config.server
    BY <2>1 DEF ServersAlone, PendingAlone, PendingAreServers
  <2> QED BY <2>1, <2>2
<1> QED BY <1>2, <1>3, <1>4 DEF ServersAlone

LEMMA BeginStep ==
  ASSUME OrgKeyInv, Grows, NEW p \in Process, NEW n \in OrgName, BeginUse(p, n)
  PROVE  OrgKeyInv'
<1> DEFINE fs == _load_scratch_orgs
           c == get_org(fs, n)
           again == Created(c) /\ Live(c) = {} /\ hub[c.server] = "expired"
           gs == IF again THEN create_scratch_org(fs, n) ELSE fs
           d == get_org(gs, n)
           u == [pc |-> IF d.kind = "scratch" /\ ~Created(d) THEN "create" ELSE "save",
                 name |-> n, scope |-> ScopeOf(gs, n), base |-> d, config |-> d]
<1>1. /\ Command /\ users[p].pc = "idle" /\ c.kind # "none" /\ orgFiles' = gs /\ users' = [users EXCEPT ![p] = u]
      /\ UNCHANGED <<defaultOrg, hub, chosen, excused, clobbered, shared>>
  BY DEF BeginUse
<1>2. fs \in Files /\ FilesFit(fs) /\ SameServers(fs, orgFiles) /\ FewerFlags(fs, orgFiles)
  BY OrgFound
<1> HIDE DEF fs
<1>3. /\ gs \in Files /\ FilesFit(gs) /\ FewerFlags(gs, orgFiles)
      /\ \A m \in OrgName : gs["local"][m].server = orgFiles["local"][m].server
                            \/ (gs["local"][m].server = 0 /\ hub[orgFiles["local"][m].server] = "expired")
  <2>1. CASE again
    <3>1. gs = save(fs, "local", n, Fresh)
      BY <2>1 DEF create_scratch_org
    <3> HIDE DEF gs
    <3>2. gs \in Files /\ \A x \in Scope, m \in OrgName : gs[x][m] = IF x = "local" /\ m = n THEN Fresh ELSE fs[x][m]
      <4>1. Fresh \in OrgConfig /\ "local" \in Scope
        BY ConfigsAre, Scopes
      <4>2. /\ save(fs, "local", n, Fresh) \in Files
            /\ \A x \in Scope, m \in OrgName : save(fs, "local", n, Fresh)[x][m] = IF x = "local" /\ m = n THEN Fresh ELSE fs[x][m]
        BY <1>2, <4>1, Saved
      <4> QED BY <3>1, <4>2
    <3>5. FilesFit(gs)
      BY <3>1, <1>2, ConfigsAre, Scopes, SavedFit
    <3>3. FewerFlags(gs, orgFiles)
      BY <3>2, <1>2, ConfigsAre DEF FewerFlags
    <3>4. c.server = fs["local"][n].server /\ hub[c.server] = "expired"
      BY <2>1, <1>2, Got DEF Created
    <3> HIDE DEF c
    <3> QED BY <3>2, <3>3, <3>4, <3>5, <1>2, ConfigsAre, Scopes DEF SameServers
  <2>2. CASE ~again
    <3>1. gs = fs
      BY <2>2
    <3> HIDE DEF gs, again, c
    <3> QED BY <3>1, <1>2 DEF SameServers
  <2> QED BY <2>1, <2>2
<1> HIDE DEF gs
<1>4. /\ d \in OrgConfig /\ ConfigFits(d) /\ ScopeOf(gs, n) \in Scope /\ (ScopeOf(gs, n) = "global" => d.kind # "scratch")
      /\ (d.server # 0 => gs["local"][n].server = d.server)
  BY <1>3, Got, Scopes
<1> HIDE DEF d
<1>5. u \in UserState /\ u.config = d /\ u.base = d /\ u.name = n /\ u.pc \in {"create", "save"} /\ u.scope = ScopeOf(gs, n)
      /\ (u.pc = "create" => d.kind = "scratch" /\ d.server = 0)
  BY <1>4 DEF UserState, Created
<1>6. UserFits(u) /\ ~Pending(u)
  BY <1>4, <1>5 DEF UserFits, Pending
<1> HIDE DEF u
<1>7. users \in [Process -> UserState] /\ \A q \in Process : UserFits(users[q])
  BY DEF OrgKeyInv, KeyTyped, KeyFits
<1>8. users' \in [Process -> UserState] /\ users'[p] = u /\ \A q \in Process : q # p => users'[q] = users[q]
  BY <1>1, <1>5, <1>7
<1>9. ProcessTyped
  BY <1>6, <1>7, <1>8 DEF ProcessTyped
<1>10. KeyTyped' /\ KeyFits'
  <2>1. clobbered' \in BOOLEAN
    BY <1>1, Zenon DEF OrgKeyInv, KeyTyped
  <2> QED BY <2>1, <1>1, <1>3, <1>9, OrgFound, StepTyped
<1>11. FewerServers(gs, orgFiles) /\ HubMoves(hub, hub, orgFiles)
  BY <1>3 DEF FewerServers, HubMoves
<1>12. ServersAlone(gs, users, hub, shared)
  BY <1>11, Servers, FewerAlone DEF ServersAlone
<1>13. ServersAlone(gs, users', hub, shared)
  <2>1. \A s \in Server : u.config.server = s => gs["local"][n].server = s
    BY <1>4, <1>5, ServersAre
  <2> QED BY <2>1, <1>5, <1>6, <1>8, <1>12, Servers, ProcessAlone
<1>14. AllExplained(gs, users, hub, excused)
  <2>1. \A m \in OrgName : \A s \in Server :
          orgFiles["local"][m].server = s /\ hub[s] = "live" => gs["local"][m].server = s \/ s \in excused
    BY <1>3
  <2> QED BY <2>1, <1>11, Servers, FewerExplained
<1>15. AllExplained(gs, users', hub, excused)
  <2>1. ~Pending(users[p])
    BY <1>1, <1>7 DEF UserFits
  <2> QED BY <2>1, <1>8, <1>14 DEF AllExplained, Explained
<1>16. ~clobbered => NoneDeleted(gs, hub, shared)
  BY <1>11, Servers, FewerDeleted
<1>17. ServersFit'
  BY <1>1, <1>13, <1>15, <1>16 DEF ServersFit, ServersAlone
<1>18. DefaultFits'
  BY <1>1, <1>3, FlagsKept DEF Grows
<1> QED BY <1>10, <1>17, <1>18 DEF OrgKeyInv

\* A process goes idle: what it was to save is excused, or no longer live.
LEMMA ProcessEnds ==
  ASSUME OrgKeyInv, NEW p \in Process, users' = [users EXCEPT ![p] = IdleUser]
  PROVE  /\ users' \in [Process -> UserState] /\ users'[p] = IdleUser /\ \A q \in Process : q # p => users'[q] = users[q]
         /\ ProcessTyped
<1>1. users \in [Process -> UserState] /\ \A q \in Process : UserFits(users[q])
  BY DEF OrgKeyInv, KeyTyped, KeyFits
<1>2. users' \in [Process -> UserState] /\ users'[p] = IdleUser /\ \A q \in Process : q # p => users'[q] = users[q]
  BY <1>1, Idle
<1> QED BY <1>1, <1>2, Idle DEF ProcessTyped

LEMMA EndsStep ==
  ASSUME OrgKeyInv, Grows, NEW p \in Process, users' = [users EXCEPT ![p] = IdleUser],
         excused \subseteq excused', excused' \subseteq Server, Pending(users[p]) => Live(users[p].config) \subseteq excused',
         UNCHANGED <<orgFiles, defaultOrg, hub, orgCommands, chosen, clobbered, shared>>
  PROVE  OrgKeyInv'
<1>1. /\ users' \in [Process -> UserState] /\ users'[p] = IdleUser /\ \A q \in Process : q # p => users'[q] = users[q]
      /\ ProcessTyped
  BY ProcessEnds
<1>2. KeyTyped' /\ KeyFits'
  <2>1. clobbered' \in BOOLEAN
    BY Zenon DEF OrgKeyInv, KeyTyped
  <2> QED BY <2>1, <1>1, OrgFound, StepTyped
<1>3. ServersAlone(orgFiles, users', hub, shared)
  <2>1. \A s \in Server : IdleUser.config.server # s
    BY Idle, ServersAre
  <2>2. ServersAlone(orgFiles, users, hub, shared)
    BY Servers DEF ServersAlone
  <2> QED BY <2>1, <2>2, <1>1, Idle, Servers, ProcessAlone
<1>4. AllExplained(orgFiles, users', hub, excused')
  <2> SUFFICES ASSUME NEW s \in Server, hub[s] = "live" PROVE Explained(s, orgFiles, users', excused')
    BY DEF AllExplained
  <2>1. Explained(s, orgFiles, users, excused)
    BY Servers DEF AllExplained
  <2>2. CASE Pending(users[p]) /\ users[p].config.server = s
    BY <2>2, LiveIs DEF Explained
  <2>3. CASE ~(Pending(users[p]) /\ users[p].config.server = s)
    BY <2>1, <2>3, <1>1 DEF Explained
  <2> QED BY <2>2, <2>3
<1>5. ServersFit'
  BY <1>3, <1>4, Servers DEF ServersFit, ServersAlone
<1>6. FewerFlags(orgFiles', orgFiles)
  BY DEF FewerFlags
<1>7. DefaultFits'
  BY <1>6, FlagsKept DEF Grows
<1> QED BY <1>2, <1>5, <1>7 DEF OrgKeyInv

LEMMA FailsStep == ASSUME OrgKeyInv, Grows, NEW p \in Process, RefreshFails(p) PROVE OrgKeyInv'
<1>1. excused \subseteq excused' /\ excused' \subseteq Server /\ (Pending(users[p]) => Live(users[p].config) \subseteq excused')
  BY OrgFound DEF RefreshFails, Pending, Live
<1> QED BY <1>1, EndsStep DEF RefreshFails

MadeOf(v, t) == [v EXCEPT !.pc = "save", !.config.server = t]
LEMMA Made ==
  ASSUME NEW v \in UserState, NEW t \in 0..MaxServers
  PROVE  LET u == MadeOf(v, t) IN
         /\ u \in UserState /\ u.pc = "save" /\ u.name = v.name /\ u.scope = v.scope /\ u.base = v.base
         /\ u.config.kind = v.config.kind /\ u.config.flag = v.config.flag /\ u.config.server = t
<1> DEFINE c == [v.config EXCEPT !.server = t]
           u == MadeOf(v, t)
<1>1. c \in OrgConfig /\ c.kind = v.config.kind /\ c.flag = v.config.flag /\ c.server = t
  BY DEF UserState, OrgConfig
<1>2. u = [v EXCEPT !.pc = "save", !.config = c]
  BY DEF UserState, MadeOf
<1> HIDE DEF c, u
<1>3. /\ u \in UserState /\ u.pc = "save" /\ u.name = v.name /\ u.scope = v.scope /\ u.base = v.base
      /\ u.config = c
  BY <1>1, <1>2 DEF UserState
<1> QED BY <1>1, <1>3 DEF u

LEMMA CreateStep == ASSUME OrgKeyInv, Grows, NEW p \in Process, create_org(p) PROVE OrgKeyInv'
<1>1. users[p].pc = "create" /\ UNCHANGED <<orgFiles, defaultOrg, orgCommands, chosen, excused, clobbered, shared>>
  BY DEF create_org
<1>2. users \in [Process -> UserState] /\ \A q \in Process : UserFits(users[q])
  BY DEF OrgKeyInv, KeyTyped, KeyFits
<1>3. ~Pending(users[p]) /\ users[p].config = users[p].base
  BY <1>1, <1>2 DEF UserFits, Pending
<1>4. CASE users' = [users EXCEPT ![p] = IdleUser] /\ UNCHANGED hub
  BY <1>1, <1>3, <1>4, OrgFound, EndsStep
<1>5. ASSUME NEW t \in Server, hub[t] = "free", hub' = [hub EXCEPT ![t] = "live"],
             users' = [users EXCEPT ![p].pc = "save", ![p].config.server = t]
      PROVE  OrgKeyInv'
  <2> DEFINE u == users'[p]
  <2>1. users[p] \in UserState /\ users[p].config \in OrgConfig /\ t \in 0..MaxServers /\ t # 0
    BY <1>2, ServersAre DEF UserState
  <2>2. u = MadeOf(users[p], t) /\ \A q \in Process : q # p => users'[q] = users[q]
    BY <1>2, <1>5 DEF MadeOf
  <2>3. /\ u \in UserState /\ u.pc = "save" /\ u.name = users[p].name /\ u.scope = users[p].scope /\ u.base = users[p].base
        /\ u.config.kind = users[p].config.kind /\ u.config.flag = users[p].config.flag /\ u.config.server = t
    BY <2>1, <2>2, Made
  <2>4. users' \in [Process -> UserState]
    BY <1>2, <1>5, <2>2, <2>3
  <2> HIDE DEF u
  <2>5. UserFits(u)
    BY <1>1, <1>2, <1>3, <2>1, <2>3 DEF UserFits, ConfigFits, Pending
  <2>6. Pending(u)
    BY <1>1, <1>2, <1>3, <2>1, <2>3 DEF UserFits, Pending
  <2>7. ProcessTyped
    BY <1>2, <2>2, <2>4, <2>5 DEF ProcessTyped, u
  <2>8. hub' \in HubState /\ \A s \in Server : hub'[s] = IF s = t THEN "live" ELSE hub[s]
    BY <1>5, OrgFound DEF HubState
  <2>9. KeyTyped' /\ KeyFits'
    <3>1. clobbered' \in BOOLEAN
      BY <1>1, Zenon DEF OrgKeyInv, KeyTyped
    <3> QED BY <3>1, <1>1, <2>7, <2>8, OrgFound, StepTyped
  <2>10. (\A m \in OrgName : orgFiles["local"][m].server # t) /\ \A q \in Process : users[q].config.server # t
    BY <1>5, Servers DEF FreeUnheld
  <2>11. users'[p] = u
    BY DEF u
  <2>12. users[p].config.server = 0
    BY <1>1, <1>2 DEF UserFits
  <2>13. OneName(orgFiles, users', shared)
    <3>1. \A s \in Server, m \in OrgName : HeldAs(orgFiles, users', m, s) =>
            IF s = t THEN m = u.name ELSE HeldAs(orgFiles, users, m, s)
      <4> SUFFICES ASSUME NEW s \in Server, NEW m \in OrgName, HeldAs(orgFiles, users', m, s)
                   PROVE  IF s = t THEN m = u.name ELSE HeldAs(orgFiles, users, m, s)
        OBVIOUS
      <4>1. CASE orgFiles["local"][m].server = s
        BY <4>1, <2>10 DEF HeldAs
      <4>2. ASSUME NEW q \in Process, users'[q].name = m, users'[q].config.server = s
            PROVE  IF s = t THEN m = u.name ELSE HeldAs(orgFiles, users, m, s)
        <5>1. CASE q = p
          BY <4>2, <5>1, <2>3, <2>11
        <5>2. CASE q # p
          <6>1. users'[q] = users[q]
            BY <5>2, <2>2
          <6> QED BY <4>2, <6>1, <2>10 DEF HeldAs
        <5> QED BY <5>1, <5>2
      <4> QED BY <4>1, <4>2 DEF HeldAs
    <3>2. OneName(orgFiles, users, shared)
      BY Servers
    <3> QED BY <3>1, <3>2 DEF OneName
  <2>14. FreeUnheld(orgFiles, users', hub')
    <3> SUFFICES ASSUME NEW s \in Server, hub'[s] = "free"
                 PROVE  /\ \A m \in OrgName : orgFiles["local"][m].server # s
                        /\ \A q \in Process : users'[q].config.server # s
      BY DEF FreeUnheld
    <3>1. s # t /\ hub[s] = "free"
      BY <2>8
    <3>2. (\A m \in OrgName : orgFiles["local"][m].server # s) /\ \A q \in Process : users[q].config.server # s
      BY <3>1, Servers DEF FreeUnheld
    <3>3. users'[p].config.server # s
      BY <3>1, <2>3, <2>11
    <3> QED BY <3>2, <3>3, <2>2
  <2>15. PendingAlone(orgFiles, users', hub', shared)
    <3> SUFFICES ASSUME NEW q \in Process, Pending(users'[q]), users'[q].config.server \notin shared
                 PROVE  /\ hub'[users'[q].config.server] # "deleted"
                        /\ \A m \in OrgName : orgFiles["local"][m].server # users'[q].config.server
                        /\ \A r \in Process \ {q} : users'[r].config.server # users'[q].config.server
      BY DEF PendingAlone
    <3>1. CASE q = p
      <4>1. users'[q].config.server = t
        BY <3>1, <2>3, <2>11
      <4>2. \A r \in Process \ {q} : users'[r].config.server # t
        BY <3>1, <2>2, <2>10
      <4> QED BY <4>1, <4>2, <2>8, <2>10
    <3>2. CASE q # p
      <4>1. users'[q] = users[q] /\ Pending(users[q])
        BY <3>2, <2>2
      <4>2. /\ users[q].config.server \in Server /\ hub[users[q].config.server] # "deleted"
            /\ \A m \in OrgName : orgFiles["local"][m].server # users[q].config.server
            /\ \A r \in Process \ {q} : users[r].config.server # users[q].config.server
        BY <4>1, Servers DEF PendingAlone, PendingAreServers
      <4>3. users[q].config.server # t
        BY <2>10
      <4>4. \A r \in Process \ {q} : users'[r].config.server # users[q].config.server
        BY <4>2, <4>3, <2>2, <2>3, <2>11
      <4> QED BY <4>1, <4>2, <4>3, <4>4, <2>8
    <3> QED BY <3>1, <3>2
  <2>16. AllExplained(orgFiles, users', hub', excused)
    <3> SUFFICES ASSUME NEW s \in Server, hub'[s] = "live" PROVE Explained(s, orgFiles, users', excused)
      BY DEF AllExplained
    <3>1. CASE s = t
      BY <3>1, <2>3, <2>6, <2>11 DEF Explained
    <3>2. CASE s # t
      <4>1. Explained(s, orgFiles, users, excused)
        BY <3>2, <2>8, Servers DEF AllExplained
      <4> QED BY <4>1, <1>3, <2>2 DEF Explained
    <3> QED BY <3>1, <3>2
  <2>17. ~clobbered => NoneDeleted(orgFiles, hub', shared)
    <3> SUFFICES ASSUME NoneDeleted(orgFiles, hub, shared), NEW m \in OrgName,
                        orgFiles["local"][m].server \notin {0} \cup shared
                 PROVE  hub'[orgFiles["local"][m].server] # "deleted"
      BY Servers DEF NoneDeleted
    <3>1. orgFiles["local"][m].server \in 0..MaxServers
      BY FileServer
    <3> QED BY <3>1, <2>8, <2>10, ServersAre DEF NoneDeleted
  <2>18. ServersFit'
    BY <1>1, <2>13, <2>14, <2>15, <2>16, <2>17 DEF ServersFit
  <2>19. FewerFlags(orgFiles', orgFiles)
    BY <1>1 DEF FewerFlags
  <2>20. DefaultFits'
    BY <1>1, <2>19, FlagsKept DEF Grows
  <2> QED BY <2>9, <2>18, <2>20 DEF OrgKeyInv
<1> QED BY <1>4, <1>5 DEF create_org

LEMMA SaveStep == ASSUME OrgKeyInv, Grows, NEW p \in Process, save_if_changed(p) PROVE OrgKeyInv'
<1> DEFINE u == users[p]
           recorded == orgFiles[u.scope][u.name]
<1>1. /\ u.pc = "save" /\ users' = [users EXCEPT ![p] = IdleUser]
      /\ orgFiles' = save(orgFiles, u.scope, u.name, u.config)
      /\ excused' = IF recorded # u.base THEN excused \cup Live(recorded) ELSE excused
      /\ UNCHANGED <<defaultOrg, hub, orgCommands, chosen, shared>>
  BY DEF save_if_changed
<1>2. /\ clobbered' \in BOOLEAN /\ (~clobbered' => ~clobbered /\ recorded = u.base)
  BY Zenon DEF save_if_changed
<1>3. /\ users' \in [Process -> UserState] /\ users'[p] = IdleUser /\ \A q \in Process : q # p => users'[q] = users[q]
      /\ ProcessTyped
  BY <1>1, ProcessEnds
<1>4. u \in UserState /\ UserFits(u)
  BY DEF OrgKeyInv, KeyTyped, KeyFits
<1> HIDE DEF u
<1>5. u.scope \in Scope /\ u.name \in OrgName /\ u.config \in OrgConfig /\ u.base \in OrgConfig
  BY <1>1, <1>4 DEF UserState, UserFits
<1>6. ConfigFits(u.config) /\ (u.scope = "global" => u.config.kind # "scratch") /\ u.base.flag = u.config.flag
  BY <1>4 DEF UserFits
<1>7. Pending(u) => u.base.server = 0 /\ u.config.server # 0
  BY <1>4 DEF UserFits
<1>8. orgFiles \in Files /\ FilesFit(orgFiles) /\ excused \subseteq Server
  BY OrgFound
<1>9. orgFiles' \in Files /\ \A x \in Scope, m \in OrgName : orgFiles'[x][m] = IF x = u.scope /\ m = u.name THEN u.config ELSE orgFiles[x][m]
  BY <1>1, <1>5, <1>8, Saved
<1>10. FilesFit(orgFiles')
  BY <1>1, <1>5, <1>6, <1>8, SavedFit
<1>11. excused \subseteq excused' /\ excused' \subseteq Server
  BY <1>1, <1>8 DEF Live
<1>12. KeyTyped' /\ KeyFits'
  BY <1>1, <1>2, <1>3, <1>9, <1>10, <1>11, OrgFound, StepTyped
\* What a file of this project now holds is what it held, or what the process does.
<1>13. \A m \in OrgName : orgFiles'["local"][m].server = orgFiles["local"][m].server
                          \/ (m = u.name /\ u.scope = "local" /\ orgFiles'["local"][m].server = u.config.server)
  BY <1>9, Scopes
<1>14. \A q \in Process : Pending(users'[q]) => q # p /\ users'[q] = users[q]
  BY <1>3, Idle
<1>15. users'[p].config.server = 0
  BY <1>3, Idle
<1>16. OneName(orgFiles', users', shared)
  <2>1. \A s \in Server, m \in OrgName : HeldAs(orgFiles', users', m, s) => HeldAs(orgFiles, users, m, s)
    BY <1>3, <1>13, <1>15, ServersAre DEF HeldAs, u
  <2> QED BY <2>1, Servers DEF OneName
<1>17. FreeUnheld(orgFiles', users', hub)
  BY <1>3, <1>13, <1>15, Servers, ServersAre DEF FreeUnheld, u
<1>18. PendingAlone(orgFiles', users', hub, shared)
  <2> SUFFICES ASSUME NEW q \in Process, Pending(users'[q]), users'[q].config.server \notin shared
               PROVE  /\ hub[users'[q].config.server] # "deleted"
                      /\ \A m \in OrgName : orgFiles'["local"][m].server # users'[q].config.server
                      /\ \A r \in Process \ {q} : users'[r].config.server # users'[q].config.server
    BY DEF PendingAlone
  <2>1. q # p /\ users'[q] = users[q] /\ Pending(users[q])
    BY <1>14
  <2>2. /\ users[q].config.server \in Server /\ hub[users[q].config.server] # "deleted"
        /\ \A m \in OrgName : orgFiles["local"][m].server # users[q].config.server
        /\ \A r \in Process \ {q} : users[r].config.server # users[q].config.server
    BY <2>1, Servers DEF PendingAlone, PendingAreServers
  <2>3. u.config.server # users[q].config.server
    BY <2>1, <2>2 DEF u
  <2>4. \A r \in Process \ {q} : users'[r].config.server # users[q].config.server
    BY <2>2, <1>3, <1>15, ServersAre
  <2> QED BY <2>1, <2>2, <2>3, <2>4, <1>13
<1>19. AllExplained(orgFiles', users', hub, excused')
  <2> SUFFICES ASSUME NEW s \in Server, hub[s] = "live" PROVE Explained(s, orgFiles', users', excused')
    BY DEF AllExplained
  <2>1. Explained(s, orgFiles, users, excused)
    BY Servers DEF AllExplained
  <2>2. CASE s \in excused
    BY <2>2, <1>11 DEF Explained
  <2>3. ASSUME NEW m \in OrgName, orgFiles["local"][m].server = s PROVE Explained(s, orgFiles', users', excused')
    <3>1. CASE m = u.name /\ u.scope = "local"
      <4>1. recorded.server = s /\ orgFiles'["local"][m] = u.config
        BY <2>3, <3>1, <1>9, Scopes
      <4>2. CASE recorded # u.base
        BY <4>1, <4>2, <1>1, LiveIs DEF Explained
      <4>3. CASE recorded = u.base
        <5>1. u.base.server # 0
          BY <4>1, <4>3, ServersAre
        <5>2. u.config = u.base
          BY <5>1, <1>7 DEF Pending
        <5> QED BY <4>1, <4>3, <5>2 DEF Explained
      <4> QED BY <4>2, <4>3
    <3>2. CASE ~(m = u.name /\ u.scope = "local")
      <4>1. orgFiles'["local"][m] = orgFiles["local"][m]
        BY <3>2, <1>9, Scopes
      <4> QED BY <4>1, <2>3 DEF Explained
    <3> QED BY <3>1, <3>2
  <2>4. ASSUME NEW q \in Process, Pending(users[q]), users[q].config.server = s
        PROVE  Explained(s, orgFiles', users', excused')
    <3>1. CASE q = p
      <4>1. u.config.server = s /\ s # 0
        BY <2>4, <3>1, ServersAre DEF u
      <4>2. u.scope = "local"
        BY <4>1, <1>5, <1>6, Scopes DEF ConfigFits
      <4>3. orgFiles'["local"][u.name] = u.config
        BY <4>2, <1>5, <1>9, Scopes
      <4> QED BY <4>1, <4>3, <1>5 DEF Explained
    <3>2. CASE q # p
      BY <2>4, <3>2, <1>3 DEF Explained
    <3> QED BY <3>1, <3>2
  <2> QED BY <2>1, <2>2, <2>3, <2>4 DEF Explained
<1>20. ~clobbered' => NoneDeleted(orgFiles', hub, shared)
  <2> SUFFICES ASSUME ~clobbered', NEW m \in OrgName, orgFiles'["local"][m].server \notin {0} \cup shared
               PROVE  hub[orgFiles'["local"][m].server] # "deleted"
    BY DEF NoneDeleted
  <2>1. NoneDeleted(orgFiles, hub, shared) /\ recorded = u.base
    BY <1>2, Servers
  <2>2. CASE orgFiles'["local"][m].server = orgFiles["local"][m].server
    BY <2>1, <2>2 DEF NoneDeleted
  <2>3. CASE m = u.name /\ u.scope = "local" /\ orgFiles'["local"][m].server = u.config.server
    <3>1. CASE Pending(u)
      BY <2>3, <3>1, Servers DEF PendingAlone, u
    <3>2. CASE ~Pending(u)
      BY <2>1, <2>3, <3>2 DEF Pending, NoneDeleted
    <3> QED BY <3>1, <3>2
  <2> QED BY <2>2, <2>3, <1>13
<1>21. ServersFit'
  BY <1>1, <1>16, <1>17, <1>18, <1>19, <1>20 DEF ServersFit
<1>22. clobbered' \/ FewerFlags(orgFiles', orgFiles)
  BY <1>2, <1>5, <1>6, <1>9 DEF FewerFlags
<1>23. clobbered => clobbered'
  BY <1>2
<1>24. DefaultFits'
  BY <1>1, <1>22, <1>23, FlagsKept DEF Grows
<1> QED BY <1>12, <1>21, <1>24 DEF OrgKeyInv

LEMMA ExpireStep == ASSUME OrgKeyInv, Grows, Expire PROVE OrgKeyInv'
<1>1. PICK t \in Server : hub[t] = "live" /\ hub' = [hub EXCEPT ![t] = "expired"]
  BY DEF Expire
<1>2. UNCHANGED <<orgFiles, defaultOrg, users, orgCommands, chosen, excused, clobbered, shared>>
  BY DEF Expire
<1>3. hub' \in HubState /\ \A s \in Server : hub'[s] = IF s = t THEN "expired" ELSE hub[s]
  BY <1>1, OrgFound DEF HubState
<1>4. ProcessTyped
  BY <1>2 DEF ProcessTyped, OrgKeyInv, KeyTyped, KeyFits
<1>5. KeyTyped' /\ KeyFits'
  <2>1. clobbered' \in BOOLEAN
    BY <1>2, Zenon DEF OrgKeyInv, KeyTyped
  <2> QED BY <2>1, <1>2, <1>3, <1>4, OrgFound, StepTyped
<1>6. FewerServers(orgFiles', orgFiles) /\ FewerFlags(orgFiles', orgFiles)
  BY <1>2 DEF FewerServers, FewerFlags
<1>7. HubMoves(hub', hub, orgFiles)
  BY <1>3 DEF HubMoves
<1>8. \A n \in OrgName :
        orgFiles'["local"][n].server \notin {0} \cup shared /\ hub'[orgFiles'["local"][n].server] = "deleted" =>
          hub[orgFiles'["local"][n].server] = "deleted"
  <2> SUFFICES ASSUME NEW n \in OrgName, orgFiles["local"][n].server # 0,
                      hub'[orgFiles["local"][n].server] = "deleted"
               PROVE  hub[orgFiles["local"][n].server] = "deleted"
    BY <1>2
  <2>1. orgFiles["local"][n].server \in 0..MaxServers
    BY FileServer
  <2> QED BY <2>1, <1>3, ServersAre
<1>9. ServersFit'
  BY <1>2, <1>6, <1>7, <1>8, FilesMove
<1>10. DefaultFits'
  BY <1>2, <1>6, FlagsKept DEF Grows
<1> QED BY <1>5, <1>9, <1>10 DEF OrgKeyInv

-----------------------------------------------------------------------------
LEMMA OrgKeyInvNext == ASSUME OrgKeyInv, [OrgKeyNext]_orgKeyVars PROVE OrgKeyInv'
<1>1. CASE OrgKeyNext
  <2>1. Grows /\ OrgStep
    BY <1>1 DEF OrgKeyNext, Grows, HiddenOf
  <2> QED BY <2>1, ScratchStep, ImportStep, DefaultStep, DeleteStep, ConnectStep, RemoveStep, BeginStep, UnsetStep,
             AskStep, PruneStep, CreateStep, FailsStep, SaveStep, ExpireStep DEF OrgStep
<1>2. CASE UNCHANGED orgKeyVars
  <2> USE <1>2 DEF orgKeyVars
  <2>1. KeyTyped'
    <3>1. clobbered' \in BOOLEAN
      BY Zenon DEF OrgKeyInv, KeyTyped
    <3> QED BY <3>1 DEF OrgKeyInv, KeyTyped
  <2>2. KeyFits'
    BY DEF OrgKeyInv, KeyFits
  <2>3. ServersFit'
    BY DEF OrgKeyInv, ServersFit
  <2>4. DefaultFits'
    BY DEF OrgKeyInv, DefaultFits
  <2> QED BY <2>1, <2>2, <2>3, <2>4 DEF OrgKeyInv
<1> QED BY <1>1, <1>2

LEMMA OrgKeyInvGives == OrgKeyInv => OrgKeyTypeOK /\ LeaksAreExplained /\ RecordedOrgsExist /\ DefaultWasChosen
<1> SUFFICES ASSUME OrgKeyInv PROVE OrgKeyTypeOK /\ LeaksAreExplained /\ RecordedOrgsExist /\ DefaultWasChosen
  OBVIOUS
<1>1. OrgKeyTypeOK
  <2>1. clobbered \in BOOLEAN
    BY Zenon DEF OrgKeyInv, KeyTyped
  <2>2. \A p \in Process : /\ users[p].pc \in {"idle", "create", "save"} /\ users[p].name \in OrgName \cup {""}
                           /\ users[p].config \in OrgConfig /\ users[p].base \in OrgConfig
    BY DEF OrgKeyInv, KeyTyped, UserState
  <2> QED BY <2>1, <2>2 DEF OrgKeyInv, KeyTyped, Files, OrgKeyTypeOK
<1>2. LeaksAreExplained
  <2> SUFFICES ASSUME NEW s \in Server, hub[s] = "live", s \notin excused
               PROVE  \/ \E x \in Scope, n \in OrgName : orgFiles[x][n].server = s
                      \/ \E p \in Process : users[p].pc = "save" /\ users[p].config.server = s
    BY DEF LeaksAreExplained
  <2>1. Explained(s, orgFiles, users, excused)
    BY Servers DEF AllExplained
  <2>2. \A p \in Process : Pending(users[p]) => users[p].pc = "save"
    BY DEF OrgKeyInv, KeyFits, UserFits
  <2> QED BY <2>1, <2>2, Scopes DEF Explained
<1>3. RecordedOrgsExist
  <2>1. \A n \in OrgName : orgFiles["global"][n].server = 0
    BY OrgFound DEF FilesFit, ConfigFits
  <2> QED BY <2>1, Servers, Scopes DEF RecordedOrgsExist, NoneDeleted
<1>4. DefaultWasChosen
  <2> DEFINE fs == _load_scratch_orgs
  <2> SUFFICES ASSUME ~clobbered, NEW n \in get_default_org(fs) PROVE n \in chosen \cup hidden
    BY DEF DefaultWasChosen
  <2>1. FlagsWithin(orgFiles, chosen \cup hidden) /\ (defaultOrg # "" => defaultOrg \in chosen \cup hidden)
    BY DEF OrgKeyInv, DefaultFits
  <2>2. fs \in Files /\ FilesFit(fs) /\ FewerFlags(fs, orgFiles)
    BY OrgFound
  <2>3. (n = defaultOrg /\ defaultOrg # "") \/ (n \in OrgName /\ get_org(fs, n).flag)
    BY DEF get_default_org, FlaggedOrgs, list_orgs
  <2> HIDE DEF fs
  <2>4. CASE n \in OrgName /\ get_org(fs, n).flag
    <3>1. ScopeOf(fs, n) \in Scope /\ fs[ScopeOf(fs, n)][n].flag
      BY <2>2, <2>4, Got
    <3>2. orgFiles[ScopeOf(fs, n)][n].flag
      BY <2>2, <2>4, <3>1 DEF FewerFlags
    <3> QED BY <2>1, <2>4, <3>1, <3>2 DEF FlagsWithin
  <2> QED BY <2>1, <2>3, <2>4
<1> QED BY <1>1, <1>2, <1>3, <1>4

\* For every set of names, servers and commands: a live scratch org is in a file, or with the
\* process that made it, or its loss is explained; no file names a deleted one unless a process
\* saved over another's change or the org was imported under a second name; and the default
\* org is one last chosen, or was hidden.
THEOREM KeysAreSound == OrgKeySpec => [](OrgKeyTypeOK /\ LeaksAreExplained /\ RecordedOrgsExist /\ DefaultWasChosen)
<1>1. OrgKeyInit => OrgKeyInv
  BY OrgKeyInvInit
<1>2. OrgKeyInv /\ [OrgKeyNext]_orgKeyVars => OrgKeyInv'
  BY OrgKeyInvNext
<1>3. OrgKeyInv => OrgKeyTypeOK /\ LeaksAreExplained /\ RecordedOrgsExist /\ DefaultWasChosen
  BY OrgKeyInvGives
<1> QED BY <1>1, <1>2, <1>3, PTL DEF OrgKeySpec

-----------------------------------------------------------------------------
(* The suite: a behaviour of it is one of each of its components.                    *)

SuiteVars == <<subject, keychainVars, orgKeyVars, oauthVars, credVars, asgVars, sessVars>>

LEMMA SuiteInit == Init => KeychainInit /\ OrgKeyInit /\ OAuthInit /\ SessInit
BY DEF Init

LEMMA SuiteStep ==
  [Next]_SuiteVars => /\ [KeychainNext]_keychainVars /\ [OrgKeyNext]_orgKeyVars
                      /\ [OAuthNext]_oauthVars /\ [SessNext]_sessVars
BY DEF Next, SuiteVars

LEMMA SuiteImplements == Spec => KeychainSpec /\ OrgKeySpec /\ OAuthSpec /\ SessSpec
BY SuiteInit, SuiteStep, PTL DEF Spec, SuiteVars, KeychainSpec, OrgKeySpec, OAuthSpec, SessSpec

\* Defaults name services that are there, through renames, removals, kills and the move from
\* the old layout; every live scratch org can be found or its loss is explained, and the
\* default org is the one chosen: encrypted_file_project_keychain.py and cli/org.py.
THEOREM KeychainIsSoundHolds == Spec => []KeychainIsSound
<1>1. /\ KeychainTypeOK /\ DefaultsExist /\ DefaultIsUsable /\ MigrationKeepsDefaults
      /\ OrgKeyTypeOK /\ LeaksAreExplained /\ RecordedOrgsExist /\ DefaultWasChosen
      => KeychainIsSound
  BY DEF KeychainIsSound
<1> QED BY <1>1, SuiteImplements, ServicesAreSound, KeysAreSound, PTL

\* A login that ends well has its token, a key is refused only where its login page cannot
\* be told, and the answers kept of an org are true of it: oauth/client.py and org_config.py.
THEOREM SessionsAreSoundHolds == Spec => []SessionsAreSound
<1>1. (OAuthTypeOK /\ FlowHasItsToken) /\ (SessTypeOK /\ RefusedIfUntold /\ AnswersAreTrue) => SessionsAreSound
  BY DEF SessionsAreSound
<1> QED BY <1>1, SuiteImplements, FlowIsSound, SessionIsSound, PTL
=============================================================================
