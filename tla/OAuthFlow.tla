------------------------------ MODULE OAuthFlow ------------------------------
(* The two ways to a token that wait for a person. The web flow listens for    *)
(* the callback of a browser, with a thread that gives up after a while; the   *)
(* server of the flow handles requests one by one until it is asked to stop.   *)
(* The device flow polls until the person has typed a code somewhere else.     *)
EXTENDS Integers, Sequences

CONSTANTS
  MaxRequests,  \* bound on the requests browsers send
  ExpiresIn,    \* expires_in of a device code
  Intervals     \* the intervals the server may ask for

ASSUME OAuthAssumption ==
  MaxRequests \in Nat /\ ExpiresIn \in Nat /\ Intervals \subseteq Nat /\ Intervals # {}

VARIABLES
  oauthPc,        \* the main thread
  serverState,    \* "off", "serving", "handling" a request or "down"
  stopAsked,      \* __shutdown_request of the server
  callbacks,      \* the requests waiting to be accepted
  sent,
  used,           \* external: whether the code has been exchanged
  response,       \* self.response: "none", "token" or "error"
  granted,        \* history: whether a grant succeeded
  timer,          \* the timeout thread: "off", "waiting", "due", "asking" or "done"
  timerHttpd,     \* whether its httpd is still set
  device          \* the device flow: time left, the last answer

oauthVars == <<oauthPc, serverState, stopAsked, callbacks, sent, used, response, granted,
               timer, timerHttpd, device>>

\* What a browser may send: the code, again perhaps; an error, described or not; something
\* else, as the icon of the page.
Callback == {"code", "error", "error_only", "other"}

OAuthTypeOK ==
  /\ oauthPc \in {"idle", "serve", "closing", "validate", "poll", "ok", "failed"}
  /\ serverState \in {"off", "serving", "handling", "down"} /\ stopAsked \in BOOLEAN
  /\ callbacks \in Seq(Callback) /\ sent \in 0..MaxRequests /\ used \in BOOLEAN
  /\ response \in {"none", "token", "error"} /\ granted \in BOOLEAN
  /\ timer \in {"off", "waiting", "due", "asking", "done"} /\ timerHttpd \in BOOLEAN
  /\ device \in [left : Int, answer : {"none", "pending", "slow_down", "denied", "token"}]

OAuthInit ==
  /\ oauthPc = "idle" /\ serverState = "off" /\ stopAsked = FALSE /\ callbacks = <<>>
  /\ sent = 0 /\ used = FALSE /\ response = "none" /\ granted = FALSE
  /\ timer = "off" /\ timerHttpd = FALSE /\ device = [left |-> 0, answer |-> "none"]

-----------------------------------------------------------------------------
(* The web flow.                                                               *)

\* The port is taken, or the server listens, the browser opens and the timer starts.
auth_code_flow ==
  /\ oauthPc = "idle"
  /\ \/ oauthPc' = "failed" /\ UNCHANGED <<serverState, timer, timerHttpd>>
     \/ oauthPc' = "serve" /\ serverState' = "serving" /\ timer' = "waiting" /\ timerHttpd' = TRUE
  /\ UNCHANGED <<stopAsked, callbacks, sent, used, response, granted, device>>

BrowserSends ==
  /\ serverState \in {"serving", "handling"} /\ sent < MaxRequests /\ sent' = sent + 1
  /\ \E c \in Callback : callbacks' = Append(callbacks, c)
  /\ UNCHANGED <<oauthPc, serverState, stopAsked, used, response, granted, timer, timerHttpd, device>>

\* A code can be exchanged once.
Grant == IF used THEN "error" ELSE "token"

\* do_GET. A request that is neither a code nor a full error raises in the handler, and the
\* server goes on; so does a code whose exchange meets a network error. The last exchange
\* is the response; an error is one only if there is none yet. The server is then asked to
\* stop, by a thread of its own.
do_GET ==
  /\ serverState = "serving" /\ ~stopAsked /\ callbacks # <<>>
  /\ callbacks' = Tail(callbacks)
  /\ CASE Head(callbacks) = "code" ->
            \/ UNCHANGED <<serverState, response, used, granted>>
            \/ /\ serverState' = "handling" /\ response' = Grant /\ used' = TRUE
               /\ granted' = (granted \/ Grant = "token")
       [] Head(callbacks) = "error" ->
            /\ serverState' = "handling" /\ response' = IF response = "none" THEN "error" ELSE response
            /\ UNCHANGED <<used, granted>>
       [] OTHER -> UNCHANGED <<serverState, response, used, granted>>
  /\ UNCHANGED <<oauthPc, stopAsked, sent, timer, timerHttpd, device>>

\* shutdown() waits for the loop to end: the loop cannot call it.
ShutdownInHandler == FALSE
ShutdownThread == serverState = "handling"

Respond ==
  /\ ShutdownThread
  /\ \/ stopAsked' = TRUE      \* the thread runs before the loop looks at its next request
     \/ UNCHANGED stopAsked
  /\ serverState' = "serving"
  /\ UNCHANGED <<oauthPc, callbacks, sent, used, response, granted, timer, timerHttpd, device>>

\* The thread of a request that has been answered.
ShutdownLate ==
  /\ serverState = "serving" /\ ~stopAsked /\ response # "none" /\ stopAsked' = TRUE
  /\ UNCHANGED <<oauthPc, serverState, callbacks, sent, used, response, granted, timer, timerHttpd, device>>

\* serve_forever ends.
ServerStops ==
  /\ serverState = "serving" /\ stopAsked /\ serverState' = "down" /\ oauthPc' = "closing"
  /\ UNCHANGED <<stopAsked, callbacks, sent, used, response, granted, timer, timerHttpd, device>>

\* The timeout thread: the time is up; the check; the request.
TimeIsUp ==
  /\ timer = "waiting"
  /\ timer' = IF timerHttpd THEN "due" ELSE "done"
  /\ UNCHANGED <<oauthPc, serverState, stopAsked, callbacks, sent, used, response, granted, timerHttpd, device>>

TimerAsks ==
  /\ timer = "due" /\ timer' = "done"
  /\ stopAsked' = (stopAsked \/ (timerHttpd /\ serverState # "down"))
  /\ UNCHANGED <<oauthPc, serverState, callbacks, sent, used, response, granted, timerHttpd, device>>

\* The main thread goes on: the timer is told, the response is looked at.
Quit ==
  /\ oauthPc = "closing" /\ oauthPc' = "validate" /\ timerHttpd' = FALSE
  /\ UNCHANGED <<serverState, stopAsked, callbacks, sent, used, response, granted, timer, device>>

ValidAnything == response # "none"
Valid == response = "token"

validate_response ==
  /\ oauthPc = "validate" /\ oauthPc' = IF Valid THEN "ok" ELSE "failed"
  /\ UNCHANGED <<serverState, stopAsked, callbacks, sent, used, response, granted, timer, timerHttpd, device>>

-----------------------------------------------------------------------------
(* The device flow.                                                            *)

DeviceUnchanged ==
  UNCHANGED <<serverState, stopAsked, callbacks, sent, used, response, granted, timer, timerHttpd>>

get_device_code ==
  /\ oauthPc = "idle"
  /\ \/ oauthPc' = "failed" /\ UNCHANGED device
     \/ oauthPc' = "poll" /\ device' = [left |-> ExpiresIn, answer |-> "none"]
  /\ DeviceUnchanged

\* Without time left the last answer is returned, whatever it is. The interval the server
\* asks for counts for one wait.
get_device_oauth_token ==
  /\ oauthPc = "poll"
  /\ IF device.left <= 0
     THEN oauthPc' = "ok" /\ UNCHANGED device
     ELSE \/ \E a \in {"pending", "slow_down"}, i \in Intervals :
               UNCHANGED oauthPc /\ device' = [left |-> device.left - i, answer |-> a]
          \/ oauthPc' = "ok" /\ device' = [device EXCEPT !.answer = "token"]
          \/ oauthPc' = "failed" /\ device' = [device EXCEPT !.answer = "denied"]
  /\ DeviceUnchanged

ServerStep == Respond \/ ServerStops
TimerStep == TimeIsUp \/ TimerAsks
MainStep == Quit \/ validate_response \/ get_device_oauth_token

OAuthNext ==
  \/ auth_code_flow \/ BrowserSends \/ do_GET \/ get_device_code
  \/ ServerStep \/ ShutdownLate \/ TimerStep \/ MainStep

OAuthSpec == OAuthInit /\ [][OAuthNext]_oauthVars

-----------------------------------------------------------------------------
(* Properties.                                                                 *)

\* A web flow that ends well has a token, and one that fails after a code was exchanged had
\* a second code, or the same again, in a later request.
FlowHasItsToken ==
  /\ (oauthPc = "ok" /\ serverState = "down" => granted /\ response = "token")
  /\ (oauthPc = "failed" /\ granted => sent >= 2)

\* Whatever browsers send, or do not, both flows end: the timer stops a server nobody
\* called, and each wait takes time from the life of the code. It takes intervals that are
\* not zero.
FlowWaits == oauthPc \in {"serve", "poll"}
FlowOver == oauthPc \in {"ok", "failed"}
FlowEnds == FlowWaits ~> FlowOver

\* The docstring of get_device_oauth_token: "@returns a dict including the access token".
DeviceReturnsToken == oauthPc = "ok" /\ serverState = "off" => device.answer = "token"
=============================================================================
