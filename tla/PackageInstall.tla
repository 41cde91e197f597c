--------------------------- MODULE PackageInstall ---------------------------
(***************************************************************************)
(* Metadata API calls (cumulusci/salesforce_api/metadata.py) and the       *)
(* installation of a package, which retries them (package_install.py,      *)
(* cumulusci/utils/waiting.py).                                            *)
(*                                                                         *)
(* A call starts something on the server, polls it and reads its result;   *)
(* every message may find the session expired, be refused, or be lost      *)
(* together with its answer.  `jobs' is what the server was asked to do:   *)
(* deployments, retrievals and PackageInstallRequests.                     *)
(***************************************************************************)
EXTENDS Integers, Sequences, FiniteSets

CONSTANTS
  Retries,       \* retry_options["retries"]
  MaxExpiries    \* how often the session expires

ASSUME InstallAssumption == Retries \in Nat /\ MaxExpiries \in Nat

VARIABLES
  client,     \* who calls
  callPc,     \* where the call is
  fresh,      \* this message has not yet refreshed the session
  status,     \* BaseMetadataApiCall.status
  processId,  \* the job polled; 0 before there is one
  jobs,       \* server: the state of each job
  session,    \* server: whether the access token is accepted, and expiries so far
  innerLeft,  \* the retries left to retry() around the deployment
  outerLeft,  \* the retries left to retry() around the installation
  attempts,   \* how often a job was asked for
  raised      \* the exception on its way, or that ended the call

installVars == <<client, callPc, fresh, status, processId, jobs, session,
                 innerLeft, outerLeft, attempts, raised>>

Client ==
  {"namespace",   \* install_package_by_namespace_version
   "versionId",   \* install_package_by_version_id
   "deploy", "retrieve", "list"}   \* a task that makes one such call

Soap == Client \ {"versionId"}

\* ApiListMetadata, ApiNewProfile, ApiListMetadataTypes have no status envelope: the
\* first answer is the result.
AnsweredAtOnce == {"list"}

\* The ApiRetrieve classes have a result envelope, sent when the status is final;
\* its answer holds the zip file.
HasResult == {"retrieve"}

\* "retryable": its text is one of RETRY_PACKAGE_ERRORS, its class one that
\* should_retry knows.  The others are not to be retried.
Exception == {"no", "retryable", "error", "oauth", "connection"}

InstallTypeOK ==
  /\ client \in Client \cup {"none"}
  /\ callPc \in {"idle", "start", "poll", "result", "process", "raised", "ended"}
  /\ fresh \in BOOLEAN
  /\ status \in {"None", "Pending", "InProgress", "Done", "Failed"}
  /\ jobs \in Seq({"Pending", "InProgress", "Succeeded", "Failed"})
  /\ processId \in 0..Len(jobs)
  /\ session \in [valid : BOOLEAN, expiries : 0..MaxExpiries]
  /\ innerLeft \in 0..Retries /\ outerLeft \in 0..Retries
  /\ attempts \in Nat
  /\ raised \in Exception

InstallInit ==
  /\ client = "none" /\ callPc = "idle" /\ fresh = TRUE
  /\ status = "None" /\ processId = 0
  /\ jobs = <<>> /\ session = [valid |-> TRUE, expiries |-> 0]
  /\ innerLeft = Retries /\ outerLeft = Retries /\ attempts = 0
  /\ raised = "no"

-----------------------------------------------------------------------------
(* The server.                                                             *)

Expire ==
  /\ session.valid /\ session.expiries < MaxExpiries
  /\ session' = [valid |-> FALSE, expiries |-> session.expiries + 1]
  /\ UNCHANGED <<client, callPc, fresh, status, processId, jobs, innerLeft, outerLeft,
                 attempts, raised>>

ServerWorks(j) ==
  /\ j \in DOMAIN jobs
  /\ \/ jobs[j] = "Pending" /\ jobs' = [jobs EXCEPT ![j] = "InProgress"]
     \/ /\ jobs[j] = "InProgress"
        /\ \E end \in {"Succeeded", "Failed"} : jobs' = [jobs EXCEPT ![j] = end]
  /\ UNCHANGED <<client, callPc, fresh, status, processId, session, innerLeft,
                 outerLeft, attempts, raised>>

-----------------------------------------------------------------------------
(* One call.                                                               *)

RaiseInCall(what) == callPc' = "raised" /\ raised' = what

\* A new BaseMetadataApiCall, or a new PackageInstallRequest.
NewCall ==
  callPc' = "start" /\ fresh' = TRUE /\ status' = "None" /\ processId' = 0

Begin ==
  /\ callPc = "idle"
  /\ client' \in Client
  /\ NewCall
  /\ UNCHANGED <<jobs, session, innerLeft, outerLeft, attempts, raised>>

\* _call_mdapi, _handle_soap_error: a message whose session is not valid has
\* it refreshed and is sent again, once.  The REST calls of the Tooling API are not.
InvalidSession ==
  /\ callPc \in {"start", "poll", "result"} /\ ~session.valid
  /\ \/ /\ client \in Soap /\ fresh
        /\ fresh' = FALSE
        /\ session' = [session EXCEPT !.valid = TRUE]
        /\ UNCHANGED <<callPc, status, raised>>
     \/ /\ client \in Soap /\ fresh
        /\ RaiseInCall("oauth") /\ UNCHANGED <<fresh, status, session>>
     \/ /\ client \in Soap /\ ~fresh
        /\ status' = "Failed"
        /\ RaiseInCall("error") /\ UNCHANGED <<fresh, session>>
     \/ /\ client \notin Soap
        /\ RaiseInCall("error") /\ UNCHANGED <<fresh, status, session>>
  /\ UNCHANGED <<client, processId, jobs, innerLeft, outerLeft, attempts>>

\* The answer, or the request before it, is lost: an exception of the library.
Lost ==
  /\ callPc \in {"start", "poll", "result"}
  /\ RaiseInCall("connection")
  /\ \/ UNCHANGED <<jobs, attempts>>
     \/ /\ callPc = "start" /\ session.valid /\ client \notin AnsweredAtOnce
        /\ jobs' = Append(jobs, "Pending") /\ attempts' = attempts + 1
  /\ UNCHANGED <<client, fresh, status, processId, session, innerLeft, outerLeft>>

\* The server does not take the request: a fault, or an HTTP error.
Refused ==
  /\ callPc \in {"start", "poll", "result"} /\ session.valid
  /\ \E what \in {"error", "retryable"} :
       /\ what = "retryable" => callPc = "start"
       /\ RaiseInCall(what)
  /\ attempts' = IF callPc = "start" THEN attempts + 1 ELSE attempts
  /\ status' \in IF client \in Soap THEN {status, "Failed"} ELSE {status}
  /\ UNCHANGED <<client, fresh, processId, jobs, session, innerLeft, outerLeft>>

\* _get_response, _process_response_start; a call without a status envelope is
\* answered at once.
Start ==
  /\ callPc = "start" /\ session.valid
  /\ fresh' = TRUE
  /\ attempts' = attempts + 1
  /\ IF client \in AnsweredAtOnce
     THEN callPc' = "process" /\ UNCHANGED <<jobs, processId>>
     ELSE /\ jobs' = Append(jobs, "Pending")
          /\ processId' = Len(jobs) + 1
          /\ callPc' = "poll"
  /\ UNCHANGED <<client, status, session, innerLeft, outerLeft, raised>>

\* The statuses _process_response_status makes of a job's state: what is in progress
\* is so once the answer has a stateDetail; a failed deployment is "Done" unless the
\* answer has an errorMessage.
StatusOf(state) ==
  CASE state = "Pending"    -> {"Pending"}
    [] state = "InProgress" -> IF status = "InProgress" THEN {"InProgress"}
                               ELSE {"InProgress", "Pending"}
    [] state = "Succeeded"  -> {"Done"}
    [] state = "Failed"     -> {"Done", "Failed"}

Poll ==
  /\ callPc = "poll" /\ session.valid
  /\ status' \in StatusOf(jobs[processId])
  /\ fresh' = TRUE
  /\ callPc' = IF status' \notin {"Done", "Failed"} THEN "poll"
               ELSE IF client \in HasResult THEN "result" ELSE "process"
  /\ UNCHANGED <<client, processId, jobs, session, innerLeft, outerLeft, attempts, raised>>

\* checkRetrieveStatus is sent for a failed retrieval as well.
Result ==
  /\ callPc = "result" /\ session.valid
  /\ fresh' = TRUE /\ callPc' = "process"
  /\ UNCHANGED <<client, status, processId, jobs, session, innerLeft, outerLeft,
                 attempts, raised>>

JobFailed == client \notin AnsweredAtOnce /\ jobs[processId] = "Failed"

\* Mutant: all that is done is taken for a success.
ProcessAnyDone ==
  /\ callPc = "process"
  /\ \/ status # "Failed" /\ callPc' = "ended" /\ raised' = "no"
     \/ status = "Failed" /\ \E what \in {"error", "retryable"} : RaiseInCall(what)
  /\ UNCHANGED <<client, fresh, status, processId, jobs, session, innerLeft,
                 outerLeft, attempts>>

\* __call__ and _process_response: a failed deployment raises an exception with
\* its messages, which __call__ wraps in a MetadataParseError that keeps them; the
\* ERROR of a PackageInstallRequest is of a class that is not retried.  The zip
\* of a retrieval and the answer to a list may not parse, which is an error too.
Process ==
  /\ callPc = "process"
  /\ \/ /\ status # "Failed" /\ ~JobFailed
        /\ callPc' = "ended" /\ raised' = "no"
     \/ /\ status = "Failed" \/ JobFailed \/ client \in AnsweredAtOnce \cup HasResult
        /\ \E what \in {"error", "retryable"} :
             (client = "versionId" => what = "error") /\ RaiseInCall(what)
  /\ UNCHANGED <<client, fresh, status, processId, jobs, session, innerLeft,
                 outerLeft, attempts>>

-----------------------------------------------------------------------------
(* retry(): install_package_by_namespace_version retries a function that   *)
(* retries the deployment, both with the same options.                     *)

\* Mutant: the default should_retry, which says yes to every exception.
_should_retryAlways == raised # "no"

_should_retry == raised = "retryable"

InnerRetry ==
  /\ callPc = "raised" /\ client = "namespace"
  /\ innerLeft > 0 /\ _should_retry
  /\ innerLeft' = innerLeft - 1
  /\ NewCall /\ raised' = "no"
  /\ UNCHANGED <<client, jobs, session, outerLeft, attempts>>

\* Mutant: the first try is not counted when the retries start over.
OuterRetryOneMore ==
  /\ callPc = "raised" /\ client \in {"namespace", "versionId"}
  /\ client = "namespace" => innerLeft = 0
  /\ outerLeft > 0 /\ _should_retry
  /\ outerLeft' = outerLeft - 1
  /\ innerLeft' = Retries + 1
  /\ NewCall /\ raised' = "no"
  /\ UNCHANGED <<client, jobs, session, attempts>>

OuterRetry ==
  /\ callPc = "raised" /\ client \in {"namespace", "versionId"}
  /\ client = "namespace" => innerLeft = 0
  /\ outerLeft > 0 /\ _should_retry
  /\ outerLeft' = outerLeft - 1
  /\ innerLeft' = Retries
  /\ NewCall /\ raised' = "no"
  /\ UNCHANGED <<client, jobs, session, attempts>>

\* Mutant: only what should not be retried is raised.
GiveUpUnlessRetryable ==
  /\ callPc = "raised"
  /\ ~_should_retry \/ client \notin {"namespace", "versionId"}
  /\ callPc' = "ended"
  /\ UNCHANGED <<client, fresh, status, processId, jobs, session, innerLeft,
                 outerLeft, attempts, raised>>

GiveUp ==
  /\ callPc = "raised"
  /\ \/ ~_should_retry
     \/ client \notin {"namespace", "versionId"}
     \/ outerLeft = 0 /\ (client = "namespace" => innerLeft = 0)
  /\ callPc' = "ended"
  /\ UNCHANGED <<client, fresh, status, processId, jobs, session, innerLeft,
                 outerLeft, attempts, raised>>

CallStep ==
  \/ InvalidSession \/ Refused \/ Start \/ Poll \/ Result \/ Process
  \/ InnerRetry \/ OuterRetry \/ GiveUp

ServerStep == \E j \in DOMAIN jobs : ServerWorks(j)

InstallNext == Begin \/ CallStep \/ ServerStep \/ Expire \/ Lost

InstallSpec == InstallInit /\ [][InstallNext]_installVars

\* One thread; the server brings every job to an end.
InstallFairness == WF_installVars(CallStep) /\ WF_installVars(ServerStep)

-----------------------------------------------------------------------------
(* Properties.                                                             *)

Unfinished == {j \in DOMAIN jobs : jobs[j] \in {"Pending", "InProgress"}}

\* The org is never given a second deployment while one is still running: what
\* is retried has failed, and what may still be running is not retried.
OneRequestAtATime == Cardinality(Unfinished) <= 1

\* An installation that returns has installed the package, once: the job it
\* waited for succeeded, and none before it did.
ReturnedMeansInstalledOnce ==
  callPc = "ended" /\ raised = "no" /\ client \notin AnsweredAtOnce =>
    {j \in DOMAIN jobs : jobs[j] = "Succeeded"} = {processId}

\* Two nested retries multiply: with the default of 20 retries a package is tried
\* 441 times before the installation fails.
AttemptsBounded ==
  attempts <= IF client = "namespace" THEN (Retries + 1) * (Retries + 1) ELSE Retries + 1

\* Every call ends, whatever expires and is refused.
CallEnds == callPc # "idle" ~> callPc = "ended"

\* Does not hold.  "Number of retries" (tasks/salesforce/install_package_version.py:44):
\* a package is tried once, and then as often as there are retries.
RetriesAreCounted == attempts <= Retries + 1
=============================================================================
