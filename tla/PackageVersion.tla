--------------------------- MODULE PackageVersion ---------------------------
(***************************************************************************)
(* Creation and promotion of a second-generation package version           *)
(* (cumulusci/tasks/create_package_version.py,                             *)
(* cumulusci/tasks/salesforce/promote_package_version.py).                 *)
(*                                                                         *)
(* The request for the version of the project's package is put together    *)
(* while other requests are made, one for every dependency that has to be  *)
(* packaged first; all use the task's one request_id and one poll.  The    *)
(* task may fail at every call and be run again; the server keeps the      *)
(* requests, and finds one by the hash of the package's content.           *)
(***************************************************************************)
EXTENDS Integers, Sequences, FiniteSets

CONSTANTS
  Needs,     \* the project's dependencies, then its directories in unpackaged/pre
  MaxRuns    \* how often one of the two tasks is run

\* The package of the project.
Main == "main"

\* What becomes of a dependency: "id" has a version; "unmanaged" is a
\* subfolder of a repository, "local" a directory of this one, both to be
\* packaged; "flow" is skipped.
Need == [kind : {"id", "unmanaged", "local", "flow"}, package : STRING]

\* get_static_dependencies leaves out what occurs twice; no dependency is the
\* project's own package.
ASSUME NeedsAssumption ==
  /\ Needs \in Seq(Need) /\ MaxRuns \in Nat
  /\ \A k, l \in DOMAIN Needs : Needs[k].package = Needs[l].package => k = l
  /\ \A k \in DOMAIN Needs : Needs[k].package # Main

VARIABLES
  verPc,          \* where the task is
  option,         \* the options of this run
  next,           \* the next dependency to convert
  found,          \* new_dependencies: the versions so far
  requestId,      \* self.request_id; 0 before there is one
  pollComplete,   \* self.poll_complete
  versionId,      \* self.package_version_id; that of the request it comes from
  requests,       \* server: the requests; the version a request makes has its number
  released,       \* server: the versions promoted
  runs            \* the runs so far

versionVars == <<verPc, option, next, found, requestId, pollComplete, versionId,
                 requests, released, runs>>

\* create_unlocked_dependency_packages, force_upload, skip_validation, promote_dependencies
Option == [unlocked : BOOLEAN, force : BOOLEAN, skip : BOOLEAN, promote : BOOLEAN]

Package == {Main} \cup {Needs[k].package : k \in DOMAIN Needs}

\* A version of a dependency that has one is known by the dependency, negated.
Request ==
  [package : Package, skip : BOOLEAN, forced : BOOLEAN, deps : Seq(Int),
   status : {"Queued", "Success", "Error"}]

VersionTypeOK ==
  /\ verPc \in {"idle", "check", "resolve", "dependency", "create", "poll",
                "promote", "target", "done", "failed"}
  /\ option \in Option
  /\ next \in 1..(Len(Needs) + 1)
  /\ found \in Seq(Int)
  /\ requests \in Seq(Request)
  /\ requestId \in 0..Len(requests) /\ versionId \in 0..Len(requests)
  /\ pollComplete \in BOOLEAN
  /\ released \subseteq DOMAIN requests
  /\ runs \in 0..MaxRuns

VersionInit ==
  /\ verPc = "idle"
  /\ option = [unlocked |-> FALSE, force |-> FALSE, skip |-> FALSE, promote |-> FALSE]
  /\ next = 1 /\ found = <<>>
  /\ requestId = 0 /\ pollComplete = FALSE /\ versionId = 0
  /\ requests = <<>> /\ released = {} /\ runs = 0

-----------------------------------------------------------------------------
(* The server.                                                             *)

ServerFinishes ==
  \E i \in DOMAIN requests, end \in {"Success", "Error"} :
    /\ requests[i].status = "Queued"
    /\ requests' = [requests EXCEPT ![i].status = end]
    /\ UNCHANGED <<verPc, option, next, found, requestId, pollComplete, versionId,
                   released, runs>>

-----------------------------------------------------------------------------
(* create_package_version.                                                 *)

\* _init_options, _init_task: a new task object.
RunCreate ==
  /\ verPc \in {"idle", "done", "failed"} /\ runs < MaxRuns
  /\ runs' = runs + 1
  /\ option' \in {o \in Option : ~o.promote}
  /\ verPc' = "check"
  /\ next' = 1 /\ found' = <<>>
  /\ requestId' = 0 /\ pollComplete' = FALSE /\ versionId' = 0
  /\ UNCHANGED <<requests, released>>

\* Mutant: only finished versions are looked for.
ExistingFinished(package, skip) ==
  {i \in DOMAIN requests :
     /\ requests[i].package = package /\ requests[i].skip = skip
     /\ requests[i].status = "Success"}

\* The requests for the same content that did not fail.
Existing(package, skip) ==
  {i \in DOMAIN requests :
     /\ requests[i].package = package /\ requests[i].skip = skip
     /\ requests[i].status # "Error"}

\* ORDER BY CreatedDate DESC
Newest(found_) == CHOOSE i \in found_ : \A j \in found_ : j <= i

Reused(package, skip) == ~option.force /\ Existing(package, skip) # {}

\* _create_version_request for the project's package: an existing request is used
\* as it is; otherwise its dependencies come first, unless there is no validation.
CheckMain ==
  /\ verPc = "check"
  /\ IF Reused(Main, option.skip)
     THEN verPc' = "poll" /\ requestId' = Newest(Existing(Main, option.skip))
     ELSE verPc' = (IF option.skip THEN "create" ELSE "resolve") /\ UNCHANGED requestId
  /\ UNCHANGED <<option, next, found, pollComplete, versionId, requests, released, runs>>

NewRequest(package, skip, deps) ==
  [package |-> package, skip |-> skip, forced |-> option.force, deps |-> deps,
   status |-> "Queued"]

NeedsPackage(n) == Needs[n].kind \in {"unmanaged", "local"} /\ option.unlocked

\* Mutant: the version is taken for made when it is asked for.
ConvertAtOnce ==
  /\ verPc = "resolve" /\ next \in DOMAIN Needs
  /\ next' = next + 1
  /\ IF NeedsPackage(next)
     THEN /\ requests' = Append(requests, NewRequest(Needs[next].package, FALSE, found))
          /\ found' = Append(found, Len(requests) + 1)
     ELSE /\ found' = IF Needs[next].kind = "id" THEN Append(found, -next) ELSE found
          /\ UNCHANGED requests
  /\ UNCHANGED <<verPc, option, requestId, pollComplete, versionId, released, runs>>

\* _convert_project_dependencies: what needs no package.
Convert ==
  /\ verPc = "resolve" /\ next \in DOMAIN Needs /\ ~NeedsPackage(next)
  /\ next' = next + 1
  /\ found' = IF Needs[next].kind = "id" THEN Append(found, -next) ELSE found
  /\ UNCHANGED <<verPc, option, requestId, pollComplete, versionId, requests, released, runs>>

\* _create_unlocked_package_from_unmanaged_dep, _from_local: a package of its own,
\* which depends on all that came before it.
RequestDependency ==
  /\ verPc = "resolve" /\ next \in DOMAIN Needs /\ NeedsPackage(next)
  /\ LET package == Needs[next].package IN
       IF Reused(package, FALSE)
       THEN requestId' = Newest(Existing(package, FALSE)) /\ UNCHANGED requests
       ELSE /\ requests' = Append(requests, NewRequest(package, FALSE, found))
            /\ requestId' = Len(requests) + 1
  /\ verPc' = "dependency"
  /\ UNCHANGED <<option, next, found, pollComplete, versionId, released, runs>>

\* _poll_action; one round of _poll goes on when poll_complete is set.
PollAction(whenComplete) ==
  /\ requestId # 0 /\ requests[requestId].status # "Error"
  /\ IF requests[requestId].status = "Success"
     THEN versionId' = requestId ELSE UNCHANGED versionId
  /\ pollComplete \/ requests[requestId].status = "Success"
  /\ whenComplete

\* Mutant: _reset_poll is left out.
PollDependencyNoReset ==
  /\ verPc = "dependency"
  /\ PollAction(/\ pollComplete' = TRUE
                /\ found' = Append(found, versionId')
                /\ next' = next + 1 /\ verPc' = "resolve")
  /\ UNCHANGED <<option, requestId, requests, released, runs>>

PollDependency ==
  /\ verPc = "dependency"
  /\ PollAction(/\ pollComplete' = FALSE   \* _reset_poll
                /\ found' = Append(found, versionId')
                /\ next' = next + 1 /\ verPc' = "resolve")
  /\ UNCHANGED <<option, requestId, requests, released, runs>>

Resolved ==
  /\ verPc = "resolve" /\ next \notin DOMAIN Needs
  /\ verPc' = "create"
  /\ UNCHANGED <<option, next, found, requestId, pollComplete, versionId, requests,
                 released, runs>>

CreateMain ==
  /\ verPc = "create"
  /\ requests' = Append(requests, NewRequest(Main, option.skip, found))
  /\ requestId' = Len(requests) + 1
  /\ verPc' = "poll"
  /\ UNCHANGED <<option, next, found, pollComplete, versionId, released, runs>>

PollMain ==
  /\ verPc = "poll"
  /\ PollAction(pollComplete' = TRUE /\ verPc' = "done")
  /\ UNCHANGED <<option, next, found, requestId, requests, released, runs>>

\* PackageUploadFailure
RequestFailed ==
  /\ verPc \in {"dependency", "poll"} /\ requests[requestId].status = "Error"
  /\ verPc' = "failed"
  /\ UNCHANGED <<option, next, found, requestId, pollComplete, versionId, requests,
                 released, runs>>

-----------------------------------------------------------------------------
(* promote_package_version.                                                *)

\* _get_dependency_info: those of the version's dependencies that the Dev Hub has.
TwoGP(v) == {n \in DOMAIN requests[v].deps : requests[v].deps[n] > 0}

Unpromoted(v) == {n \in TwoGP(v) : requests[v].deps[n] \notin released}

\* A version is promoted in a later job, by the id it had.
RunPromote(v) ==
  /\ verPc \in {"idle", "done", "failed"} /\ runs < MaxRuns
  /\ v \in DOMAIN requests /\ requests[v].package = Main /\ requests[v].status = "Success"
  /\ runs' = runs + 1
  /\ option' \in {o \in Option : ~o.unlocked /\ ~o.force /\ ~o.skip}
  /\ versionId' = v
  /\ verPc' = IF Unpromoted(v) = {} THEN "target"
              ELSE IF option'.promote THEN "promote" ELSE "done"
  /\ UNCHANGED <<next, found, requestId, pollComplete, requests, released>>

\* Mutant: the last one first.
PromoteDependencyLast ==
  /\ verPc = "promote" /\ Unpromoted(versionId) # {}
  /\ LET n == CHOOSE n \in Unpromoted(versionId) : \A m \in Unpromoted(versionId) : m <= n
     IN released' = released \cup {requests[versionId].deps[n]}
  /\ UNCHANGED <<verPc, option, next, found, requestId, pollComplete, versionId,
                 requests, runs>>

PromoteDependency ==
  /\ verPc = "promote" /\ Unpromoted(versionId) # {}
  /\ LET n == CHOOSE n \in Unpromoted(versionId) : \A m \in Unpromoted(versionId) : n <= m
     IN released' = released \cup {requests[versionId].deps[n]}
  /\ UNCHANGED <<verPc, option, next, found, requestId, pollComplete, versionId,
                 requests, runs>>

\* _promote_package_version; the server refuses a version that was not validated.
PromoteTarget ==
  /\ \/ verPc = "target"
     \/ verPc = "promote" /\ Unpromoted(versionId) = {}
  /\ IF requests[versionId].skip
     THEN verPc' = "failed" /\ UNCHANGED released
     ELSE verPc' = "done" /\ released' = released \cup {versionId}
  /\ UNCHANGED <<option, next, found, requestId, pollComplete, versionId, requests, runs>>

-----------------------------------------------------------------------------
\* Any call may fail, and the process may be killed.
Fail ==
  /\ verPc \notin {"idle", "done", "failed"}
  /\ verPc' = "failed"
  /\ UNCHANGED <<option, next, found, requestId, pollComplete, versionId, requests,
                 released, runs>>

CreateStep ==
  \/ CheckMain \/ Convert \/ RequestDependency \/ PollDependency \/ Resolved
  \/ CreateMain \/ PollMain \/ RequestFailed

VersionNext ==
  \/ RunCreate \/ CreateStep
  \/ (\E v \in DOMAIN requests : RunPromote(v)) \/ PromoteDependency \/ PromoteTarget
  \/ ServerFinishes \/ Fail

VersionSpec == VersionInit /\ [][VersionNext]_versionVars

-----------------------------------------------------------------------------
(* Properties.                                                             *)

\* The version a run returns is the one made of the project's package, and it is
\* finished: no poll for a dependency ended the wait for it.
VersionIsOwn ==
  verPc = "done" /\ versionId # 0 =>
    requests[versionId].package = Main /\ requests[versionId].status = "Success"

NeedOf(package) == CHOOSE k \in DOMAIN Needs : Needs[k].package = package

\* Where the project names the dependency that a version is of.
Rank(v, asked) == IF v < 0 THEN -v ELSE NeedOf(asked[v].package)

\* The dependencies a request names, in the order of the project: each was
\* finished before, and is a version of the package that is meant.
DependenciesComeFirst ==
  \A i \in DOMAIN requests : \A n \in DOMAIN requests[i].deps :
    LET d == requests[i].deps[n] IN
      /\ d > 0 => d < i /\ requests[d].status = "Success"
      /\ \A m \in DOMAIN requests[i].deps : m < n =>
           Rank(requests[i].deps[m], requests) < Rank(d, requests)

\* One content is packaged once, however often the tasks fail and are run again:
\* a second request for it was forced, or the first one is an error.
OncePerContent ==
  \A i, j \in DOMAIN requests :
    /\ i < j /\ requests[i].status # "Error"
    /\ requests[i].package = requests[j].package /\ requests[i].skip = requests[j].skip
    => requests[j].forced

\* What is released was promoted as the project's version asks for it, wherever a
\* promotion stopped: a version of the project after all it depends on, a dependency
\* after those before it.
ReleasedInOrder ==
  \A d \in released : \E v \in DOMAIN requests :
    /\ requests[v].package = Main
    /\ \/ d = v /\ Unpromoted(v) = {}
       \/ \E n \in TwoGP(v) :
            /\ requests[v].deps[n] = d
            /\ \A m \in Unpromoted(v) : m >= n

\* Does not hold from four runs on.  A dependency that is found by its content may have
\* been made with a version of another that was forced anew since: what it was made
\* with is not among what the project's version names, and is not promoted.
ReleasedAfterItsOwn == \A v \in released : Unpromoted(v) = {}
=============================================================================
