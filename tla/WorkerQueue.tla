----------------------------- MODULE WorkerQueue -----------------------------
(***************************************************************************)
(* Pipelines of hot-folder worker queues                                   *)
(* (cumulusci/utils/parallel/task_worker_queues).                          *)
(*                                                                         *)
(* A pipeline is a chain of WorkerQueue objects, the outbox of one being   *)
(* the inbox of the next (feeds_data_to).  A job is a directory.  The      *)
(* controller, one thread, pushes jobs and calls tick(), which starts      *)
(* workers; a worker, a thread or a process per job and stage, runs the    *)
(* task and moves the job on under the pipeline's filesystem lock.  The    *)
(* controller takes that lock only to count directories: its own moves     *)
(* and its test of `full' are made without it.                             *)
(***************************************************************************)
EXTENDS Integers, FiniteSets, Functions

CONSTANTS
  Pipeline,     \* the pipelines, each with a lock and queues of its own
  NumStages,    \* queues per pipeline; queue s feeds queue s + 1
  NumWorkers,   \* NumWorkers[p][s]: simultaneous workers of a queue
  QueueSize,    \* QueueSize[s]: jobs that may wait beyond the free workers
  Job,          \* the job directories there may ever be
  PipelineOf,   \* the pipeline a job belongs to
  Reporting,    \* the stages whose queue was given a results_reporter
  MayRaise,     \* the workers whose task may raise
  MayVanish     \* the workers that may die holding their directory

Stage == 1..NumStages

Worker == Job \X Stage     \* one worker per job and stage

ASSUME QueueAssumption ==
  /\ NumStages \in Nat \ {0}
  /\ NumWorkers \in [Pipeline -> [Stage -> Nat]]
  /\ QueueSize \in [Stage -> Nat]
  /\ PipelineOf \in [Job -> Pipeline]
  /\ Reporting \subseteq Stage
  /\ MayRaise \subseteq Worker
  /\ MayVanish \subseteq Worker

ASSUME JobsFinite == IsFiniteSet(Job)

VARIABLES
  stage,     \* the queue a job is at, 0 before it is pushed
  dir,       \* the directory of that queue its files are in
  worker,    \* how far each worker has got
  listed,    \* the workers in the `workers' list of their queue
  lock,      \* lock[p]: the controller holds the filesystem lock of p
  call,      \* call[p]: the stage a tick() in progress does next, 0 if none
  results,   \* the reports put on the results queue and not yet read
  collated   \* the reports the controller has read and added up

queueVars == <<stage, dir, worker, listed, lock, call, results, collated>>

Dir == {"none", "inbox", "inprogress", "outbox", "failures"}

WorkerState ==
  {"none",       \* not started
   "running",    \* in subtask()
   "succeeded",  \* the task returned
   "reported",   \* and its success, if reported at all, was put
   "raised",     \* the task raised
   "discarded",  \* the directory went to failures; the error is not put yet
   "exiting",    \* nothing left to do, the thread or process still alive
   "dead"}       \* no longer alive

Report == [worker : Worker, status : {"success", "error"}]

TypeOK ==
  /\ stage \in [Job -> 0..NumStages]
  /\ dir \in [Job -> Dir]
  /\ worker \in [Worker -> WorkerState]
  /\ listed \subseteq Worker
  /\ lock \in [Pipeline -> BOOLEAN]
  /\ call \in [Pipeline -> 0..NumStages]
  /\ results \subseteq Report
  /\ collated \subseteq Report

-----------------------------------------------------------------------------
(* What a queue reads of itself.                                           *)

WorkersOf(p, s) == {w \in Worker : PipelineOf[w[1]] = p /\ w[2] = s}

JobsIn(p, s, d) ==
  {j \in Job : PipelineOf[j] = p /\ stage[j] = s /\ dir[j] = d}

is_alive(w) == worker[w] \notin {"none", "dead"}

NumFreeWorkers(p, s) ==
  NumWorkers[p][s]
    - Cardinality({w \in listed \cap WorkersOf(p, s) : is_alive(w)})

\* max(..., 0) in the code: there is space exactly when the sum is positive.
HasFreeSpace(p, s) ==
  NumFreeWorkers(p, s) + QueueSize[s] - Cardinality(JobsIn(p, s, "inbox")) > 0

\* Mutant: a queue is full only by itself.
FullHereOnly(p, s) == ~HasFreeSpace(p, s)

\* A queue is full when it, or a queue downstream of it, has no free space.
Full(p, s) == \E t \in s..NumStages : ~HasFreeSpace(p, t)

-----------------------------------------------------------------------------
(* The controller.                                                         *)

QueueInit ==
  /\ stage = [j \in Job |-> 0]
  /\ dir = [j \in Job |-> "none"]
  /\ worker = [w \in Worker |-> "none"]
  /\ listed = {}
  /\ lock = [p \in Pipeline |-> FALSE]
  /\ call = [p \in Pipeline |-> 0]
  /\ results = {}
  /\ collated = {}

\* push() of a job that is not queued anywhere yet, up to its call of tick().
Push(p, j) ==
  /\ PipelineOf[j] = p /\ stage[j] = 0 /\ call[p] = 0 /\ ~lock[p]
  /\ ~Full(p, 1)
  /\ stage' = [stage EXCEPT ![j] = 1]
  /\ dir' = [dir EXCEPT ![j] = "inbox"]
  /\ call' = [call EXCEPT ![p] = 1]
  /\ UNCHANGED <<worker, listed, lock, results, collated>>

CallTick(p) ==
  /\ call[p] = 0 /\ ~lock[p]
  /\ call' = [call EXCEPT ![p] = 1]
  /\ UNCHANGED <<stage, dir, worker, listed, lock, results, collated>>

\* The jobs one tick starts: as many as there are free workers, or all there
\* are, in whatever order the inbox is listed.
Startable(p, s) ==
  LET queued == JobsIn(p, s, "inbox")
      free   == NumFreeWorkers(p, s)
  IN {S \in SUBSET queued :
        IF Cardinality(queued) <= free THEN S = queued
        ELSE Cardinality(S) = IF free > 0 THEN free ELSE 0}

\* Mutant: the list of workers is replaced by the ones just started.
StartJobsForgetting(p, s, S) ==
  /\ dir' = [j \in Job |-> IF j \in S THEN "inprogress" ELSE dir[j]]
  /\ worker' = [w \in Worker |->
                  IF w[1] \in S /\ w[2] = s THEN "running" ELSE worker[w]]
  /\ listed' = (listed \ WorkersOf(p, s)) \cup (S \X {s})

\* One queue's part of tick(): forget the dead workers, start jobs, go on to
\* the next queue.
StartJobs(p, s, S) ==
  /\ dir' = [j \in Job |-> IF j \in S THEN "inprogress" ELSE dir[j]]
  /\ worker' = [w \in Worker |->
                  IF w[1] \in S /\ w[2] = s THEN "running" ELSE worker[w]]
  /\ listed' = {w \in listed : w \in WorkersOf(p, s) => is_alive(w)}
                 \cup (S \X {s})

\* Mutant: tick() does not go on to the next queue.
TickStageAlone(p, S) ==
  /\ call[p] # 0
  /\ S \in Startable(p, call[p])
  /\ StartJobs(p, call[p], S)
  /\ call' = [call EXCEPT ![p] = 0]
  /\ UNCHANGED <<stage, lock, results, collated>>

TickStage(p, S) ==
  /\ call[p] # 0
  /\ S \in Startable(p, call[p])
  /\ StartJobs(p, call[p], S)
  /\ call' = [call EXCEPT ![p] = IF @ = NumStages THEN 0 ELSE @ + 1]
  /\ UNCHANGED <<stage, lock, results, collated>>

\* Reading directories under the lock: between the two no worker moves a job.
AcquireLock(p) ==
  /\ call[p] = 0 /\ ~lock[p]
  /\ lock' = [lock EXCEPT ![p] = TRUE]
  /\ UNCHANGED <<stage, dir, worker, listed, call, results, collated>>

ReleaseLock(p) ==
  /\ lock[p]
  /\ lock' = [lock EXCEPT ![p] = FALSE]
  /\ UNCHANGED <<stage, dir, worker, listed, call, results, collated>>

\* get_results_report() until Empty.
Drain ==
  /\ results' = {}
  /\ collated' = collated \cup results
  /\ UNCHANGED <<stage, dir, worker, listed, lock, call>>

-----------------------------------------------------------------------------
(* A worker: TaskWorker.run in a thread or a process of its own.           *)

Becomes(w, from, to) ==
  /\ worker[w] = from
  /\ worker' = [worker EXCEPT ![w] = to]

Put(w, status) ==
  results' = IF w[2] \in Reporting
             THEN results \cup {[worker |-> w, status |-> status]}
             ELSE results

TaskReturns(w) ==
  /\ Becomes(w, "running", "succeeded")
  /\ UNCHANGED <<stage, dir, listed, lock, call, results, collated>>

TaskRaises(w) ==
  /\ w \in MayRaise
  /\ Becomes(w, "running", "raised")
  /\ UNCHANGED <<stage, dir, listed, lock, call, results, collated>>

ReportSuccess(w) ==
  /\ Becomes(w, "succeeded", "reported")
  /\ Put(w, "success")
  /\ UNCHANGED <<stage, dir, listed, lock, call, collated>>

\* Mutant: the last queue feeds one more.
MoveToNextInbox(w) ==
  LET j == w[1] IN
  /\ ~lock[PipelineOf[j]]
  /\ Becomes(w, "reported", "exiting")
  /\ stage' = [stage EXCEPT ![j] = @ + 1]
  /\ dir' = [dir EXCEPT ![j] = IF stage[j] = NumStages THEN "outbox" ELSE "inbox"]
  /\ UNCHANGED <<listed, lock, call, results, collated>>

\* Mutant: the directory is moved without the filesystem lock.
MoveToOutboxUnlocked(w) ==
  LET j == w[1] IN
  /\ Becomes(w, "reported", "exiting")
  /\ stage' = [stage EXCEPT ![j] = IF @ = NumStages THEN @ ELSE @ + 1]
  /\ dir' = [dir EXCEPT ![j] = IF stage[j] = NumStages THEN "outbox" ELSE "inbox"]
  /\ UNCHANGED <<listed, lock, call, results, collated>>

\* The outbox of a queue that feeds another is the other's inbox.
MoveToOutbox(w) ==
  LET j == w[1] IN
  /\ ~lock[PipelineOf[j]]
  /\ Becomes(w, "reported", "exiting")
  /\ stage' = [stage EXCEPT ![j] = IF @ = NumStages THEN @ ELSE @ + 1]
  /\ dir' = [dir EXCEPT ![j] = IF stage[j] = NumStages THEN "outbox" ELSE "inbox"]
  /\ UNCHANGED <<listed, lock, call, results, collated>>

\* Mutant: a job that failed goes back to the inbox, to be tried again.
MoveBackToInbox(w) ==
  /\ ~lock[PipelineOf[w[1]]]
  /\ Becomes(w, "raised", "discarded")
  /\ dir' = [dir EXCEPT ![w[1]] = "inbox"]
  /\ UNCHANGED <<stage, listed, lock, call, results, collated>>

MoveToFailures(w) ==
  /\ ~lock[PipelineOf[w[1]]]
  /\ Becomes(w, "raised", "discarded")
  /\ dir' = [dir EXCEPT ![w[1]] = "failures"]
  /\ UNCHANGED <<stage, listed, lock, call, results, collated>>

\* Mutant: after the error is reported the worker goes on, the `raise' missing.
ReportErrorAndGoOn(w) ==
  /\ Becomes(w, "discarded", "reported")
  /\ Put(w, "error")
  /\ UNCHANGED <<stage, dir, listed, lock, call, collated>>

ReportError(w) ==
  /\ Becomes(w, "discarded", "exiting")
  /\ Put(w, "error")
  /\ UNCHANGED <<stage, dir, listed, lock, call, collated>>

Exit(w) ==
  /\ Becomes(w, "exiting", "dead")
  /\ UNCHANGED <<stage, dir, listed, lock, call, results, collated>>

\* The process is killed, or moving the directory to the outbox or to failures
\* fails: either way it stays where it is.
Vanish(w) ==
  /\ w \in MayVanish
  /\ worker[w] \in {"running", "reported", "raised"}
  /\ worker' = [worker EXCEPT ![w] = "dead"]
  /\ UNCHANGED <<stage, dir, listed, lock, call, results, collated>>

Runs(w) ==
  \/ TaskReturns(w)
  \/ TaskRaises(w)
  \/ ReportSuccess(w)
  \/ MoveToOutbox(w)
  \/ MoveToFailures(w)
  \/ ReportError(w)
  \/ Exit(w)

WorkerStep(w) == Runs(w) \/ Vanish(w)

-----------------------------------------------------------------------------
(* The queues with a client that pushes and ticks as it likes.             *)

ControllerStep(p) ==
  \/ \E j \in Job : Push(p, j)
  \/ CallTick(p)
  \/ \E S \in SUBSET Job : TickStage(p, S)
  \/ AcquireLock(p)
  \/ ReleaseLock(p)

QueueNext ==
  \/ \E p \in Pipeline : ControllerStep(p)
  \/ Drain
  \/ \E w \in Worker : WorkerStep(w)

QueueSpec == QueueInit /\ [][QueueNext]_queueVars

\* The controller finishes a tick it began, keeps coming back to tick again (its
\* loop ticks between any two counts made under the lock), and does not
\* sit on the lock.  The operating system runs every worker: strongly, because
\* a worker waiting for the lock is woken when the controller, which sleeps for
\* seconds between its counts, gives the lock back.
QueueFairness ==
  /\ \A w \in Worker : SF_queueVars(Runs(w))
  /\ \A p \in Pipeline :
       /\ WF_queueVars(\E S \in SUBSET Job : TickStage(p, S))
       /\ SF_queueVars(CallTick(p))
       /\ WF_queueVars(ReleaseLock(p))

QueueFairSpec == QueueSpec /\ QueueFairness

-----------------------------------------------------------------------------
(* What is promised of the queues.                                         *)

Alive(p, s) == {w \in WorkersOf(p, s) : is_alive(w)}

\* Never more threads or processes at a queue than its num_workers, although
\* tick() counts only the workers of its list (num_busy_workers) and forgets
\* the dead ones first.
WorkerBound ==
  \A p \in Pipeline, s \in Stage : Cardinality(Alive(p, s)) <= NumWorkers[p][s]

\* The states of a worker in which the directory is its own to work in and move.
Owning == {"running", "succeeded", "reported", "raised"}

\* A directory in progress belongs to one worker, the one started for it at its
\* queue, which is still to move it or may have died with it; and no worker
\* works in a directory that is anywhere else.
Ownership ==
  /\ \A j \in Job : dir[j] = "inprogress" =>
       \/ worker[<<j, stage[j]>>] \in Owning
       \/ worker[<<j, stage[j]>>] = "dead" /\ <<j, stage[j]>> \in MayVanish
  /\ \A w \in Worker : worker[w] \in Owning =>
       dir[w[1]] = "inprogress" /\ stage[w[1]] = w[2]

\* The report a worker makes: its job either left the stage or failed at it.
ReportOf(w) ==
  [worker |-> w,
   status |-> IF dir[w[1]] = "failures" /\ stage[w[1]] = w[2]
              THEN "error" ELSE "success"]

\* Mutant: only the directories are looked at.
QuietOnDisk(p) ==
  \A j \in Job : PipelineOf[j] = p => dir[j] \notin {"inbox", "inprogress"}

\* The directories and the worker lists of a pipeline are all empty: what
\* Channel.check_finished looks at to stop waiting.
Quiet(p) ==
  /\ \A w \in listed : PipelineOf[w[1]] # p
  /\ \A j \in Job : PipelineOf[j] = p => dir[j] \notin {"inbox", "inprogress"}

\* A quiet pipeline has nothing more to say: every job pushed onto it went
\* through all its stages or failed at one, and every report of a reporting
\* stage is on the results queue or has been read.
QuietIsSettled ==
  \A p \in Pipeline : Quiet(p) =>
    \A j \in Job : PipelineOf[j] = p /\ stage[j] # 0 =>
      /\ dir[j] = "failures" \/ (dir[j] = "outbox" /\ stage[j] = NumStages)
      /\ \A s \in Reporting \cap 1..stage[j] :
           ReportOf(<<j, s>>) \in results \cup collated

\* What takes up room in a pipeline: the jobs of its inboxes, those in progress,
\* and the workers of the last queue, in the way until they are gone.
InFlight(p) ==
  {w \in Worker : PipelineOf[w[1]] = p /\ stage[w[1]] = w[2]
                   /\ dir[w[1]] \in {"inbox", "inprogress"}}
    \cup Alive(p, NumStages)

Capacity(p) ==
  FoldFunction(+, 0, [s \in Stage |-> NumWorkers[p][s] + QueueSize[s]])

\* A push is refused while any queue of the pipeline is full, so when one is
\* accepted every queue has room for one more, and a job that moves on only takes
\* the room it had: there are never more jobs on disk than the capacity less the
\* places left free by the last push.  (The inbox of one queue may well exceed
\* its queue_size: what the queue before it had running is not refused.)
InFlightBound ==
  MayVanish = {} =>
    \A p \in Pipeline :
      InFlight(p) # {} => Cardinality(InFlight(p)) <= Capacity(p) - NumStages + 1

\* Every job pushed ends in the last outbox or among the failures.
Settles ==
  \A j \in Job : stage[j] # 0 ~> dir[j] \in {"outbox", "failures"}

\* A job is waiting while it is in an inbox, running while it is in progress, and
\* stuck when its worker died there.
PhaseOf(j) ==
  IF dir[j] = "inprogress"
  THEN IF worker[<<j, stage[j]>>] = "dead" THEN "stuck" ELSE "running"
  ELSE [none |-> "new", inbox |-> "waiting",
        outbox |-> "finished", failures |-> "failed"][dir[j]]

Flow == INSTANCE JobFlow WITH
  at <- stage,
  phase <- [j \in Job |-> PhaseOf(j)]

\* The queues implement JobFlow: each job runs once at each stage, in order, never
\* more of a stage than it has workers, and ends.
ImplementsJobFlow == Flow!FlowSpec
=============================================================================
