---------------------------- MODULE SnowfakeryLoad ----------------------------
(***************************************************************************)
(* The snowfakery task: generate portions of data in parallel processes,   *)
(* load them in parallel threads, until the target is reached              *)
(* (tasks/bulkdata/snowfakery.py, snowfakery_utils/queue_manager.py).      *)
(*                                                                         *)
(* Each channel is a pipeline of two worker queues, data_gen feeding       *)
(* data_load.  The controller, one thread, repeats: tick the channels,     *)
(* offer portions to the channels with free space, read the results, count *)
(* the directories.  A directory is named <idx>_<sets>: the controller     *)
(* knows how far the load is only by adding up names.                      *)
(***************************************************************************)
EXTENDS Integers, FiniteSets, FiniteSetsExt

CONSTANTS
  NumChannels,      \* channels, most loops visit them in order
  NumGenerators,    \* NumGenerators[c]: num_generator_workers of channel c
  NumLoaders,       \* NumLoaders[c]: num_loader_workers
  LoadQueueSize,    \* LOAD_QUEUE_SIZE
  ErrorThreshold,   \* ERROR_THRESHOLD
  Target,           \* run_until.gap, in sets
  MinBatchSize,     \* MIN_PORTION_SIZE
  MaxBatchSize,     \* MAX_PORTION_SIZE
  Overshoot,        \* sets a portion may create beyond its size
  MaxJobs,          \* bound: job directories named per channel
  RaisingJobs,      \* the <<job, stage>>s whose task may raise
  VanishingJobs     \* the <<job, stage>>s whose worker may die with its directory

Channel == 1..NumChannels

\* The directory <idx>_<sets> of a channel: idx is the channel's job_counter.
Job == Channel \X (1..MaxJobs)

Gen == 1     \* the data_gen queue
Load == 2    \* the data_load queue

ASSUME LoadAssumption ==
  /\ NumChannels \in Nat \ {0}
  /\ NumGenerators \in [Channel -> Nat] /\ NumLoaders \in [Channel -> Nat]
  /\ LoadQueueSize \in Nat /\ ErrorThreshold \in Nat
  /\ Target \in Nat \ {0} /\ MinBatchSize \in Nat \ {0}
  /\ MaxBatchSize \in Nat \ {0} /\ Overshoot \in Nat /\ MaxJobs \in Nat
  /\ RaisingJobs \cup VanishingJobs \subseteq Job \X {Gen, Load}

VARIABLES
  stage, dir, worker, listed, lock, call, results, collated,  \* WorkerQueue
  sets,            \* the number in the name of a job's directory
  jobCounter,      \* job_counter of each channel
  nextBatchSize,   \* next_batch_size of the PortionGenerator
  template,        \* sets_finished_while_generating_template
  pc,              \* where the controller is
  ch,              \* the channel it is visiting
  sweep,           \* the channels still to be offered a portion in this sweep
  newWorkers,      \* any(new_workers) of this sweep
  uploadStatus,    \* total_sets_working_on_or_uploaded when _loop last took it
  counted,         \* the status being taken: sets in flight or done, failures
  counter,         \* for whom: the channel offered a portion, 0 for _loop
  allQuiet         \* check_finished: the channels tested so far are done

queues == <<stage, dir, worker, listed, lock, call, results, collated>>
portions == <<sets, jobCounter, nextBatchSize, template>>
sweeping == <<sweep, newWorkers>>
counting == <<counted, counter>>
vars == <<queues, portions, pc, ch, sweeping, uploadStatus, counting, allQuiet>>

Q == INSTANCE WorkerQueueProofs WITH
  Pipeline   <- Channel,
  NumStages  <- 2,
  NumWorkers <- [c \in Channel |-> <<NumGenerators[c], NumLoaders[c]>>],
  QueueSize  <- <<0, LoadQueueSize>>,
  PipelineOf <- [j \in Job |-> j[1]],
  Reporting  <- {Load},
  MayRaise   <- RaisingJobs,
  MayVanish  <- VanishingJobs

\* The PortionGenerator, told by its caller how many sets there are.
P == INSTANCE PortionGenerator WITH
  MaxRequests     <- NumChannels * MaxJobs,
  created         <- counted.sets,
  next_batch_size <- nextBatchSize,
  requests        <- 0,
  corrected       <- 0,
  extra           <- 0

SetsIn(jobs) == MapThenSumSet(LAMBDA j : sets[j], jobs)

InDirs(c, s, dirs) == UNION {Q!JobsIn(c, s, d) : d \in dirs}

FailedIn(c) == {j \in Job : j[1] = c /\ dir[j] = "failures"}

Control ==
  {"loop", "tick", "assign", "offer", "count", "countLoad", "push", "pushed",
   "drain", "finish", "check", "test", "waiting", "results",
   "done",      \* the task succeeded
   "aborted",   \* BulkDataException: the errors exceeded the threshold
   "refused"}   \* ValueError: Queue is full

Stopped == pc \in {"done", "aborted", "refused"}

LoadTypeOK ==
  /\ Q!TypeOK
  /\ sets \in [Job -> Nat]
  /\ jobCounter \in [Channel -> 0..MaxJobs]
  /\ nextBatchSize \in Nat \ {0} /\ template \in Nat
  /\ pc \in Control /\ ch \in 1..(NumChannels + 1)
  /\ sweep \subseteq Channel /\ newWorkers \in BOOLEAN
  /\ uploadStatus \in Nat
  /\ counted \in [sets : Nat, failed : Nat] /\ counter \in 0..NumChannels
  /\ allQuiet \in BOOLEAN

-----------------------------------------------------------------------------
(* The initial batch, and _loop.                                           *)

\* _generate_and_load_initial_batch: everything if it is less than a portion,
\* else the smallest batch there is.
InitialBatch == IF Target < MinBatchSize THEN Target ELSE 1

NothingCounted == [sets |-> template, failed |-> 0]

Init ==
  /\ Q!QueueInit
  /\ sets = [j \in Job |-> 0]
  /\ jobCounter = [c \in Channel |-> 0]
  /\ nextBatchSize = MinBatchSize
  /\ template \in InitialBatch..(InitialBatch + Overshoot)
  /\ pc = "loop" /\ ch = 1
  /\ sweep = {} /\ newWorkers = TRUE
  /\ uploadStatus = template
  /\ counted = NothingCounted /\ counter = 0
  /\ allQuiet = TRUE

\* Take a status: for a channel's next portion, or for _loop (who = 0).
StartCounting(who) ==
  /\ pc' = "count" /\ ch' = 1
  /\ counted' = NothingCounted /\ counter' = who

\* while not portions.done(...): another round, or finish().
Loop ==
  /\ pc = "loop"
  /\ pc' = IF P!done(uploadStatus) THEN "finish" ELSE "tick"
  /\ ch' = 1
  /\ UNCHANGED <<queues, portions, sweeping, uploadStatus, counting, allQuiet>>

Ticking == \E c \in Channel : call[c] # 0

\* Channel.tick of one channel after the other, from the manager's tick or
\* check_finished.
StartTick ==
  /\ pc \in {"tick", "finish"} /\ ch \in Channel /\ ~Ticking
  /\ Q!CallTick(ch)
  /\ ch' = ch + 1
  /\ UNCHANGED <<portions, pc, sweeping, uploadStatus, counting, allQuiet>>

\* What a tick, whoever called it, does at one queue of channel c.  The loader
\* queue renames a directory it starts to the number of sets really generated.
TickQueue(c) ==
  /\ call[c] # 0
  /\ \E S \in SUBSET Q!JobsIn(c, call[c], "inbox") :
       /\ Q!TickStage(c, S)
       /\ \E extra \in [S -> IF call[c] = Load THEN 0..Overshoot ELSE {0}] :
            sets' = [j \in Job |-> IF j \in S THEN sets[j] + extra[j] ELSE sets[j]]
  /\ UNCHANGED <<jobCounter, nextBatchSize, template,
                 pc, ch, sweeping, uploadStatus, counting, allQuiet>>

-----------------------------------------------------------------------------
(* assign_work_to_channels.                                                *)

WithFreeSpace == {c \in Channel : ~Q!Full(c, Gen)}

EnterAssign ==
  /\ pc = "tick" /\ ch \notin Channel /\ ~Ticking
  /\ pc' = "assign"
  /\ sweep' = WithFreeSpace /\ newWorkers' = TRUE
  /\ UNCHANGED <<queues, portions, ch, uploadStatus, counting, allQuiet>>

\* Mutant: the sweeps are repeated although no channel took a portion.
AssignForever ==
  /\ pc = "assign"
  /\ IF sweep # {} /\ ~P!done(uploadStatus)
     THEN pc' = "offer" /\ newWorkers' = FALSE
     ELSE pc' = "drain" /\ UNCHANGED newWorkers
  /\ UNCHANGED <<queues, portions, ch, sweep, uploadStatus, counting, allQuiet>>

\* The while tests the status that _loop passed in, before any of its portions.
Assign ==
  /\ pc = "assign"
  /\ IF sweep # {} /\ newWorkers /\ ~P!done(uploadStatus)
     THEN pc' = "offer" /\ newWorkers' = FALSE
     ELSE pc' = "drain" /\ UNCHANGED newWorkers
  /\ UNCHANGED <<queues, portions, ch, sweep, uploadStatus, counting, allQuiet>>

\* make_new_worker on the channels in the order random.shuffle gave: wait if a
\* generator is free but the queue is full, else take the status.
Offer(c) ==
  /\ pc = "offer" /\ c \in sweep
  /\ sweep' = sweep \ {c}
  /\ IF Q!NumFreeWorkers(c, Gen) # 0 /\ Q!Full(c, Gen)
     THEN UNCHANGED <<pc, ch, counting>>
     ELSE StartCounting(c)
  /\ UNCHANGED <<queues, portions, newWorkers, uploadStatus, allQuiet>>

EndSweep ==
  /\ pc = "offer" /\ sweep = {}
  /\ pc' = "assign"
  /\ sweep' = WithFreeSpace
  /\ UNCHANGED <<queues, portions, ch, newWorkers, uploadStatus, counting, allQuiet>>

\* Mutant: the generators' outbox is counted too; it is the loaders' inbox.
CountGenWithOutbox ==
  /\ pc = "count" /\ ch \in Channel
  /\ Q!AcquireLock(ch)
  /\ counted' = [counted EXCEPT
       !.sets = @ + SetsIn(InDirs(ch, Gen, {"inbox", "inprogress"}))
                  + SetsIn(InDirs(ch, Load, {"inbox"}))]
  /\ pc' = "countLoad"
  /\ UNCHANGED <<portions, ch, sweeping, uploadStatus, counter, allQuiet>>

\* get_upload_status_for_channel lists one directory after the other, under the
\* lock: those of the generators, then those of the loaders and the failures.
CountGen ==
  /\ pc = "count" /\ ch \in Channel
  /\ Q!AcquireLock(ch)
  /\ counted' = [counted EXCEPT
       !.sets = @ + SetsIn(InDirs(ch, Gen, {"inbox", "inprogress"}))]
  /\ pc' = "countLoad"
  /\ UNCHANGED <<portions, ch, sweeping, uploadStatus, counter, allQuiet>>

CountLoad ==
  /\ pc = "countLoad"
  /\ Q!ReleaseLock(ch)
  /\ counted' = [counted EXCEPT
       !.sets = @ + SetsIn(InDirs(ch, Load, {"inbox", "inprogress", "outbox"})),
       !.failed = @ + Cardinality(FailedIn(ch))]
  /\ pc' = "count" /\ ch' = ch + 1
  /\ UNCHANGED <<portions, sweeping, uploadStatus, counter, allQuiet>>

Counted == pc = "count" /\ ch \notin Channel

\* Mutant: the portion is computed from the status _loop took before the sweep.
BatchOfLastStatus ==
  /\ Counted /\ counter # 0
  /\ jobCounter[counter] < MaxJobs
  /\ LET idx   == jobCounter[counter] + 1
         batch == P!next_batch(uploadStatus, nextBatchSize)
     IN /\ jobCounter' = [jobCounter EXCEPT ![counter] = idx]
        /\ sets' = [sets EXCEPT ![<<counter, idx>>] = batch]
        /\ pc' = IF batch = 0 THEN "offer" ELSE "push"
  /\ nextBatchSize' = P!Grown(nextBatchSize)
  /\ UNCHANGED <<queues, template, ch, sweeping, uploadStatus, counting, allQuiet>>

\* next_batch on the status just taken: the job_counter moves on and the next
\* portion grows even when there is nothing left to generate.
Batch ==
  /\ Counted /\ counter # 0
  /\ jobCounter[counter] < MaxJobs
  /\ LET idx   == jobCounter[counter] + 1
         batch == P!next_batch(counted.sets, nextBatchSize)
     IN /\ jobCounter' = [jobCounter EXCEPT ![counter] = idx]
        /\ sets' = [sets EXCEPT ![<<counter, idx>>] = batch]
        /\ pc' = IF batch = 0 THEN "offer" ELSE "push"
  /\ nextBatchSize' = P!Grown(nextBatchSize)
  /\ UNCHANGED <<queues, template, ch, sweeping, uploadStatus, counting, allQuiet>>

\* The template is copied, which takes its time, and pushed; push() ticks.
PushJob ==
  /\ pc = "push"
  /\ Q!Push(counter, <<counter, jobCounter[counter]>>)
  /\ pc' = "pushed"
  /\ UNCHANGED <<portions, ch, sweeping, uploadStatus, counting, allQuiet>>

\* push() raises ValueError("Queue is full"), which nothing catches.
PushRefused ==
  /\ pc = "push" /\ Q!Full(counter, Gen)
  /\ pc' = "refused"
  /\ UNCHANGED <<queues, portions, ch, sweeping, uploadStatus, counting, allQuiet>>

Pushed ==
  /\ pc = "pushed" /\ ~Ticking
  /\ pc' = "offer"
  /\ newWorkers' = TRUE
  /\ UNCHANGED <<queues, portions, ch, sweep, uploadStatus, counting, allQuiet>>

-----------------------------------------------------------------------------
(* The end of a round, and finish().                                       *)

\* update_running_totals, the sleep, and _report_status takes the status again.
Collate ==
  /\ pc = "drain"
  /\ Q!Drain
  /\ StartCounting(0)
  /\ UNCHANGED <<portions, sweeping, uploadStatus, allQuiet>>

\* Mutant: the status is kept as what is missing, not as what there is.
ReportMissing ==
  /\ Counted /\ counter = 0
  /\ uploadStatus' = counted.sets - Target
  /\ pc' = IF counted.failed > ErrorThreshold THEN "aborted" ELSE "loop"
  /\ UNCHANGED <<queues, portions, ch, sweeping, counting, allQuiet>>

Report ==
  /\ Counted /\ counter = 0
  /\ uploadStatus' = counted.sets
  /\ pc' = IF counted.failed > ErrorThreshold THEN "aborted" ELSE "loop"
  /\ UNCHANGED <<queues, portions, ch, sweeping, counting, allQuiet>>

\* check_finished: when every channel has been ticked, each is ticked again and
\* its lists and directories are looked at, under the lock.
EnterCheck ==
  /\ pc = "finish" /\ ch \notin Channel /\ ~Ticking
  /\ pc' = "check" /\ ch' = 1
  /\ allQuiet' = TRUE
  /\ UNCHANGED <<queues, portions, sweeping, uploadStatus, counting>>

TickBeforeTest ==
  /\ pc = "check" /\ ch \in Channel
  /\ Q!CallTick(ch)
  /\ pc' = "test"
  /\ UNCHANGED <<portions, ch, sweeping, uploadStatus, counting, allQuiet>>

\* Mutant: only the directories are looked at, not the lists of workers.
still_running_on_disk(c) ==
  \E s \in {Gen, Load} : InDirs(c, s, {"inbox", "inprogress"}) # {}

still_running(c) == ~Q!Quiet(c)

TestChannel ==
  /\ pc = "test" /\ ~Ticking
  /\ allQuiet' = (allQuiet /\ ~still_running(ch))
  /\ pc' = "check" /\ ch' = ch + 1
  /\ UNCHANGED <<queues, portions, sweeping, uploadStatus, counting>>

Checked ==
  /\ pc = "check" /\ ch \notin Channel
  /\ pc' = IF allQuiet THEN "results" ELSE "waiting"
  /\ UNCHANGED <<queues, portions, ch, sweeping, uploadStatus, counting, allQuiet>>

\* Some rounds, those with something new to say or the sixth without, read the
\* results.
WaitForJobs ==
  /\ pc = "waiting"
  /\ Q!Drain \/ UNCHANGED queues
  /\ pc' = "finish" /\ ch' = 1
  /\ UNCHANGED <<portions, sweeping, uploadStatus, counting, allQuiet>>

\* The failures are logged, the rest of the results read, the totals printed.
Results ==
  /\ pc = "results"
  /\ Q!Drain
  /\ pc' = "done"
  /\ UNCHANGED <<portions, ch, sweeping, uploadStatus, counting, allQuiet>>

-----------------------------------------------------------------------------
Controller ==
  \/ Loop \/ StartTick \/ (\E c \in Channel : TickQueue(c))
  \/ EnterAssign \/ Assign \/ (\E c \in Channel : Offer(c)) \/ EndSweep
  \/ CountGen \/ CountLoad \/ Batch \/ PushJob \/ PushRefused \/ Pushed
  \/ Collate \/ Report
  \/ EnterCheck \/ TickBeforeTest \/ TestChannel \/ Checked
  \/ WaitForJobs \/ Results

control == <<portions, pc, ch, sweeping, uploadStatus, counting, allQuiet>>

\* Workers are daemons: when the task stops they are gone.
Alive(w) == ~Stopped /\ Q!is_alive(w)

WorkerRuns(w) == Alive(w) /\ Q!Runs(w) /\ UNCHANGED control

WorkerVanishes(w) == Alive(w) /\ Q!Vanish(w) /\ UNCHANGED control

Terminated == Stopped /\ UNCHANGED vars

Next ==
  \/ Controller
  \/ \E w \in Q!Worker : WorkerRuns(w) \/ WorkerVanishes(w)
  \/ Terminated

Spec == Init /\ [][Next]_vars

\* The controller is one thread that never blocks for long: it sleeps WAIT_TIME
\* between rounds.  The operating system runs the workers: strongly, because one
\* that waits for the lock gets it in one of the controller's sleeps.
Fairness ==
  /\ WF_vars(Controller)
  /\ \A w \in Q!Worker : SF_vars(WorkerRuns(w))

FairSpec == Spec /\ Fairness

-----------------------------------------------------------------------------
(* What is promised of the load.                                           *)

Finished == template + SetsIn({j \in Job : dir[j] = "outbox"})
Failed == UNION {FailedIn(c) : c \in Channel}
OnDisk == {j \in Job : stage[j] # 0}
Loaded == {j \in Job : dir[j] = "outbox"}

\* The sets that exist or will, by the names of the directories.
CountedSets == template + SetsIn(OnDisk \ Failed)

\* The load is never given more than it was asked for, but for what the template
\* and the portions overshot by: every portion is the rest of a count that missed
\* nothing, although the directories moved while it was made.
NoOverGeneration ==
  CountedSets <= Target + Overshoot * (Cardinality(OnDisk \ Failed) + 1)

\* A status taken directory by directory is the real one, up to the jobs that
\* failed: the lock keeps a job from being missed or counted twice on its way
\* from one directory to the next.
CountIsSound ==
  Counted => /\ CountedSets <= counted.sets
             /\ counted.sets <= CountedSets + SetsIn(Failed)

\* When the task succeeds all that was asked for is loaded, but for jobs that
\* failed too late for _report_status to see: those of the last round.
ShortfallOnlyByFailure ==
  pc = "done" => Finished + SetsIn(Failed) >= Target

\* When the task succeeds nothing is running or queued any more, and the totals
\* it prints include every report its loaders made.
DoneMeansSettled ==
  pc = "done" =>
    /\ \A c \in Channel : Q!Quiet(c)
    /\ \A j \in Loaded : [worker |-> <<j, Load>>, status |-> "success"] \in collated
    /\ \A j \in Failed : stage[j] = Load =>
         [worker |-> <<j, Load>>, status |-> "error"] \in collated

\* The task stops, with success or an error, when no worker dies unseen.
Termination == <>Stopped

-----------------------------------------------------------------------------
(* What the code says of the load and does not keep.                       *)

\* "Waiting before datagen (load queue is full)" (queue_manager.py:299): a full
\* load queue makes the controller wait, it does not end the task.
FullMeansWait == pc # "refused"

\* "Snowfakery created <target> iterations" (snowfakery.py:481-486) and "run the
\* recipe 50_000 times" (snowfakery.py:115-116): a task that succeeds has loaded
\* at least its target.
CreatedWhatItSays == pc = "done" => Finished >= Target

\* "The pid is the tool that ensures that every uniqueid is unique even across
\* different processes" (subtask_configurator.py:32-33): no two portions have the
\* same pid, which is the idx of their directory.
PidUnique == \A i, j \in OnDisk : i # j => i[2] # j[2]

\* "Waiting for <n> data generators, <m> uploads to finish" (snowfakery.py:462):
\* while finish() waits there is a worker that can finish, or a job to start.
WaitsForSomeone ==
  pc = "waiting" =>
    \/ \E w \in Q!Worker : Q!is_alive(w)
    \/ \E j \in Job : dir[j] = "inbox"
    \/ \A c \in Channel : Q!Quiet(c)

\* The counts the controller takes while jobs move are sound, nothing is generated
\* twice, and a load that ends well has settled everything and lacks no more sets
\* than failed.
LoadIsSound ==
  /\ LoadTypeOK
  /\ NoOverGeneration /\ CountIsSound /\ ShortfallOnlyByFailure /\ DoneMeansSettled
=============================================================================
