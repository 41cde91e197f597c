------------------------- MODULE SnowfakeryLoadProofs -------------------------
(***************************************************************************)
(* Proofs about SnowfakeryLoad, for every number of channels, workers,     *)
(* sets asked for and sets overshot, and whichever jobs fail or die.       *)
(*                                                                         *)
(* What WorkerQueueProofs shows of the queues is used through Q.  What is  *)
(* new is arithmetic on sums over directories: a count taken under the     *)
(* lock, while the directories of the other channels move, bounds what is  *)
(* on disk from above, and next_batch never asks for more than it lacks.   *)
(***************************************************************************)
EXTENDS SnowfakeryLoad, TLAPS, FiniteSetTheorems

-----------------------------------------------------------------------------
(* The queues of the load are queues of WorkerQueue.                       *)

\* What QueueAssumption says of the parameters the load gives its queues.
Parameters ==
  /\ 2 \in Nat \ {0}
  /\ [c \in Channel |-> <<NumGenerators[c], NumLoaders[c]>>] \in [Channel -> [Q!Stage -> Nat]]
  /\ <<0, LoadQueueSize>> \in [Q!Stage -> Nat]
  /\ [j \in Job |-> j[1]] \in [Job -> Channel]
  /\ {Load} \subseteq Q!Stage
  /\ RaisingJobs \subseteq Q!Worker
  /\ VanishingJobs \subseteq Q!Worker

LEMMA JobsAreFinite == IsFiniteSet(Job) /\ Q!IsFiniteSet(Job)
<1>1. IsFiniteSet(Channel) /\ IsFiniteSet(1..MaxJobs)
  BY LoadAssumption, FS_Interval DEF Channel
<1>2. IsFiniteSet(Job)
  BY <1>1, FS_Product DEF Job
<1> QED BY <1>2 DEF IsFiniteSet, Q!IsFiniteSet

LEMMA ParametersHold == Parameters
<1>1. Q!Stage = 1..2 /\ Q!Worker = Job \X (1..2) /\ Gen = 1 /\ Load = 2
  BY DEF Q!Stage, Q!Worker, Gen, Load
<1>2. \A a, b : a \in Nat /\ b \in Nat => <<a, b>> \in [1..2 -> Nat]
  OBVIOUS
<1>3. [c \in Channel |-> <<NumGenerators[c], NumLoaders[c]>>] \in [Channel -> [Q!Stage -> Nat]]
  BY <1>1, <1>2, LoadAssumption
<1>4. <<0, LoadQueueSize>> \in [Q!Stage -> Nat]
  BY <1>1, <1>2, LoadAssumption
<1>5. [j \in Job |-> j[1]] \in [Job -> Channel]
  BY DEF Job
<1>6. RaisingJobs \subseteq Q!Worker /\ VanishingJobs \subseteq Q!Worker
  BY <1>1, LoadAssumption
<1> QED BY <1>1, <1>3, <1>4, <1>5, <1>6 DEF Parameters

LEMMA WorkersOfLoad == Q!Worker = Job \X {Gen, Load} /\ Q!Stage = {Gen, Load} /\ Gen = 1 /\ Load = 2
BY DEF Q!Worker, Q!Stage, Gen, Load

\* Where the controller is, and for whom.
Positions ==
  /\ pc \in Control /\ ch \in 1..(NumChannels + 1) /\ counter \in 0..NumChannels
  /\ sweep \subseteq Channel /\ newWorkers \in BOOLEAN /\ allQuiet \in BOOLEAN
  /\ jobCounter \in [Channel -> 0..MaxJobs]
  /\ pc \in {"countLoad", "test"} => ch \in Channel
  /\ pc \in {"push", "pushed"} => counter \in Channel /\ jobCounter[counter] # 0

LEMMA ChannelsAreNat == NumChannels \in Nat \ {0} /\ Channel = 1..NumChannels /\ MaxJobs \in Nat
BY LoadAssumption DEF Channel

THEOREM PositionsHold == Spec => []Positions
<1>1. Init => Positions
  BY ChannelsAreNat DEF Init, Positions, Control
<1>2. Positions /\ [Next]_vars => Positions'
  <2> SUFFICES ASSUME Positions, [Next]_vars PROVE Positions'
    OBVIOUS
  <2> USE ChannelsAreNat
  <2>1. CASE Loop
    BY <2>1 DEF Loop, Positions, Control, portions, sweeping, counting
  <2>2. CASE StartTick
    BY <2>2 DEF StartTick, Positions, Control, portions, sweeping, counting
  <2>3. ASSUME NEW c \in Channel, TickQueue(c) PROVE Positions'
    BY <2>3 DEF TickQueue, Positions, Control, sweeping, counting
  <2>4. CASE EnterAssign \/ Assign \/ EndSweep
    BY <2>4 DEF EnterAssign, Assign, EndSweep, Positions, Control, WithFreeSpace, portions, sweeping, counting
  <2>5. ASSUME NEW c \in Channel, Offer(c) PROVE Positions'
    BY <2>5 DEF Offer, StartCounting, Positions, Control, portions, counting
  <2>6. CASE CountGen \/ CountLoad
    BY <2>6 DEF CountGen, CountLoad, Positions, Control, portions, sweeping
  <2>7. CASE Batch
    <3>1. counter \in Channel /\ jobCounter[counter] + 1 \in 1..MaxJobs
      BY <2>7 DEF Batch, Positions
    <3>2. jobCounter' = [jobCounter EXCEPT ![counter] = jobCounter[counter] + 1]
          /\ pc' \in {"offer", "push"} /\ UNCHANGED <<ch, sweeping, counter, allQuiet>>
      BY <2>7 DEF Batch, counting
    <3> QED BY <3>1, <3>2 DEF Positions, Control, sweeping
  <2>8. CASE PushJob \/ PushRefused \/ Pushed
    BY <2>8 DEF PushJob, PushRefused, Pushed, Positions, Control, portions, sweeping, counting
  <2>9. CASE Collate
    BY <2>9 DEF Collate, StartCounting, Positions, Control, portions, sweeping
  <2>10. CASE Report
    BY <2>10 DEF Report, Positions, Control, portions, sweeping, counting
  <2>11. CASE EnterCheck \/ TickBeforeTest \/ Checked
    <3>1. CASE EnterCheck
      BY <3>1 DEF EnterCheck, Positions, Control, portions, sweeping, counting
    <3>2. CASE TickBeforeTest
      BY <3>2 DEF TickBeforeTest, Positions, Control, portions, sweeping, counting
    <3>3. CASE Checked
      <4>1. pc' \in {"results", "waiting"} /\ UNCHANGED <<portions, ch, sweeping, counting, allQuiet>>
        BY <3>3 DEF Checked
      <4> QED BY <4>1 DEF Positions, Control, portions, sweeping, counting
    <3> QED BY <2>11, <3>1, <3>2, <3>3
  <2>12. CASE TestChannel
    <3>1. allQuiet' \in BOOLEAN
      BY <2>12 DEF TestChannel
    <3>2. pc = "test" /\ pc' = "check" /\ ch' = ch + 1 /\ UNCHANGED <<portions, sweeping, counting>>
      BY <2>12 DEF TestChannel
    <3> QED BY <3>1, <3>2 DEF Positions, Control, portions, sweeping, counting
  <2>14. CASE WaitForJobs \/ Results
    <3>1. pc' \in {"finish", "done"} /\ ch' \in {1, ch} /\ UNCHANGED <<portions, sweeping, counting, allQuiet>>
      BY <2>14 DEF WaitForJobs, Results
    <3> QED BY <3>1 DEF Positions, Control, portions, sweeping, counting
  <2>13. CASE UNCHANGED control
    BY <2>13 DEF control, Positions, portions, sweeping, counting
  <2> QED BY <2>1, <2>2, <2>3, <2>4, <2>5, <2>6, <2>7, <2>8, <2>9, <2>10, <2>11, <2>12, <2>13, <2>14
          DEF Next, Controller, WorkerRuns, WorkerVanishes, Terminated, vars, control
<1> QED BY <1>1, <1>2, PTL DEF Spec

\* Every step of the load is one of its queues, or leaves them alone.
LEMMA StepsOfQueues ==
  ASSUME Positions, [Next]_vars
  PROVE  [Q!QueueNext]_(Q!queueVars)
<1>1. CASE UNCHANGED queues
  BY <1>1 DEF queues, Q!queueVars
<1>2. ASSUME NEW c \in Channel, TickQueue(c) PROVE Q!QueueNext
  <2>1. PICK S \in SUBSET Q!JobsIn(c, call[c], "inbox") : Q!TickStage(c, S)
    BY <1>2 DEF TickQueue
  <2>2. S \in SUBSET Job
    BY DEF Q!JobsIn
  <2> QED BY <2>1, <2>2 DEF Q!QueueNext, Q!ControllerStep
<1>3. CASE StartTick \/ CountGen \/ CountLoad \/ TickBeforeTest
  <2>1. ch \in Channel
    BY <1>3 DEF StartTick, CountGen, CountLoad, TickBeforeTest, Positions
  <2> QED BY <1>3, <2>1 DEF StartTick, CountGen, CountLoad, TickBeforeTest, Q!QueueNext, Q!ControllerStep
<1>4. CASE PushJob
  <2>1. counter \in Channel /\ <<counter, jobCounter[counter]>> \in Job
    BY <1>4, ChannelsAreNat DEF PushJob, Positions, Job
  <2> QED BY <1>4, <2>1 DEF PushJob, Q!QueueNext, Q!ControllerStep
<1>5. CASE Collate \/ Results
  BY <1>5 DEF Collate, Results, Q!QueueNext
<1>6. CASE WaitForJobs
  BY <1>1, <1>6 DEF WaitForJobs, Q!QueueNext
<1>7. ASSUME NEW w \in Q!Worker, WorkerRuns(w) \/ WorkerVanishes(w) PROVE Q!QueueNext
  BY <1>7 DEF WorkerRuns, WorkerVanishes, Q!QueueNext, Q!WorkerStep
<1>8. CASE \/ Loop \/ EnterAssign \/ Assign \/ (\E c \in Channel : Offer(c)) \/ EndSweep
           \/ Batch \/ PushRefused \/ Pushed \/ Report \/ EnterCheck \/ TestChannel \/ Checked
           \/ Terminated \/ UNCHANGED vars
  BY <1>1, <1>8 DEF Loop, EnterAssign, Assign, Offer, EndSweep, Batch, PushRefused, Pushed, Report,
                    EnterCheck, TestChannel, Checked, Terminated, vars
<1> QED BY <1>2, <1>3, <1>4, <1>5, <1>6, <1>7, <1>8 DEF Next, Controller

\* What is known of the queues in every state.
QueuesOK == Q!TypeOK /\ Q!Phases /\ Q!AliveAreListed /\ Q!QuietIsSettled

THEOREM QueuesAreSound == Spec => []QueuesOK
<1>1. Parameters /\ Q!IsFiniteSet(Job)
  BY ParametersHold, JobsAreFinite
<1>2. Q!QueueSpec => []Q!TypeOK
  BY <1>1, Q!TypeCorrect DEF Parameters
<1>3. Q!QueueSpec => []Q!Phases
  BY <1>1, Q!PhasesHold DEF Parameters
<1>4. Q!QueueSpec => []Q!AliveAreListed
  BY <1>1, Q!AliveListed DEF Parameters
<1>5. Q!QueueSpec => []Q!QuietIsSettled
  BY <1>1, Q!QuietSettles DEF Parameters
<1>6. Init => Q!QueueInit
  BY DEF Init
<1>7. Positions /\ [Next]_vars => [Q!QueueNext]_(Q!queueVars)
  BY StepsOfQueues
<1> QED BY <1>2, <1>3, <1>4, <1>5, <1>6, <1>7, PositionsHold, PTL DEF Spec, QueuesOK, Q!QueueSpec

-----------------------------------------------------------------------------
(* Sums over jobs: the lemmas of WorkerQueueProofs for sets of jobs.        *)

Sum(f, S) == Q!SumFunctionOnSet(f, S)

LEMMA SetsInIsSum == \A S : SetsIn(S) = Sum(sets, S)
BY DEF Sum, SetsIn, MapThenSumSet, MapThenFoldSet, Q!SumFunctionOnSet, Q!FoldFunctionOnSet, Q!MapThenFoldSet

LEMMA JobSetsAreFinite ==
  ASSUME NEW S \in SUBSET Job
  PROVE  /\ IsFiniteSet(S) /\ Cardinality(S) \in Nat
         /\ Q!IsFiniteSet(S) /\ Q!Cardinality(S) = Cardinality(S)
<1>1. IsFiniteSet(S)
  BY JobsAreFinite, FS_Subset
<1>2. Cardinality(S) \in Nat
  BY <1>1, FS_CardinalityType
<1>3. Q!IsFiniteSet(S)
  BY <1>1 DEF IsFiniteSet, Q!IsFiniteSet
<1>4. Q!Cardinality(S) = Cardinality(S)
  BY DEF Cardinality, Q!Cardinality, IsFiniteSet, Q!IsFiniteSet
<1> QED BY <1>1, <1>2, <1>3, <1>4

LEMMA SumIsNat ==
  ASSUME NEW S \in SUBSET Job, NEW f, \A j \in S : f[j] \in Nat
  PROVE  /\ Sum(f, S) \in Nat
         /\ \A T \in SUBSET S : Sum(f, T) \in Nat /\ Sum(f, T) <= Sum(f, S)
<1>1. Parameters /\ Q!IsFiniteSet(Job) /\ Q!IsFiniteSet(S)
  BY ParametersHold, JobsAreFinite, JobSetsAreFinite
<1> QED BY <1>1, Q!SumOfNaturals DEF Parameters, Sum

LEMMA SumOfBoth ==
  ASSUME NEW S \in SUBSET Job, NEW T \in SUBSET Job, S \cap T = {},
         NEW f, \A j \in S \cup T : f[j] \in Nat
  PROVE  Sum(f, S \cup T) = Sum(f, S) + Sum(f, T)
<1>1. Parameters /\ Q!IsFiniteSet(Job) /\ Q!IsFiniteSet(S) /\ Q!IsFiniteSet(T) /\ \A j \in S \cup T : f[j] \in Int
  BY ParametersHold, JobsAreFinite, JobSetsAreFinite
<1> QED BY <1>1, Q!SumOfUnion DEF Parameters, Sum

LEMMA SumOfOneMore ==
  ASSUME NEW S \in SUBSET Job, NEW j \in Job \ S, NEW f, \A k \in S \cup {j} : f[k] \in Nat
  PROVE  Sum(f, S \cup {j}) = f[j] + Sum(f, S)
<1>1. Parameters /\ Q!IsFiniteSet(Job) /\ Q!IsFiniteSet(S) /\ \A k \in S \cup {j} : f[k] \in Int
  BY ParametersHold, JobsAreFinite, JobSetsAreFinite
<1>2. j \notin S
  OBVIOUS
<1> QED BY <1>1, <1>2, Q!SumAdds DEF Parameters, Sum

LEMMA SumOfSame ==
  ASSUME NEW S \in SUBSET Job, NEW f, NEW g, \A j \in S : f[j] \in Nat /\ f[j] = g[j]
  PROVE  Sum(f, S) = Sum(g, S)
<1>1. Parameters /\ Q!IsFiniteSet(Job) /\ Q!IsFiniteSet(S) /\ \A j \in S : f[j] \in Int /\ f[j] = g[j]
  BY ParametersHold, JobsAreFinite, JobSetsAreFinite
<1> QED BY <1>1, Q!SumOfEquals DEF Parameters, Sum

LEMMA SumIsNoMore ==
  ASSUME NEW S \in SUBSET Job, NEW f, NEW g, NEW k \in Nat,
         \A j \in S : f[j] \in Nat /\ g[j] \in Nat /\ f[j] <= g[j] + k
  PROVE  Sum(f, S) <= Sum(g, S) + k * Cardinality(S)
<1>1. /\ Parameters /\ Q!IsFiniteSet(Job) /\ Q!IsFiniteSet(S) /\ Q!Cardinality(S) = Cardinality(S)
      /\ k \in Int /\ \A j \in S : f[j] \in Int /\ g[j] \in Int /\ f[j] <= g[j] + k
  BY ParametersHold, JobsAreFinite, JobSetsAreFinite
<1>2. Q!SumFunctionOnSet(f, S) <= Q!SumFunctionOnSet(g, S) + k * Q!Cardinality(S)
  BY <1>1, Q!SumIsWithin DEF Parameters
<1> QED BY <1>1, <1>2 DEF Sum

LEMMA SumGrows ==
  ASSUME NEW S \in SUBSET Job, NEW f, NEW g, \A j \in S : f[j] \in Nat /\ g[j] \in Nat /\ f[j] <= g[j]
  PROVE  Sum(f, S) <= Sum(g, S)
<1>1. \A j \in S : f[j] \in Nat /\ g[j] \in Nat /\ f[j] <= g[j] + 0
  OBVIOUS
<1>2. Sum(f, S) <= Sum(g, S) + 0 * Cardinality(S)
  BY <1>1, SumIsNoMore
<1>3. Sum(f, S) \in Nat /\ Sum(g, S) \in Nat /\ Cardinality(S) \in Nat
  BY SumIsNat, JobSetsAreFinite
<1> QED BY <1>2, <1>3

LEMMA SumOfNobody ==
  ASSUME NEW f
  PROVE  Sum(f, {}) = 0
<1>1. Parameters /\ Q!IsFiniteSet(Job)
  BY ParametersHold, JobsAreFinite
<1> QED BY <1>1, Q!SumOfNone DEF Parameters, Sum

-----------------------------------------------------------------------------
(* The types.                                                              *)

Numbers ==
  /\ sets \in [Job -> Nat]
  /\ nextBatchSize \in Nat \ {0} /\ template \in Nat /\ uploadStatus \in Nat
  /\ counted \in [sets : Nat, failed : Nat]

\* What the PortionGenerator promises a caller who has c sets.
LEMMA PortionsFit ==
  ASSUME NEW c \in Nat, NEW n \in Nat \ {0}
  PROVE  /\ P!next_batch(c, n) \in Nat /\ P!Grown(n) \in Nat \ {0}
         /\ P!next_batch(c, n) # 0 => c + P!next_batch(c, n) <= Target
<1>1. Target \in Nat /\ MinBatchSize \in Nat \ {0} /\ MaxBatchSize \in Nat \ {0} /\ Overshoot \in Nat
  BY LoadAssumption
<1>2. P!Grown(n) \in Nat \ {0}
  BY DEF P!Grown
<1> QED BY <1>1, <1>2 DEF P!next_batch, P!gap, P!Least, P!Greatest

LEMMA SetsInIsNat ==
  ASSUME Numbers, NEW S \in SUBSET Job
  PROVE  SetsIn(S) \in Nat
<1>1. \A j \in S : sets[j] \in Nat
  BY DEF Numbers
<1> QED BY <1>1, SetsInIsSum, SumIsNat

LEMMA DirectoriesHoldJobs ==
  /\ \A c, s, dirs : InDirs(c, s, dirs) \in SUBSET Job
  /\ \A c : FailedIn(c) \in SUBSET Job
  /\ OnDisk \in SUBSET Job /\ Failed \in SUBSET Job /\ Loaded \in SUBSET Job
BY DEF InDirs, FailedIn, OnDisk, Failed, Loaded, Q!JobsIn

THEOREM NumbersHold == Spec => []Numbers
<1>1. Init => Numbers
  BY LoadAssumption DEF Init, Numbers, InitialBatch, NothingCounted
<1>2. Positions /\ Numbers /\ [Next]_vars => Numbers'
  <2> SUFFICES ASSUME Positions, Numbers, [Next]_vars PROVE Numbers'
    OBVIOUS
  <2>1. ASSUME UNCHANGED <<portions, uploadStatus, counted>> PROVE Numbers'
    BY <2>1 DEF Numbers, portions
  <2>2. ASSUME NEW c \in Channel, TickQueue(c) PROVE Numbers'
    <3>1. PICK S \in SUBSET Q!JobsIn(c, call[c], "inbox") :
            \E extra \in [S -> IF call[c] = Load THEN 0..Overshoot ELSE {0}] :
              sets' = [j \in Job |-> IF j \in S THEN sets[j] + extra[j] ELSE sets[j]]
      BY <2>2 DEF TickQueue
    <3>2. PICK extra \in [S -> IF call[c] = Load THEN 0..Overshoot ELSE {0}] :
            sets' = [j \in Job |-> IF j \in S THEN sets[j] + extra[j] ELSE sets[j]]
      BY <3>1
    <3>3. \A j \in S : extra[j] \in Nat
      BY <3>2, LoadAssumption
    <3>4. sets' \in [Job -> Nat]
      BY <3>2, <3>3 DEF Numbers
    <3>5. UNCHANGED <<nextBatchSize, template, uploadStatus, counted>>
      BY <2>2 DEF TickQueue, counting
    <3> QED BY <3>4, <3>5 DEF Numbers
  <2>3. ASSUME UNCHANGED <<portions, uploadStatus>>, counted' = NothingCounted PROVE Numbers'
    BY <2>3 DEF Numbers, portions, NothingCounted
  <2>4. CASE CountGen
    <3>1. SetsIn(InDirs(ch, Gen, {"inbox", "inprogress"})) \in Nat
      BY SetsInIsNat, DirectoriesHoldJobs
    <3>2. counted' = [counted EXCEPT !.sets = counted.sets + SetsIn(InDirs(ch, Gen, {"inbox", "inprogress"}))]
          /\ UNCHANGED <<portions, uploadStatus>>
      BY <2>4 DEF CountGen
    <3> QED BY <3>1, <3>2 DEF Numbers, portions
  <2>5. CASE CountLoad
    <3> DEFINE more == SetsIn(InDirs(ch, Load, {"inbox", "inprogress", "outbox"}))
               bad == Cardinality(FailedIn(ch))
    <3>1. more \in Nat /\ bad \in Nat
      BY SetsInIsNat, DirectoriesHoldJobs, JobSetsAreFinite
    <3>2. counted' = [counted EXCEPT !.sets = counted.sets + more, !.failed = counted.failed + bad]
          /\ UNCHANGED <<portions, uploadStatus>>
      BY <2>5 DEF CountLoad
    <3> HIDE DEF more, bad
    <3>3. counted.sets + more \in Nat /\ counted.failed + bad \in Nat
      BY <3>1 DEF Numbers
    <3>4. counted' \in [sets : Nat, failed : Nat]
      BY <3>2, <3>3 DEF Numbers
    <3> QED BY <3>2, <3>4 DEF Numbers, portions
  <2>6. CASE Batch
    <3> DEFINE batch == P!next_batch(counted.sets, nextBatchSize)
    <3>1. batch \in Nat /\ P!Grown(nextBatchSize) \in Nat \ {0}
      BY PortionsFit DEF Numbers
    <3>2. /\ sets' = [sets EXCEPT ![<<counter, jobCounter[counter] + 1>>] = batch]
          /\ nextBatchSize' = P!Grown(nextBatchSize) /\ UNCHANGED <<template, uploadStatus, counted>>
      BY <2>6 DEF Batch, counting
    <3> HIDE DEF batch
    <3> QED BY <3>1, <3>2 DEF Numbers
  <2>7. CASE Report
    BY <2>7 DEF Report, Numbers, portions, counting
  <2>8. CASE Collate \/ \E c \in Channel : Offer(c)
    BY <2>1, <2>3, <2>8 DEF Collate, Offer, StartCounting, counting
  <2>9. CASE \/ Loop \/ StartTick \/ EnterAssign \/ Assign \/ EndSweep
             \/ PushJob \/ PushRefused \/ Pushed
             \/ EnterCheck \/ TickBeforeTest \/ TestChannel \/ Checked
             \/ WaitForJobs \/ Results \/ UNCHANGED control
    BY <2>1, <2>9 DEF Loop, StartTick, EnterAssign, Assign, EndSweep, PushJob, PushRefused, Pushed,
         EnterCheck, TickBeforeTest, TestChannel, Checked, WaitForJobs, Results, control, counting
  <2> QED BY <2>2, <2>4, <2>5, <2>6, <2>7, <2>8, <2>9
          DEF Next, Controller, WorkerRuns, WorkerVanishes, Terminated, vars, control
<1> QED BY <1>1, <1>2, PositionsHold, PTL DEF Spec

THEOREM LoadTypeCorrect == Spec => []LoadTypeOK
<1>1. QueuesOK /\ Positions /\ Numbers => LoadTypeOK
  BY DEF QueuesOK, Positions, Numbers, LoadTypeOK
<1> QED BY <1>1, QueuesAreSound, PositionsHold, NumbersHold, PTL

-----------------------------------------------------------------------------
(* Ticks, the lock and the names of directories.                           *)

\* A tick that has begun ends before the controller goes on to something else.
Calls == \A c \in Channel : call[c] # 0 => pc \in {"tick", "finish", "test", "pushed"}

THEOREM CallsHold == Spec => []Calls
<1>1. Init => Calls
  BY DEF Init, Q!QueueInit, Calls
<1>2. QueuesOK /\ Positions /\ Calls /\ [Next]_vars => Calls'
  <2> SUFFICES ASSUME QueuesOK, Positions, Calls, [Next]_vars, NEW c \in Channel, call'[c] # 0
               PROVE  pc' \in {"tick", "finish", "test", "pushed"}
    BY DEF Calls
  <2>0. call \in [Channel -> Nat]
    BY DEF QueuesOK, Q!TypeOK
  <2>1. CASE StartTick
    BY <2>1 DEF StartTick
  <2>2. CASE \E d \in Channel : TickQueue(d)
    BY <2>2 DEF TickQueue, Calls
  <2>3. CASE PushJob \/ TickBeforeTest
    BY <2>3 DEF PushJob, TickBeforeTest
  <2>4. ASSUME call' = call, pc' = pc PROVE pc' \in {"tick", "finish", "test", "pushed"}
    BY <2>4 DEF Calls
  <2>5. ASSUME call' = call, pc \notin {"tick", "finish", "test", "pushed"}
        PROVE  pc' \in {"tick", "finish", "test", "pushed"}
    BY <2>5 DEF Calls
  <2>6. CASE EnterAssign \/ Pushed \/ EnterCheck \/ TestChannel
    BY <2>6 DEF EnterAssign, Pushed, EnterCheck, TestChannel, Ticking, queues
  <2>7. CASE \/ Loop \/ Assign \/ (\E d \in Channel : Offer(d)) \/ EndSweep \/ CountGen \/ CountLoad
             \/ Batch \/ PushRefused \/ Report \/ Checked
    <3>1. call' = call
      BY <2>7 DEF Loop, Assign, Offer, EndSweep, CountGen, CountLoad, Batch, PushRefused, Report, Checked,
                  queues, Q!AcquireLock, Q!ReleaseLock
    <3>2. pc \notin {"tick", "finish", "test", "pushed"}
      BY <2>7 DEF Loop, Assign, Offer, EndSweep, CountGen, CountLoad, Batch, Counted, PushRefused, Report, Checked
    <3> QED BY <2>5, <3>1, <3>2
  <2>8. CASE Collate \/ WaitForJobs \/ Results
    <3>1. call' = call
      BY <2>8 DEF Collate, WaitForJobs, Results, queues, Q!Drain
    <3> QED BY <2>5, <2>8, <3>1 DEF Collate, WaitForJobs, Results
  <2>9. ASSUME NEW w \in Q!Worker, WorkerRuns(w) \/ WorkerVanishes(w)
        PROVE  pc' \in {"tick", "finish", "test", "pushed"}
    <3>1. call' = call
      BY <2>9 DEF WorkerRuns, WorkerVanishes, Q!Runs, Q!TaskReturns, Q!TaskRaises, Q!ReportSuccess, Q!MoveToOutbox,
                  Q!MoveToFailures, Q!ReportError, Q!Exit, Q!Vanish
    <3> QED BY <2>4, <2>9, <3>1 DEF WorkerRuns, WorkerVanishes, control
  <2>10. CASE UNCHANGED vars
    BY <2>4, <2>10 DEF vars, queues
  <2> QED BY <2>1, <2>2, <2>3, <2>6, <2>7, <2>8, <2>9, <2>10 DEF Next, Controller, Terminated
<1> QED BY <1>1, <1>2, QueuesAreSound, PositionsHold, PTL DEF Spec

LEMMA NoTickElsewhere ==
  ASSUME Calls, pc \notin {"tick", "finish", "test", "pushed"}, NEW c \in Channel
  PROVE  ~TickQueue(c)
BY DEF Calls, TickQueue

\* A directory named already is on disk before the next is named.
Names == \A j \in Job : j[2] > jobCounter[j[1]] => stage[j] = 0

\* The job about to be pushed.
NewJob == <<counter, jobCounter[counter]>>

LEMMA NewJobIsJob ==
  ASSUME Positions, pc = "push"
  PROVE  NewJob \in Job /\ counter \in Channel /\ jobCounter[counter] \in 1..MaxJobs
BY ChannelsAreNat DEF Positions, NewJob, Job

\* What a worker's step does to the directories.
LEMMA WorkersMoveJobs ==
  ASSUME QueuesOK, NEW w \in Q!Worker, Q!Runs(w) \/ Q!Vanish(w)
  PROVE  /\ UNCHANGED <<listed, lock, call>>
         /\ \A j \in Job : /\ j # w[1] => stage'[j] = stage[j] /\ dir'[j] = dir[j]
                           /\ stage[j] = 0 <=> stage'[j] = 0
                           /\ dir[j] = "failures" => dir'[j] = "failures"
                           /\ (stage[j] = Load /\ dir[j] # "inbox") => (stage'[j] = Load /\ dir'[j] # "inbox")
                           /\ lock[j[1]] => stage'[j] = stage[j] /\ dir'[j] = dir[j]
<1>1. w[1] \in Job /\ w[2] \in {Gen, Load} /\ w = <<w[1], w[2]>> /\ Gen = 1 /\ Load = 2
  BY WorkersOfLoad
<1> DEFINE k == w[1]
<1>2. stage \in [Job -> 0..2] /\ dir \in [Job -> Q!Dir] /\ worker \in [Q!Worker -> Q!WorkerState]
  BY DEF QueuesOK, Q!TypeOK
<1>3. Parameters /\ Q!IsFiniteSet(Job) /\ Q!TypeOK /\ Q!Phases
  BY ParametersHold, JobsAreFinite DEF QueuesOK
<1>4. worker[w] \in Q!Owning => stage[k] = w[2] /\ dir[k] = "inprogress"
  BY <1>3, Q!Located DEF Parameters
<1>5. [j \in Job |-> j[1]][k] = k[1]
  BY <1>1
<1>6. CASE Q!MoveToOutbox(w)
  <2>1. worker[w] = "reported" /\ ~lock[k[1]] /\ UNCHANGED <<listed, lock, call>>
        /\ stage' = [stage EXCEPT ![k] = IF stage[k] = 2 THEN stage[k] ELSE stage[k] + 1]
        /\ dir' = [dir EXCEPT ![k] = IF stage[k] = 2 THEN "outbox" ELSE "inbox"]
    BY <1>5, <1>6 DEF Q!MoveToOutbox, Q!Becomes
  <2>2. stage[k] = w[2] /\ dir[k] = "inprogress"
    BY <1>4, <2>1 DEF Q!Owning
  <2>3. \A j \in Job \ {k} : stage'[j] = stage[j] /\ dir'[j] = dir[j]
    BY <1>1, <1>2, <2>1
  <2>4. stage'[k] = (IF stage[k] = 2 THEN stage[k] ELSE stage[k] + 1)
        /\ dir'[k] = (IF stage[k] = 2 THEN "outbox" ELSE "inbox")
    BY <1>1, <1>2, <2>1
  <2>5. \A j \in Job : j # w[1] => stage'[j] = stage[j] /\ dir'[j] = dir[j]
    BY <2>3
  <2> HIDE DEF k
  <2> QED BY <1>1, <2>1, <2>2, <2>3, <2>4, <2>5
<1>7. CASE Q!MoveToFailures(w)
  <2>1. worker[w] = "raised" /\ ~lock[k[1]] /\ UNCHANGED <<stage, listed, lock, call>>
        /\ dir' = [dir EXCEPT ![k] = "failures"]
    BY <1>5, <1>7 DEF Q!MoveToFailures, Q!Becomes
  <2>2. \A j \in Job \ {k} : dir'[j] = dir[j]
    BY <1>2, <2>1
  <2>3. dir'[k] = "failures"
    BY <1>1, <1>2, <2>1
  <2>4. \A j \in Job : j # w[1] => dir'[j] = dir[j]
    BY <2>2
  <2> HIDE DEF k
  <2> QED BY <2>1, <2>2, <2>3, <2>4
<1>8. CASE UNCHANGED <<stage, dir, listed, lock, call>>
  BY <1>8
<1> QED BY <1>6, <1>7, <1>8
        DEF Q!Runs, Q!TaskReturns, Q!TaskRaises, Q!ReportSuccess, Q!ReportError, Q!Exit, Q!Vanish

\* What a tick does to the directories of a channel: it starts jobs, and a loader
\* finds that up to Overshoot sets more were generated.
LEMMA TicksStartJobs ==
  ASSUME QueuesOK, Numbers, NEW c \in Channel, TickQueue(c)
  PROVE  /\ UNCHANGED <<stage, lock, results, collated, jobCounter, nextBatchSize, template,
                        pc, ch, sweeping, uploadStatus, counting, allQuiet>>
         /\ \A j \in Job :
              \/ dir'[j] = dir[j] /\ sets'[j] = sets[j]
              \/ /\ j[1] = c /\ dir[j] = "inbox" /\ dir'[j] = "inprogress"
                 /\ sets[j] <= sets'[j] /\ sets'[j] <= sets[j] + Overshoot
                 /\ stage[j] # Load => sets'[j] = sets[j]
<1>1. PICK S \in SUBSET Q!JobsIn(c, call[c], "inbox") :
        /\ Q!TickStage(c, S)
        /\ \E extra \in [S -> IF call[c] = Load THEN 0..Overshoot ELSE {0}] :
             sets' = [j \in Job |-> IF j \in S THEN sets[j] + extra[j] ELSE sets[j]]
  BY DEF TickQueue
<1>2. PICK extra \in [S -> IF call[c] = Load THEN 0..Overshoot ELSE {0}] :
        sets' = [j \in Job |-> IF j \in S THEN sets[j] + extra[j] ELSE sets[j]]
  BY <1>1
<1>3. \A j \in S : j \in Job /\ j[1] = c /\ stage[j] = call[c] /\ dir[j] = "inbox"
  BY DEF Q!JobsIn
<1>4. dir' = [j \in Job |-> IF j \in S THEN "inprogress" ELSE dir[j]] /\ UNCHANGED <<stage, lock, results, collated>>
  BY <1>1 DEF Q!TickStage, Q!StartJobs
<1>5. UNCHANGED <<jobCounter, nextBatchSize, template, pc, ch, sweeping, uploadStatus, counting, allQuiet>>
  BY DEF TickQueue
<1>6. \A j \in S : extra[j] \in 0..Overshoot /\ (stage[j] # Load => extra[j] = 0)
  BY <1>2, <1>3, LoadAssumption
<1>7. \A j \in Job : sets[j] \in Nat
  BY DEF Numbers
<1>8. ASSUME NEW j \in Job
      PROVE  \/ dir'[j] = dir[j] /\ sets'[j] = sets[j]
             \/ /\ j[1] = c /\ dir[j] = "inbox" /\ dir'[j] = "inprogress"
                /\ sets[j] <= sets'[j] /\ sets'[j] <= sets[j] + Overshoot
                /\ stage[j] # Load => sets'[j] = sets[j]
  <2>1. CASE j \in S
    <3>1. sets'[j] = sets[j] + extra[j] /\ dir'[j] = "inprogress"
      BY <1>2, <1>4, <2>1
    <3> QED BY <1>3, <1>6, <1>7, <2>1, <3>1, LoadAssumption
  <2>2. CASE j \notin S
    BY <1>2, <1>4, <2>2
  <2> QED BY <2>1, <2>2
<1> QED BY <1>4, <1>5, <1>8

LEMMA PushesAddJob ==
  ASSUME QueuesOK, Positions, PushJob
  PROVE  /\ NewJob \in Job /\ stage[NewJob] = 0 /\ dir[NewJob] = "none" /\ stage'[NewJob] = 1 /\ dir'[NewJob] = "inbox"
         /\ \A j \in Job : j # NewJob => stage'[j] = stage[j] /\ dir'[j] = dir[j]
         /\ UNCHANGED <<listed, lock, results, collated, sets, jobCounter, nextBatchSize, template, ch, uploadStatus, counting, allQuiet>>
<1>1. NewJob \in Job
  BY NewJobIsJob DEF PushJob
<1>2. Q!Push(counter, NewJob) /\ UNCHANGED <<portions, ch, uploadStatus, counting, allQuiet>>
  BY DEF PushJob, NewJob
<1>3. stage \in [Job -> 0..2] /\ dir \in [Job -> Q!Dir]
  BY DEF QueuesOK, Q!TypeOK
<1>4. stage[NewJob] = 0 /\ stage' = [stage EXCEPT ![NewJob] = 1] /\ dir' = [dir EXCEPT ![NewJob] = "inbox"]
      /\ UNCHANGED <<listed, lock, results, collated>>
  BY <1>2 DEF Q!Push
<1>5. dir[NewJob] = "none"
  BY <1>1, <1>4 DEF QueuesOK, Q!Phases, Q!DirFits
<1> HIDE DEF NewJob
<1> QED BY <1>1, <1>2, <1>3, <1>4, <1>5 DEF portions

\* All other steps leave the directories and their names alone.
SameDisk ==
  /\ UNCHANGED <<stage, dir, template>>
  /\ \A j \in OnDisk : sets'[j] = sets[j]

LEMMA DiskSteps ==
  ASSUME QueuesOK, Positions, Numbers, Names, [Next]_vars
  PROVE  \/ SameDisk
         \/ \E c \in Channel : TickQueue(c)
         \/ PushJob
         \/ \E w \in Q!Worker : WorkerRuns(w) \/ WorkerVanishes(w)
<1>1. ASSUME UNCHANGED <<stage, dir, portions>> PROVE SameDisk
  BY <1>1 DEF SameDisk, portions
<1>2. CASE Batch
  <2>1. counter \in Channel /\ jobCounter[counter] + 1 \in 1..MaxJobs
    BY <1>2, ChannelsAreNat DEF Batch, Positions
  <2> DEFINE new == <<counter, jobCounter[counter] + 1>>
  <2>2. stage[new] = 0
    <3>1. new \in Job /\ new[2] > jobCounter[new[1]]
      BY <2>1, ChannelsAreNat DEF Job, Positions
    <3> QED BY <3>1 DEF Names
  <2>3. sets' = [sets EXCEPT ![new] = P!next_batch(counted.sets, nextBatchSize)] /\ UNCHANGED <<stage, dir, template>>
    BY <1>2 DEF Batch, queues
  <2> HIDE DEF new
  <2>4. \A j \in OnDisk : j \in Job /\ j # new
    BY <2>2 DEF OnDisk
  <2> QED BY <2>3, <2>4 DEF SameDisk, Numbers
<1>3. CASE StartTick \/ CountGen \/ CountLoad \/ TickBeforeTest
  BY <1>1, <1>3 DEF StartTick, CountGen, CountLoad, TickBeforeTest, Q!CallTick, Q!AcquireLock, Q!ReleaseLock
<1>4. CASE Collate \/ WaitForJobs \/ Results
  BY <1>1, <1>4 DEF Collate, WaitForJobs, Results, Q!Drain, queues
<1>5. CASE \/ Loop \/ EnterAssign \/ Assign \/ (\E c \in Channel : Offer(c)) \/ EndSweep
           \/ PushRefused \/ Pushed \/ Report \/ EnterCheck \/ TestChannel \/ Checked
           \/ UNCHANGED vars
  BY <1>1, <1>5 DEF Loop, EnterAssign, Assign, Offer, EndSweep, PushRefused, Pushed, Report,
                    EnterCheck, TestChannel, Checked, vars, queues
<1> QED BY <1>2, <1>3, <1>4, <1>5 DEF Next, Controller, Terminated

THEOREM NamesHold == Spec => []Names
<1>1. Init => Names
  BY DEF Init, Names, Q!QueueInit
<1>2. QueuesOK /\ Positions /\ Numbers /\ Names /\ [Next]_vars => Names'
  <2> SUFFICES ASSUME QueuesOK, Positions, Numbers, Names, [Next]_vars, NEW j \in Job, j[2] > jobCounter'[j[1]]
               PROVE  stage'[j] = 0
    BY DEF Names
  <2>1. j[1] \in Channel /\ j[2] \in Nat /\ jobCounter[j[1]] \in Nat
    BY ChannelsAreNat DEF Job, Positions
  <2>2. ASSUME jobCounter' = jobCounter, stage'[j] = stage[j] PROVE stage'[j] = 0
    BY <2>2 DEF Names
  <2>3. CASE Batch
    <3>1. /\ jobCounter' = [jobCounter EXCEPT ![counter] = jobCounter[counter] + 1] /\ stage' = stage
      BY <2>3 DEF Batch, queues
    <3>2. jobCounter'[j[1]] = jobCounter[j[1]] \/ jobCounter'[j[1]] = jobCounter[j[1]] + 1
      BY <2>1, <3>1 DEF Positions
    <3>3. j[2] > jobCounter[j[1]]
      BY <2>1, <3>2
    <3> QED BY <3>1, <3>3 DEF Names
  <2>4. CASE \E c \in Channel : TickQueue(c)
    BY <2>2, <2>4, TicksStartJobs
  <2>5. CASE PushJob
    <3>1. jobCounter' = jobCounter /\ (j # NewJob => stage'[j] = stage[j])
      BY <2>5, PushesAddJob
    <3>2. j # NewJob
      BY <2>1, <3>1 DEF NewJob
    <3> QED BY <2>2, <3>1, <3>2
  <2>6. ASSUME NEW w \in Q!Worker, WorkerRuns(w) \/ WorkerVanishes(w) PROVE stage'[j] = 0
    <3>1. (stage[j] = 0 <=> stage'[j] = 0) /\ jobCounter' = jobCounter
      BY <2>6, WorkersMoveJobs DEF WorkerRuns, WorkerVanishes, control, portions
    <3> QED BY <3>1 DEF Names
  <2>7. CASE SameDisk /\ ~Batch
    <3>1. stage' = stage
      BY <2>7 DEF SameDisk
    <3>2. CASE jobCounter' = jobCounter
      BY <2>2, <3>1, <3>2
    <3>3. CASE jobCounter' # jobCounter
      BY <2>4, <2>6, <2>7, <3>3
         DEF Next, Controller, Loop, StartTick, EnterAssign, Assign, Offer, EndSweep, CountGen, CountLoad, PushJob,
             PushRefused, Pushed, Collate, Report, EnterCheck, TickBeforeTest, TestChannel, Checked, WaitForJobs, Results,
             Terminated, vars, portions
    <3> QED BY <3>2, <3>3
  <2> QED BY <2>3, <2>4, <2>5, <2>6, <2>7, DiskSteps
<1> QED BY <1>1, <1>2, QueuesAreSound, PositionsHold, NumbersHold, PTL DEF Spec

-----------------------------------------------------------------------------
(* The counts.                                                             *)

LEMMA JobsOnDisk ==
  ASSUME QueuesOK
  PROVE  /\ Failed = {j \in Job : dir[j] = "failures"} /\ Failed \in SUBSET OnDisk /\ OnDisk \in SUBSET Job
         /\ \A j \in OnDisk \ Failed : \/ stage[j] = Gen /\ dir[j] \in {"inbox", "inprogress"}
                                       \/ stage[j] = Load /\ dir[j] \in {"inbox", "inprogress", "outbox"}
<1>1. Failed = {j \in Job : dir[j] = "failures"}
  BY DEF Failed, FailedIn, Job
<1>2. /\ stage \in [Job -> 0..2] /\ dir \in [Job -> Q!Dir] /\ Gen = 1 /\ Load = 2
  BY DEF QueuesOK, Q!TypeOK, Gen, Load
<1>3. \A j \in Job : (stage[j] = 0 <=> dir[j] = "none") /\ (dir[j] = "outbox" => stage[j] = 2)
  BY DEF QueuesOK, Q!Phases, Q!DirFits
<1> QED BY <1>1, <1>2, <1>3 DEF OnDisk, Q!Dir

\* The jobs a count has come past: those of the channels before the one it is at,
\* and there, under the lock, those of the generators.
Seen == {j \in OnDisk : j[1] < ch \/ (pc = "countLoad" /\ j[1] = ch /\ stage[j] = Gen)}

\* A job that failed meanwhile may have been counted or not.
CountIsOf(K) ==
  /\ K \subseteq Seen /\ Seen \ Failed \subseteq K
  /\ counted.sets = template + Sum(sets, K)

Counts ==
  pc \in {"count", "countLoad"} =>
    /\ pc = "countLoad" => lock[ch]
    /\ \E K \in SUBSET Job : CountIsOf(K)

LEMMA CountStarts ==
  ASSUME QueuesOK, Positions, Numbers, counted' = NothingCounted, ch' = 1, pc' = "count", UNCHANGED <<stage, dir, sets, template>>
  PROVE  Counts'
<1>1. Seen' = {}
  BY ChannelsAreNat DEF Seen, OnDisk, Job
<1>2. counted'.sets = template' + Sum(sets', {})
  BY SumOfNobody DEF NothingCounted, Numbers
<1>3. CountIsOf({})'
  BY <1>1, <1>2 DEF CountIsOf
<1> QED BY <1>3 DEF Counts

LEMMA CountsGen ==
  ASSUME QueuesOK, Positions, Numbers, Counts, CountGen
  PROVE  Counts'
<1> DEFINE H == InDirs(ch, Gen, {"inbox", "inprogress"})
<1>1. pc = "count" /\ ch \in Channel /\ pc' = "countLoad" /\ UNCHANGED <<stage, dir, sets, template, ch>>
      /\ lock' = [lock EXCEPT ![ch] = TRUE]
  BY DEF CountGen, Q!AcquireLock, portions
<1>2. PICK K \in SUBSET Job : CountIsOf(K)
  BY <1>1 DEF Counts
<1>3. H = {j \in OnDisk : j[1] = ch /\ stage[j] = Gen /\ dir[j] \in {"inbox", "inprogress"}}
  BY WorkersOfLoad DEF InDirs, Q!JobsIn, OnDisk
<1>4. H \in SUBSET Job /\ K \cap H = {}
  BY <1>1, <1>2, <1>3 DEF CountIsOf, Seen, OnDisk, Channel
<1>5. \A j \in K \cup H : sets[j] \in Nat
  BY <1>4 DEF Numbers
<1>6. Sum(sets, K \cup H) = Sum(sets, K) + Sum(sets, H)
  BY <1>4, <1>5, SumOfBoth
<1>7. counted'.sets = counted.sets + Sum(sets, H)
  BY SetsInIsSum DEF CountGen, Numbers
<1>8. counted.sets = template + Sum(sets, K) /\ Sum(sets, K) \in Nat /\ Sum(sets, H) \in Nat /\ template \in Nat
  BY <1>2, <1>4, <1>5, SumIsNat DEF CountIsOf, Numbers
<1>9. Seen' = Seen \cup {j \in OnDisk : j[1] = ch /\ stage[j] = Gen}
  BY <1>1 DEF Seen, OnDisk
<1>10. K \cup H \subseteq Seen' /\ Seen' \ Failed' \subseteq K \cup H
  <2>1. Failed' = Failed
    BY <1>1 DEF Failed, FailedIn
  <2>2. \A j \in OnDisk \ Failed : stage[j] = Gen => dir[j] \in {"inbox", "inprogress"}
    BY JobsOnDisk, WorkersOfLoad
  <2> HIDE DEF H
  <2> QED BY <1>2, <1>3, <1>9, <2>1, <2>2 DEF CountIsOf
<1>11. counted'.sets = template' + Sum(sets', K \cup H)
  <2> HIDE DEF H
  <2>1. counted'.sets = template + Sum(sets, K \cup H)
    BY <1>6, <1>7, <1>8
  <2> QED BY <1>1, <2>1
<1>12. lock'[ch'] = TRUE
  BY <1>1 DEF QueuesOK, Q!TypeOK
<1> HIDE DEF H
<1>13. PICK M \in SUBSET Job : M = K \cup H
  BY <1>4
<1>14. CountIsOf(M)'
  BY <1>10, <1>11, <1>13 DEF CountIsOf
<1> QED BY <1>12, <1>14 DEF Counts

LEMMA CountsLoad ==
  ASSUME QueuesOK, Positions, Numbers, Counts, CountLoad
  PROVE  Counts'
<1> DEFINE H == InDirs(ch, Load, {"inbox", "inprogress", "outbox"})
<1>1. pc = "countLoad" /\ ch \in Channel /\ pc' = "count" /\ ch' = ch + 1 /\ UNCHANGED <<stage, dir, sets, template>>
  BY DEF CountLoad, Positions, Q!ReleaseLock, portions
<1>2. PICK K \in SUBSET Job : CountIsOf(K)
  BY <1>1 DEF Counts
<1>3. H = {j \in OnDisk : j[1] = ch /\ stage[j] = Load /\ dir[j] \in {"inbox", "inprogress", "outbox"}}
  BY WorkersOfLoad DEF InDirs, Q!JobsIn, OnDisk
<1>4. H \in SUBSET Job /\ K \cap H = {}
  BY <1>1, <1>2, <1>3, WorkersOfLoad DEF CountIsOf, Seen, OnDisk, Channel
<1>5. \A j \in K \cup H : sets[j] \in Nat
  BY <1>4 DEF Numbers
<1>6. Sum(sets, K \cup H) = Sum(sets, K) + Sum(sets, H)
  BY <1>4, <1>5, SumOfBoth
<1>7. counted'.sets = counted.sets + Sum(sets, H)
  BY SetsInIsSum DEF CountLoad, Numbers
<1>8. counted.sets = template + Sum(sets, K) /\ Sum(sets, K) \in Nat /\ Sum(sets, H) \in Nat /\ template \in Nat
  BY <1>2, <1>4, <1>5, SumIsNat DEF CountIsOf, Numbers
<1>9. Seen' = {j \in OnDisk : j[1] < ch \/ j[1] = ch}
  <2>1. \A j \in Job : j[1] < ch + 1 <=> (j[1] < ch \/ j[1] = ch)
    BY <1>1, ChannelsAreNat DEF Job
  <2>2. Seen' = {j \in OnDisk : j[1] < ch + 1}
    BY <1>1 DEF Seen, OnDisk
  <2> QED BY <2>1, <2>2 DEF OnDisk
<1>10. K \cup H \subseteq Seen' /\ Seen' \ Failed' \subseteq K \cup H
  <2>1. Failed' = Failed
    BY <1>1 DEF Failed, FailedIn
  <2>2. Seen = {j \in OnDisk : j[1] < ch \/ (j[1] = ch /\ stage[j] = Gen)}
    BY <1>1 DEF Seen
  <2> HIDE DEF H
  <2> QED BY <1>2, <1>3, <1>9, <2>1, <2>2, JobsOnDisk DEF CountIsOf
<1>11. counted'.sets = template' + Sum(sets', K \cup H)
  <2> HIDE DEF H
  <2>1. counted'.sets = template + Sum(sets, K \cup H)
    BY <1>6, <1>7, <1>8
  <2> QED BY <1>1, <2>1
<1> HIDE DEF H
<1>12. PICK M \in SUBSET Job : M = K \cup H
  BY <1>4
<1>13. CountIsOf(M)'
  BY <1>10, <1>11, <1>12 DEF CountIsOf
<1> QED BY <1>1, <1>13 DEF Counts

\* A worker fails jobs at most, and none of the channel whose lock is held.
LEMMA CountsWhileWorkersMove ==
  ASSUME QueuesOK, Positions, Counts, NEW w \in Q!Worker, WorkerRuns(w) \/ WorkerVanishes(w)
  PROVE  Counts'
<1> SUFFICES ASSUME pc \in {"count", "countLoad"} PROVE Counts'
  BY DEF Counts, WorkerRuns, WorkerVanishes, control
<1>1. UNCHANGED <<pc, ch, sets, template, counted>>
  BY DEF WorkerRuns, WorkerVanishes, control, portions, counting
<1>2. /\ UNCHANGED lock
      /\ \A j \in Job : /\ stage[j] = 0 <=> stage'[j] = 0
                        /\ dir[j] = "failures" => dir'[j] = "failures"
                        /\ lock[j[1]] => stage'[j] = stage[j]
  BY WorkersMoveJobs DEF WorkerRuns, WorkerVanishes
<1>3. PICK K \in SUBSET Job : CountIsOf(K)
  BY DEF Counts
<1>4. OnDisk' = OnDisk /\ Failed \subseteq Failed'
  BY <1>2 DEF OnDisk, Failed, FailedIn
<1>5. pc = "countLoad" => \A j \in Job : j[1] = ch => stage'[j] = stage[j]
  BY <1>2 DEF Counts
<1>6. Seen' = Seen
  BY <1>1, <1>4, <1>5 DEF Seen, OnDisk
<1>7. CountIsOf(K)'
  BY <1>1, <1>3, <1>4, <1>6 DEF CountIsOf
<1>8. pc' = "countLoad" => lock'[ch']
  BY <1>1, <1>2 DEF Counts
<1> QED BY <1>7, <1>8 DEF Counts

\* A status taken directory by directory is a sum over all that is on disk, but
\* for some of the jobs that failed.
THEOREM CountsHold == Spec => []Counts
<1>1. Init => Counts
  BY DEF Init, Counts
<1>2. QueuesOK /\ Positions /\ Numbers /\ Names /\ Calls /\ Counts /\ [Next]_vars => Counts'
  <2> SUFFICES ASSUME QueuesOK, Positions, Numbers, Names, Calls, Counts, [Next]_vars PROVE Counts'
    OBVIOUS
  <2>1. ASSUME pc' \notin {"count", "countLoad"} PROVE Counts'
    BY <2>1 DEF Counts
  <2>2. CASE \E c \in Channel : Offer(c)
    <3>1. PICK c \in Channel : Offer(c)
      BY <2>2
    <3>2. CASE pc' = pc
      BY <2>1, <3>1, <3>2 DEF Offer
    <3>3. CASE pc' # pc
      BY <3>1, <3>3, CountStarts DEF Offer, StartCounting, queues, portions
    <3> QED BY <3>2, <3>3
  <2>3. CASE Collate
    BY <2>3, CountStarts DEF Collate, StartCounting, Q!Drain, portions
  <2>4. CASE CountGen
    BY <2>4, CountsGen
  <2>5. CASE CountLoad
    BY <2>5, CountsLoad
  <2>6. ASSUME NEW w \in Q!Worker, WorkerRuns(w) \/ WorkerVanishes(w) PROVE Counts'
    BY <2>6, CountsWhileWorkersMove
  <2>7. ASSUME NEW c \in Channel, TickQueue(c) PROVE Counts'
    <3>1. pc \in {"tick", "finish", "test", "pushed"}
      BY <2>7, NoTickElsewhere
    <3> QED BY <2>1, <2>7, <3>1 DEF TickQueue
  <2>8. CASE UNCHANGED vars
    BY <2>8 DEF vars, queues, portions, counting, Counts, CountIsOf, Seen, OnDisk, Failed, FailedIn
  <2>9. CASE \/ Loop \/ StartTick \/ EnterAssign \/ Assign \/ EndSweep \/ Batch \/ PushJob \/ PushRefused \/ Pushed
             \/ Report \/ EnterCheck \/ TickBeforeTest \/ TestChannel \/ Checked \/ WaitForJobs \/ Results
    BY <2>1, <2>9 DEF Loop, StartTick, EnterAssign, Assign, EndSweep, Batch, PushJob, PushRefused, Pushed,
             Report, EnterCheck, TickBeforeTest, TestChannel, Checked, WaitForJobs, Results
  <2> QED BY <2>2, <2>3, <2>4, <2>5, <2>6, <2>7, <2>8, <2>9 DEF Next, Controller, Terminated
<1> QED BY <1>1, <1>2, QueuesAreSound, PositionsHold, NumbersHold, NamesHold, CallsHold, PTL DEF Spec

LEMMA CountedIs ==
  ASSUME QueuesOK, Positions, Numbers, Counts, Counted
  PROVE  \E K \in SUBSET OnDisk : OnDisk \ Failed \subseteq K /\ counted.sets = template + Sum(sets, K)
<1>1. PICK K \in SUBSET Job : CountIsOf(K)
  BY DEF Counts, Counted
<1>2. Seen = OnDisk
  <2>1. ch = NumChannels + 1
    BY ChannelsAreNat DEF Counted, Positions
  <2> QED BY <2>1, ChannelsAreNat DEF Seen, OnDisk, Job
<1> QED BY <1>1, <1>2 DEF CountIsOf

\* The status is at least what is live and at most what is on disk.
LEMMA CountedIsBetween ==
  ASSUME QueuesOK, Positions, Numbers, Counts, Counted
  PROVE  /\ template + Sum(sets, OnDisk \ Failed) <= counted.sets
         /\ counted.sets <= template + Sum(sets, OnDisk)
         /\ counted.sets <= template + Sum(sets, OnDisk \ Failed) + Sum(sets, Failed)
<1>1. PICK K \in SUBSET OnDisk : OnDisk \ Failed \subseteq K /\ counted.sets = template + Sum(sets, K)
  BY CountedIs
<1>2. OnDisk \in SUBSET Job /\ Failed \in SUBSET OnDisk
  BY JobsOnDisk
<1>3. \A j \in Job : sets[j] \in Nat
  BY DEF Numbers
<1> DEFINE L == OnDisk \ Failed
<1>4. L \in SUBSET Job /\ L \in SUBSET K /\ K \in SUBSET Job /\ Failed \in SUBSET Job
      /\ L \cup Failed = OnDisk /\ L \cap Failed = {}
  BY <1>1, <1>2
<1> HIDE DEF L
<1>5. Sum(sets, K) \in Nat /\ Sum(sets, L) \in Nat /\ Sum(sets, L) <= Sum(sets, K)
  BY <1>3, <1>4, SumIsNat
<1>6. Sum(sets, OnDisk) \in Nat /\ Sum(sets, K) <= Sum(sets, OnDisk)
  BY <1>1, <1>2, <1>3, SumIsNat
<1>7. Sum(sets, L \cup Failed) = Sum(sets, L) + Sum(sets, Failed)
  BY <1>3, <1>4, SumOfBoth
<1>8. Sum(sets, OnDisk) = Sum(sets, L) + Sum(sets, Failed)
  BY <1>4, <1>7
<1>9. Sum(sets, Failed) \in Nat /\ template \in Nat
  BY <1>3, <1>4, SumIsNat DEF Numbers
<1>10. counted.sets = template + Sum(sets, K)
  BY <1>1
<1>11. /\ template + Sum(sets, L) <= counted.sets
       /\ counted.sets <= template + Sum(sets, OnDisk)
       /\ counted.sets <= template + Sum(sets, L) + Sum(sets, Failed)
  BY ONLY <1>5, <1>6, <1>8, <1>9, <1>10
<1> QED BY <1>11 DEF L

-----------------------------------------------------------------------------
(* No more is ordered than is missing.                                     *)

Live == OnDisk \ Failed

LEMMA LiveIs ==
  ASSUME QueuesOK
  PROVE  /\ Live \in SUBSET Job /\ OnDisk \in SUBSET Job /\ Failed \in SUBSET Job
         /\ Live = {j \in Job : stage[j] # 0 /\ dir[j] # "failures"}
BY JobsOnDisk DEF Live, OnDisk

\* What workers do makes fewer jobs live, never more.
LEMMA WorkersOnDisk ==
  ASSUME QueuesOK, NEW w \in Q!Worker, WorkerRuns(w) \/ WorkerVanishes(w)
  PROVE  /\ UNCHANGED <<pc, ch, sets, jobCounter, template, uploadStatus, counted, counter, allQuiet>>
         /\ OnDisk' = OnDisk /\ Live' \in SUBSET Live
<1>1. UNCHANGED <<pc, ch, sets, jobCounter, template, uploadStatus, counted, counter, allQuiet>>
  BY DEF WorkerRuns, WorkerVanishes, control, portions, counting
<1>2. \A j \in Job : (stage[j] = 0 <=> stage'[j] = 0) /\ (dir[j] = "failures" => dir'[j] = "failures")
  BY WorkersMoveJobs DEF WorkerRuns, WorkerVanishes
<1> QED BY <1>1, <1>2 DEF OnDisk, Live, Failed, FailedIn

\* A portion about to be pushed is no more than what the jobs that live lack.
Asked == pc = "push" => template + Sum(sets, Live) + sets[NewJob] <= Target

LEMMA BatchAsksForRest ==
  ASSUME QueuesOK, Positions, Numbers, Names, Counts, Batch
  PROVE  Asked'
<1> SUFFICES ASSUME pc' = "push" PROVE Asked'
  BY DEF Asked
<1> DEFINE new == <<counter, jobCounter[counter] + 1>>
           batch == P!next_batch(counted.sets, nextBatchSize)
<1>1. counter \in Channel /\ jobCounter[counter] + 1 \in 1..MaxJobs /\ new \in Job
  BY ChannelsAreNat DEF Batch, Positions, Job
<1>2. stage[new] = 0
  <2>1. new[2] > jobCounter[new[1]]
    BY <1>1, ChannelsAreNat DEF Positions
  <2> QED BY <1>1, <2>1 DEF Names
<1>3. /\ sets' = [sets EXCEPT ![new] = batch] /\ jobCounter' = [jobCounter EXCEPT ![counter] = jobCounter[counter] + 1]
      /\ batch # 0 /\ UNCHANGED <<stage, dir, template, counter>> /\ Counted
  BY DEF Batch, queues, counting
<1>4. NewJob' = new
  BY <1>1, <1>3 DEF NewJob, Positions
<1>5. batch \in Nat /\ counted.sets + batch <= Target /\ counted.sets \in Nat
  BY <1>3, PortionsFit DEF Numbers
<1> HIDE DEF new, batch
<1>6. Live' = Live /\ Live \in SUBSET Job /\ new \notin Live
  BY <1>2, <1>3, LiveIs DEF Live, OnDisk, Failed, FailedIn
<1>7. \A j \in Live : sets[j] \in Nat /\ sets[j] = sets'[j]
  BY <1>3, <1>6 DEF Numbers
<1>8. Sum(sets, Live) = Sum(sets', Live) /\ Sum(sets, Live) \in Nat
  BY <1>6, <1>7, SumOfSame, SumIsNat
<1>9. template + Sum(sets, Live) <= counted.sets
  BY <1>3, CountedIsBetween DEF Live
<1>10. sets'[new] = batch /\ template \in Nat
  BY <1>1, <1>3 DEF Numbers
<1>11. template + Sum(sets, Live) + batch <= Target
  BY <1>5, <1>8, <1>9, <1>10, LoadAssumption
<1>12. template' + Sum(sets', Live') + sets'[NewJob'] <= Target
  BY <1>3, <1>4, <1>6, <1>8, <1>10, <1>11
<1> QED BY <1>12 DEF Asked

LEMMA AskedWhileWorkersMove ==
  ASSUME QueuesOK, Positions, Numbers, Asked, NEW w \in Q!Worker, WorkerRuns(w) \/ WorkerVanishes(w)
  PROVE  Asked'
<1> SUFFICES ASSUME pc' = "push" PROVE template' + Sum(sets', Live') + sets'[NewJob'] <= Target
  BY DEF Asked
<1>1. UNCHANGED <<pc, sets, jobCounter, template, counter>> /\ Live' \in SUBSET Live
  BY WorkersOnDisk
<1>2. NewJob' = NewJob /\ NewJob \in Job
  BY <1>1, NewJobIsJob DEF NewJob
<1>3. Live \in SUBSET Job /\ \A j \in Live : sets[j] \in Nat
  BY LiveIs DEF Numbers
<1>4. Sum(sets, Live) \in Nat /\ Sum(sets, Live') \in Nat /\ Sum(sets, Live') <= Sum(sets, Live)
  BY <1>1, <1>3, SumIsNat
<1>5. template \in Nat /\ sets[NewJob] \in Nat /\ Target \in Nat
  BY <1>2, LoadAssumption DEF Numbers
<1>6. template + Sum(sets, Live) + sets[NewJob] <= Target
  BY <1>1 DEF Asked
<1>7. template + Sum(sets, Live') + sets[NewJob] <= Target
  BY <1>4, <1>5, <1>6
<1> QED BY <1>1, <1>2, <1>7

THEOREM AskedHolds == Spec => []Asked
<1>1. Init => Asked
  BY DEF Init, Asked
<1>2. QueuesOK /\ Positions /\ Numbers /\ Names /\ Calls /\ Counts /\ Asked /\ [Next]_vars => Asked'
  <2> SUFFICES ASSUME QueuesOK, Positions, Numbers, Names, Calls, Counts, Asked, [Next]_vars, pc' = "push" PROVE Asked'
    BY DEF Asked
  <2>1. CASE Batch
    BY <2>1, BatchAsksForRest
  <2>2. ASSUME NEW w \in Q!Worker, WorkerRuns(w) \/ WorkerVanishes(w) PROVE Asked'
    BY <2>2, AskedWhileWorkersMove
  <2>3. ASSUME NEW c \in Channel, TickQueue(c) PROVE FALSE
    BY <2>3, NoTickElsewhere DEF TickQueue
  <2>4. CASE UNCHANGED vars
    BY <2>4 DEF vars, queues, portions, counting, Asked, Live, OnDisk, Failed, FailedIn, NewJob
  <2>5. CASE \/ Loop \/ StartTick \/ EnterAssign \/ Assign \/ (\E c \in Channel : Offer(c)) \/ EndSweep \/ CountGen \/ CountLoad
             \/ PushJob \/ PushRefused \/ Pushed \/ Collate \/ Report
             \/ EnterCheck \/ TickBeforeTest \/ TestChannel \/ Checked \/ WaitForJobs \/ Results
    BY <2>5 DEF Loop, StartTick, EnterAssign, Assign, Offer, StartCounting, EndSweep, CountGen, CountLoad, PushJob,
             PushRefused, Pushed, Collate, Report, EnterCheck, TickBeforeTest, TestChannel, Checked, WaitForJobs, Results
  <2> QED BY <2>1, <2>2, <2>3, <2>4, <2>5 DEF Next, Controller, Terminated
<1> QED BY <1>1, <1>2, QueuesAreSound, PositionsHold, NumbersHold, NamesHold, CallsHold, CountsHold, PTL DEF Spec

-----------------------------------------------------------------------------
\* The loader has looked how many sets there really are.
StartedAtLoad(j) == stage[j] = Load /\ dir[j] # "inbox"

\* base[j] is what was asked for when job j was made: a loader may have found more.
OrderedAs(base) ==
  /\ \A j \in OnDisk : /\ base[j] <= sets[j] /\ sets[j] <= base[j] + Overshoot
                       /\ ~StartedAtLoad(j) => base[j] = sets[j]
  /\ template + Sum(base, Live) <= Target + Overshoot

Ordered == \E base \in [Job -> Nat] : OrderedAs(base)

LEMMA OrderedWhileTicking ==
  ASSUME QueuesOK, Positions, Numbers, Ordered, NEW c \in Channel, TickQueue(c)
  PROVE  Ordered'
<1>1. PICK base \in [Job -> Nat] : OrderedAs(base)
  BY DEF Ordered
<1>2. UNCHANGED <<stage, template>>
  BY TicksStartJobs
<1>3. \A j \in Job :
         \/ dir'[j] = dir[j] /\ sets'[j] = sets[j]
         \/ /\ dir[j] = "inbox" /\ dir'[j] = "inprogress"
            /\ sets[j] <= sets'[j] /\ sets'[j] <= sets[j] + Overshoot
            /\ stage[j] # Load => sets'[j] = sets[j]
  BY TicksStartJobs
<1>4. OnDisk' = OnDisk /\ Live' = Live
  BY <1>2, <1>3 DEF OnDisk, Live, Failed, FailedIn
<1>5. ASSUME NEW j \in OnDisk
      PROVE  /\ base[j] <= sets'[j] /\ sets'[j] <= base[j] + Overshoot
             /\ ~StartedAtLoad(j)' => base[j] = sets'[j]
  <2>1. j \in Job /\ base[j] <= sets[j] /\ sets[j] <= base[j] + Overshoot /\ (~StartedAtLoad(j) => base[j] = sets[j])
    BY <1>1 DEF OrderedAs, OnDisk
  <2>2. base[j] \in Nat /\ sets[j] \in Nat /\ Overshoot \in Nat
    BY <2>1, LoadAssumption DEF Numbers
  <2>3. CASE dir'[j] = dir[j] /\ sets'[j] = sets[j]
    BY <1>2, <2>1, <2>3 DEF StartedAtLoad
  <2>4. CASE /\ dir[j] = "inbox" /\ dir'[j] = "inprogress"
             /\ sets[j] <= sets'[j] /\ sets'[j] <= sets[j] + Overshoot
             /\ stage[j] # Load => sets'[j] = sets[j]
    <3>1. base[j] = sets[j]
      BY <2>1, <2>4 DEF StartedAtLoad
    <3> QED BY <1>2, <2>2, <2>4, <3>1 DEF StartedAtLoad
  <2> QED BY <1>3, <2>1, <2>3, <2>4
<1>6. OrderedAs(base)'
  BY <1>1, <1>2, <1>4, <1>5 DEF OrderedAs
<1> QED BY <1>6 DEF Ordered

\* The new job was asked for when what lived and what it brings did not exceed the
\* target: from here on what lived counts as ordered with what it brought.
LEMMA OrderedWhenPushed ==
  ASSUME QueuesOK, Positions, Numbers, Asked, Ordered, PushJob
  PROVE  Ordered'
<1>1. PICK base \in [Job -> Nat] : OrderedAs(base)
  BY DEF Ordered
<1>2. /\ NewJob \in Job /\ stage[NewJob] = 0 /\ stage'[NewJob] = 1 /\ dir'[NewJob] = "inbox"
      /\ \A j \in Job : j # NewJob => stage'[j] = stage[j] /\ dir'[j] = dir[j]
      /\ UNCHANGED <<sets, template>>
  BY PushesAddJob
<1>3. PICK k \in Job : k = NewJob
  BY <1>2
<1>4. OnDisk' = OnDisk \cup {k} /\ Live' = Live \cup {k} /\ k \notin OnDisk /\ k \notin Live
  BY <1>2, <1>3, LiveIs DEF OnDisk, Live, Failed, FailedIn
<1>5. PICK next \in [Job -> Nat] : next = [base EXCEPT ![k] = sets[k]]
  BY <1>1, <1>3 DEF Numbers
<1>6. \A j \in Job : next[j] = IF j = k THEN sets[k] ELSE base[j]
  BY <1>5
<1>7. Live \in SUBSET Job /\ Live \in SUBSET OnDisk /\ OnDisk \in SUBSET Job
  BY LiveIs DEF Live
<1>8. Sum(next, Live \cup {k}) = sets[k] + Sum(next, Live)
  <2>1. k \in Job \ Live /\ (\A j \in Live \cup {k} : next[j] \in Nat) /\ next[k] = sets[k]
    BY <1>4, <1>6, <1>7
  <2> QED BY <1>7, <2>1, SumOfOneMore
<1>9. Sum(next, Live) <= Sum(sets, Live)
  <2>1. \A j \in Live : next[j] \in Nat /\ sets[j] \in Nat /\ next[j] <= sets[j]
    BY <1>1, <1>4, <1>6, <1>7 DEF OrderedAs, Numbers
  <2> QED BY <1>7, <2>1, SumGrows
<1>10. template + Sum(sets, Live) + sets[k] <= Target
  BY <1>3 DEF PushJob, Asked
<1>11. /\ Sum(next, Live) \in Nat /\ Sum(sets, Live) \in Nat /\ sets[k] \in Nat /\ template \in Nat
       /\ Target \in Nat /\ Overshoot \in Nat
  BY <1>5, <1>7, SumIsNat, LoadAssumption DEF Numbers
<1>12. template + Sum(next, Live \cup {k}) <= Target + Overshoot
  BY ONLY <1>8, <1>9, <1>10, <1>11
<1>13. ASSUME NEW j \in OnDisk'
       PROVE  /\ next[j] <= sets'[j] /\ sets'[j] <= next[j] + Overshoot
              /\ ~StartedAtLoad(j)' => next[j] = sets'[j]
  <2>1. CASE j = k
    BY <1>2, <1>6, <1>11, <2>1
  <2>2. CASE j # k
    <3>1. j \in OnDisk /\ j \in Job /\ next[j] = base[j] /\ stage'[j] = stage[j] /\ dir'[j] = dir[j]
      BY <1>2, <1>3, <1>4, <1>6, <1>7, <2>2
    <3> QED BY <1>1, <1>2, <3>1 DEF OrderedAs, StartedAtLoad
  <2> QED BY <2>1, <2>2
<1>14. OrderedAs(next)'
  BY <1>2, <1>4, <1>12, <1>13 DEF OrderedAs
<1> QED BY <1>14 DEF Ordered

LEMMA OrderedWhileWorkersMove ==
  ASSUME QueuesOK, Positions, Numbers, Ordered, NEW w \in Q!Worker, WorkerRuns(w) \/ WorkerVanishes(w)
  PROVE  Ordered'
<1>1. PICK base \in [Job -> Nat] : OrderedAs(base)
  BY DEF Ordered
<1>2. UNCHANGED <<sets, template>> /\ OnDisk' = OnDisk /\ Live' \in SUBSET Live
  BY WorkersOnDisk
<1>3. \A j \in Job : StartedAtLoad(j) => StartedAtLoad(j)'
  BY WorkersMoveJobs DEF WorkerRuns, WorkerVanishes, StartedAtLoad
<1>4. Live \in SUBSET Job /\ OnDisk \in SUBSET Job /\ \A j \in Live : base[j] \in Nat
  BY LiveIs
<1>5. Sum(base, Live) \in Nat /\ Sum(base, Live') \in Nat /\ Sum(base, Live') <= Sum(base, Live)
  BY <1>2, <1>4, SumIsNat
<1>6. template + Sum(base, Live) <= Target + Overshoot /\ template \in Nat /\ Target \in Nat /\ Overshoot \in Nat
  BY <1>1, LoadAssumption DEF OrderedAs, Numbers
<1>7. template + Sum(base, Live') <= Target + Overshoot
  BY ONLY <1>5, <1>6
<1>8. \A j \in OnDisk : /\ base[j] <= sets[j] /\ sets[j] <= base[j] + Overshoot
                        /\ ~StartedAtLoad(j)' => base[j] = sets[j]
  BY <1>1, <1>3, <1>4 DEF OrderedAs
<1>9. OrderedAs(base)'
  BY <1>2, <1>7, <1>8 DEF OrderedAs
<1> QED BY <1>9 DEF Ordered

\* What lives was ordered within the target, but for what the template overshot.
THEOREM OrderedHolds == Spec => []Ordered
<1>1. Init => Ordered
  <2> SUFFICES ASSUME Init PROVE Ordered
    OBVIOUS
  <2>1. OnDisk = {} /\ Live = {}
    BY DEF Init, Q!QueueInit, OnDisk, Live
  <2>2. PICK base \in [Job -> Nat] : base = [j \in Job |-> 0]
    OBVIOUS
  <2>3. template \in Nat /\ template <= Target + Overshoot
    BY LoadAssumption DEF Init, InitialBatch
  <2>4. Sum(base, Live) = 0
    BY <2>1, SumOfNobody
  <2>5. OrderedAs(base)
    BY <2>1, <2>3, <2>4 DEF OrderedAs
  <2> QED BY <2>5 DEF Ordered
<1>2. QueuesOK /\ Positions /\ Numbers /\ Names /\ Asked /\ Ordered /\ [Next]_vars => Ordered'
  <2> SUFFICES ASSUME QueuesOK, Positions, Numbers, Names, Asked, Ordered, [Next]_vars PROVE Ordered'
    OBVIOUS
  <2>1. CASE SameDisk
    <3>1. PICK base \in [Job -> Nat] : OrderedAs(base)
      BY DEF Ordered
    <3>2. OnDisk' = OnDisk /\ Live' = Live /\ UNCHANGED template /\ \A j \in OnDisk : sets'[j] = sets[j]
      BY <2>1 DEF SameDisk, OnDisk, Live, Failed, FailedIn
    <3>3. \A j \in OnDisk : StartedAtLoad(j)' <=> StartedAtLoad(j)
      BY <2>1 DEF SameDisk, StartedAtLoad
    <3>4. OrderedAs(base)'
      BY <3>1, <3>2, <3>3 DEF OrderedAs
    <3> QED BY <3>4 DEF Ordered
  <2> QED BY <2>1, DiskSteps, OrderedWhileTicking, OrderedWhenPushed, OrderedWhileWorkersMove
<1> QED BY <1>1, <1>2, QueuesAreSound, PositionsHold, NumbersHold, NamesHold, AskedHolds, PTL DEF Spec

-----------------------------------------------------------------------------
(* The end of a load.                                                      *)

\* What is on disk never becomes less.
LEMMA DiskGrows ==
  ASSUME QueuesOK, Positions, Numbers, Names, [Next]_vars
  PROVE  template' = template /\ Sum(sets, OnDisk) <= Sum(sets', OnDisk') /\ Sum(sets, OnDisk) \in Nat /\ Sum(sets', OnDisk') \in Nat
<1>1. OnDisk \in SUBSET Job /\ \A j \in Job : sets[j] \in Nat
  BY LiveIs DEF Numbers
<1>2. Sum(sets, OnDisk) \in Nat
  BY <1>1, SumIsNat
<1>3. ASSUME OnDisk' = OnDisk, template' = template, \A j \in OnDisk : sets'[j] \in Nat /\ sets[j] <= sets'[j]
      PROVE  template' = template /\ Sum(sets, OnDisk) <= Sum(sets', OnDisk') /\ Sum(sets', OnDisk') \in Nat
  <2>1. Sum(sets, OnDisk) <= Sum(sets', OnDisk) /\ Sum(sets', OnDisk) \in Nat
    BY <1>1, <1>3, SumGrows, SumIsNat
  <2> QED BY <1>3, <2>1
<1>4. CASE SameDisk
  <2>1. OnDisk' = OnDisk /\ template' = template /\ \A j \in OnDisk : sets'[j] \in Nat /\ sets[j] <= sets'[j]
    BY <1>1, <1>4 DEF SameDisk, OnDisk
  <2> QED BY <1>2, <1>3, <2>1
<1>5. ASSUME NEW c \in Channel, TickQueue(c)
      PROVE  template' = template /\ Sum(sets, OnDisk) <= Sum(sets', OnDisk') /\ Sum(sets', OnDisk') \in Nat
  <2>1. UNCHANGED <<stage, template>> /\ \A j \in Job : \/ sets'[j] = sets[j]
                                                        \/ sets[j] <= sets'[j]
    BY <1>1, <1>5, TicksStartJobs
  <2>2. sets' \in [Job -> Nat]
    <3>1. PICK S \in SUBSET Q!JobsIn(c, call[c], "inbox") :
            \E extra \in [S -> IF call[c] = Load THEN 0..Overshoot ELSE {0}] :
              sets' = [j \in Job |-> IF j \in S THEN sets[j] + extra[j] ELSE sets[j]]
      BY <1>5 DEF TickQueue
    <3>2. PICK extra \in [S -> IF call[c] = Load THEN 0..Overshoot ELSE {0}] :
            sets' = [j \in Job |-> IF j \in S THEN sets[j] + extra[j] ELSE sets[j]]
      BY <3>1
    <3>3. \A j \in S : extra[j] \in Nat
      BY <3>2, LoadAssumption
    <3> QED BY <1>1, <3>2, <3>3
  <2>3. OnDisk' = OnDisk /\ \A j \in OnDisk : sets'[j] \in Nat /\ sets[j] <= sets'[j]
    BY <1>1, <2>1, <2>2 DEF OnDisk
  <2> QED BY <1>3, <2>1, <2>3
<1>6. CASE PushJob
  <2>1. OnDisk \subseteq OnDisk' /\ OnDisk' \in SUBSET Job /\ UNCHANGED <<sets, template>>
    BY <1>6, PushesAddJob DEF OnDisk
  <2>2. Sum(sets, OnDisk') \in Nat /\ Sum(sets, OnDisk) <= Sum(sets, OnDisk')
    BY <1>1, <2>1, SumIsNat
  <2> QED BY <1>2, <2>1, <2>2
<1>7. ASSUME NEW w \in Q!Worker, WorkerRuns(w) \/ WorkerVanishes(w)
      PROVE  template' = template /\ Sum(sets, OnDisk) <= Sum(sets', OnDisk') /\ Sum(sets', OnDisk') \in Nat
  <2>1. OnDisk' = OnDisk /\ UNCHANGED <<sets, template>>
    BY <1>7, WorkersOnDisk
  <2> QED BY <1>2, <2>1
<1> QED BY <1>2, <1>4, <1>5, <1>6, <1>7, DiskSteps

Finishing == {"finish", "check", "test", "waiting", "results", "done"}

\* The status _loop goes by is no more than what is on disk, and finish() is only
\* called when it reached the target.
Uploads ==
  /\ uploadStatus <= template + Sum(sets, OnDisk)
  /\ pc \in Finishing => uploadStatus >= Target

THEOREM UploadsHold == Spec => []Uploads
<1>1. Init => Uploads
  <2> SUFFICES ASSUME Init PROVE Uploads
    OBVIOUS
  <2>1. OnDisk = {} /\ uploadStatus = template /\ template \in Nat /\ pc = "loop"
    BY LoadAssumption DEF Init, Q!QueueInit, OnDisk, InitialBatch
  <2>2. Sum(sets, OnDisk) = 0
    BY <2>1, SumOfNobody
  <2> QED BY <2>1, <2>2 DEF Uploads, Finishing
<1>2. QueuesOK /\ Positions /\ Numbers /\ Names /\ Calls /\ Counts /\ Uploads /\ [Next]_vars => Uploads'
  <2> SUFFICES ASSUME QueuesOK, Positions, Numbers, Names, Calls, Counts, Uploads, [Next]_vars PROVE Uploads'
    OBVIOUS
  <2>1. template' = template /\ Sum(sets, OnDisk) <= Sum(sets', OnDisk') /\ Sum(sets, OnDisk) \in Nat /\ Sum(sets', OnDisk') \in Nat
    BY DiskGrows
  <2>2. template \in Nat /\ uploadStatus \in Nat /\ counted.sets \in Nat /\ Target \in Nat
    BY LoadAssumption DEF Numbers
  <2>3. ASSUME uploadStatus' = uploadStatus, pc' \in Finishing => pc \in Finishing PROVE Uploads'
    <3>1. uploadStatus <= template' + Sum(sets', OnDisk')
      BY <2>1, <2>2 DEF Uploads
    <3> QED BY <2>3, <3>1 DEF Uploads
  <2>4. CASE Loop
    <3>1. uploadStatus' = uploadStatus /\ pc' = IF P!done(uploadStatus) THEN "finish" ELSE "tick"
      BY <2>4 DEF Loop
    <3>2. P!done(uploadStatus) => uploadStatus >= Target
      BY <2>2 DEF P!done, P!gap
    <3>3. uploadStatus <= template' + Sum(sets', OnDisk')
      BY <2>1, <2>2 DEF Uploads
    <3> QED BY <3>1, <3>2, <3>3 DEF Uploads, Finishing
  <2>5. CASE Report
    <3>1. uploadStatus' = counted.sets /\ pc' \in {"aborted", "loop"} /\ Counted
      BY <2>5 DEF Report
    <3>2. counted.sets <= template + Sum(sets, OnDisk)
      BY <3>1, CountedIsBetween
    <3>3. counted.sets <= template' + Sum(sets', OnDisk')
      BY <2>1, <2>2, <3>2
    <3> QED BY <3>1, <3>3 DEF Uploads, Finishing
  <2>6. ASSUME NEW w \in Q!Worker, WorkerRuns(w) \/ WorkerVanishes(w) PROVE Uploads'
    BY <2>3, <2>6, WorkersOnDisk
  <2>7. ASSUME NEW c \in Channel, TickQueue(c) PROVE Uploads'
    BY <2>3, <2>7, TicksStartJobs
  <2>8. CASE \/ StartTick \/ EnterAssign \/ Assign \/ (\E c \in Channel : Offer(c)) \/ EndSweep \/ CountGen \/ CountLoad \/ Batch
             \/ PushJob \/ PushRefused \/ Pushed \/ Collate
             \/ EnterCheck \/ TickBeforeTest \/ TestChannel \/ Checked \/ WaitForJobs \/ Results \/ UNCHANGED vars
    BY <2>3, <2>8 DEF Finishing, StartTick, EnterAssign, Assign, Offer, StartCounting, EndSweep, CountGen, CountLoad, Batch,
         PushJob, PushRefused, Pushed, Collate, EnterCheck, TickBeforeTest, TestChannel, Checked, WaitForJobs, Results, vars
  <2> QED BY <2>4, <2>5, <2>6, <2>7, <2>8 DEF Next, Controller, Terminated
<1> QED BY <1>1, <1>2, QueuesAreSound, PositionsHold, NumbersHold, NamesHold, CallsHold, CountsHold, PTL DEF Spec

\* No worker of a channel is listed, none of its directories waits or is in progress.
Still(c) ==
  /\ \A w \in listed : w[1][1] # c
  /\ \A j \in Job : j[1] = c => dir[j] \notin {"inbox", "inprogress"}

LEMMA QuietIsStill ==
  ASSUME QueuesOK, NEW c \in Channel
  PROVE  Q!Quiet(c) <=> Still(c)
<1>1. \A w \in listed : w[1] \in Job
  BY WorkersOfLoad DEF QueuesOK, Q!TypeOK
<1> QED BY <1>1 DEF Q!Quiet, Still

\* A channel that is still stays so: nothing of it is left to start or to move.
LEMMA StaysStill ==
  ASSUME QueuesOK, Positions, Numbers, NEW c \in Channel, Still(c)
  PROVE  /\ \A d \in Channel : TickQueue(d) => Still(c)'
         /\ \A w \in Q!Worker : WorkerRuns(w) \/ WorkerVanishes(w) => Still(c)'
         /\ UNCHANGED <<listed, dir>> => Still(c)'
<1>1. ASSUME NEW d \in Channel, TickQueue(d) PROVE Still(c)'
  <2>1. PICK S \in SUBSET Q!JobsIn(d, call[d], "inbox") : Q!TickStage(d, S)
    BY <1>1 DEF TickQueue
  <2>2. listed' \subseteq listed \cup (S \X {call[d]})
    BY <2>1 DEF Q!TickStage, Q!StartJobs
  <2>3. \A j \in S : j \in Job /\ dir[j] = "inbox"
    BY DEF Q!JobsIn
  <2>4. \A w \in listed' : w[1][1] # c
    BY <2>2, <2>3 DEF Still
  <2>5. \A j \in Job : dir'[j] = dir[j] \/ dir[j] = "inbox"
    BY <1>1, TicksStartJobs
  <2> QED BY <2>4, <2>5 DEF Still
<1>2. ASSUME NEW w \in Q!Worker, WorkerRuns(w) \/ WorkerVanishes(w) PROVE Still(c)'
  <2>1. Q!is_alive(w)
    BY <1>2 DEF WorkerRuns, WorkerVanishes, Alive
  <2>2. w \in listed
    BY <2>1 DEF QueuesOK, Q!AliveAreListed
  <2>3. listed' = listed /\ \A j \in Job : j # w[1] => dir'[j] = dir[j]
    BY <1>2, WorkersMoveJobs DEF WorkerRuns, WorkerVanishes
  <2> QED BY <2>2, <2>3 DEF Still
<1> QED BY <1>1, <1>2 DEF Still

Quiets ==
  /\ pc \in {"check", "test"} /\ allQuiet => \A c \in Channel : c < ch => Still(c)
  /\ pc \in {"results", "done"} => \A c \in Channel : Still(c)
  /\ pc = "done" => results = {}

THEOREM QuietsHold == Spec => []Quiets
<1>1. Init => Quiets
  BY DEF Init, Quiets
<1>2. QueuesOK /\ Positions /\ Numbers /\ Calls /\ Quiets /\ [Next]_vars => Quiets'
  <2> SUFFICES ASSUME QueuesOK, Positions, Numbers, Calls, Quiets, [Next]_vars PROVE Quiets'
    OBVIOUS
  <2>1. ASSUME pc' \notin {"check", "test", "results", "done"} PROVE Quiets'
    BY <2>1 DEF Quiets
  <2>2. ASSUME pc' = pc, ch' = ch, allQuiet' = allQuiet, pc # "done",
               \A c \in Channel : Still(c) => Still(c)'
        PROVE  Quiets'
    BY <2>2 DEF Quiets
  <2>3. ASSUME NEW c \in Channel, TickQueue(c) PROVE Quiets'
    <3>1. UNCHANGED <<pc, ch, allQuiet>> /\ pc # "done"
      BY <2>3, NoTickElsewhere, TicksStartJobs
    <3>2. \A d \in Channel : Still(d) => Still(d)'
      BY <2>3, StaysStill
    <3> QED BY <2>2, <3>1, <3>2
  <2>4. ASSUME NEW w \in Q!Worker, WorkerRuns(w) \/ WorkerVanishes(w) PROVE Quiets'
    <3>1. UNCHANGED <<pc, ch, allQuiet>> /\ pc # "done"
      BY <2>4, WorkersOnDisk DEF WorkerRuns, WorkerVanishes, Alive, Stopped
    <3>2. \A d \in Channel : Still(d) => Still(d)'
      BY <2>4, StaysStill
    <3> QED BY <2>2, <3>1, <3>2
  <2>5. ASSUME UNCHANGED <<listed, dir>> PROVE \A c \in Channel : Still(c) => Still(c)'
    BY <2>5, StaysStill
  <2>6. CASE EnterCheck
    <3>1. pc' = "check" /\ ch' = 1
      BY <2>6 DEF EnterCheck
    <3> QED BY <3>1, ChannelsAreNat DEF Quiets
  <2>7. CASE TickBeforeTest
    <3>1. pc = "check" /\ pc' = "test" /\ UNCHANGED <<listed, dir, ch, allQuiet>>
      BY <2>7 DEF TickBeforeTest, Q!CallTick
    <3> QED BY <2>5, <3>1 DEF Quiets
  <2>8. CASE TestChannel
    <3>1. /\ pc = "test" /\ pc' = "check" /\ ch' = ch + 1 /\ UNCHANGED <<listed, dir>> /\ ch \in Channel
          /\ (allQuiet' <=> (allQuiet /\ Q!Quiet(ch)))
      BY <2>8 DEF TestChannel, queues, still_running, Positions
    <3>2. ASSUME allQuiet', NEW c \in Channel, c < ch' PROVE Still(c)'
      <4>1. allQuiet /\ Still(ch)
        BY <3>1, <3>2, QuietIsStill
      <4>2. c < ch \/ c = ch
        BY <3>1, <3>2, ChannelsAreNat
      <4>3. Still(c)
        BY <3>1, <4>1, <4>2 DEF Quiets
      <4> QED BY <2>5, <3>1, <4>3
    <3> QED BY <3>1, <3>2 DEF Quiets
  <2>9. CASE Checked
    <3>1. /\ pc = "check" /\ ch \notin Channel /\ UNCHANGED <<listed, dir>>
          /\ pc' \in {"results", "waiting"} /\ (pc' = "results" => allQuiet)
      BY <2>9 DEF Checked, queues
    <3>2. ASSUME pc' = "results", NEW c \in Channel PROVE Still(c)'
      <4>1. c < ch
        BY <3>1, ChannelsAreNat DEF Positions
      <4>2. Still(c)
        BY <3>1, <3>2, <4>1 DEF Quiets
      <4> QED BY <2>5, <3>1, <4>2
    <3> QED BY <3>1, <3>2 DEF Quiets
  <2>10. CASE Results
    <3>1. pc = "results" /\ pc' = "done" /\ results' = {} /\ UNCHANGED <<listed, dir>>
      BY <2>10 DEF Results, Q!Drain
    <3> QED BY <2>5, <3>1 DEF Quiets
  <2>11. CASE UNCHANGED vars
    BY <2>5, <2>11 DEF vars, queues, Quiets
  <2>12. CASE \/ Loop \/ StartTick \/ EnterAssign \/ Assign \/ (\E c \in Channel : Offer(c)) \/ EndSweep \/ CountGen \/ CountLoad
              \/ Batch \/ PushJob \/ PushRefused \/ Pushed \/ Collate \/ Report \/ WaitForJobs
    BY <2>1, <2>12 DEF Loop, StartTick, EnterAssign, Assign, Offer, StartCounting, EndSweep, CountGen, CountLoad, Batch,
         PushJob, PushRefused, Pushed, Collate, Report, WaitForJobs
  <2> QED BY <2>3, <2>4, <2>6, <2>7, <2>8, <2>9, <2>10, <2>11, <2>12 DEF Next, Controller, Terminated
<1> QED BY <1>1, <1>2, QueuesAreSound, PositionsHold, NumbersHold, CallsHold, PTL DEF Spec

-----------------------------------------------------------------------------
(* What is promised of the load.                                           *)

\* The load is never given more than it was asked for but for what the template
\* and each portion overshot by, however the directories moved while it was
\* counted, however many channels there are.
THEOREM NeverOverGenerated == Spec => []NoOverGeneration
<1>1. QueuesOK /\ Numbers /\ Ordered => NoOverGeneration
  <2> SUFFICES ASSUME QueuesOK, Numbers, Ordered PROVE NoOverGeneration
    OBVIOUS
  <2>1. PICK base \in [Job -> Nat] : OrderedAs(base)
    BY DEF Ordered
  <2>2. Live \in SUBSET Job /\ \A j \in Live : base[j] \in Nat /\ sets[j] \in Nat /\ sets[j] <= base[j] + Overshoot
    BY <2>1, LiveIs DEF Live, OrderedAs, Numbers
  <2>3. Overshoot \in Nat /\ Target \in Nat /\ template \in Nat /\ Cardinality(Live) \in Nat
    BY <2>2, LoadAssumption, JobSetsAreFinite DEF Numbers
  <2>4. Sum(sets, Live) <= Sum(base, Live) + Overshoot * Cardinality(Live)
    BY <2>2, <2>3, SumIsNoMore
  <2>5. Sum(sets, Live) \in Nat /\ Sum(base, Live) \in Nat
    BY <2>2, SumIsNat
  <2>6. template + Sum(base, Live) <= Target + Overshoot
    BY <2>1 DEF OrderedAs
  <2>7. Overshoot * Cardinality(Live) \in Nat /\ Overshoot * (Cardinality(Live) + 1) = Overshoot * Cardinality(Live) + Overshoot
    BY <2>3
  <2>8. CountedSets = template + Sum(sets, Live)
    BY SetsInIsSum DEF CountedSets, Live
  <2>9. CountedSets <= Target + Overshoot * (Cardinality(Live) + 1)
    BY ONLY <2>3, <2>4, <2>5, <2>6, <2>7, <2>8
  <2> QED BY <2>9 DEF NoOverGeneration, Live
<1> QED BY <1>1, QueuesAreSound, NumbersHold, OrderedHolds, PTL

\* The status the controller takes directory by directory misses no job that
\* lives and counts none twice.
THEOREM CountsAreSound == Spec => []CountIsSound
<1>1. QueuesOK /\ Positions /\ Numbers /\ Counts => CountIsSound
  BY CountedIsBetween, SetsInIsSum DEF CountIsSound, CountedSets
<1> QED BY <1>1, QueuesAreSound, PositionsHold, NumbersHold, CountsHold, PTL

\* A load that succeeds lacks no more sets than failed.
THEOREM ShortOnlyByFailure == Spec => []ShortfallOnlyByFailure
<1>1. QueuesOK /\ Numbers /\ Uploads /\ Quiets => ShortfallOnlyByFailure
  <2> SUFFICES ASSUME QueuesOK, Numbers, Uploads, Quiets, pc = "done" PROVE Finished + SetsIn(Failed) >= Target
    BY DEF ShortfallOnlyByFailure
  <2>1. \A j \in OnDisk : j \in Loaded \/ j \in Failed
    <3> SUFFICES ASSUME NEW j \in OnDisk, j \notin Failed PROVE j \in Loaded
      OBVIOUS
    <3>1. j \in Job /\ dir[j] \in {"inbox", "inprogress", "outbox"}
      BY JobsOnDisk
    <3>2. j[1] \in Channel
      BY <3>1 DEF Job
    <3> QED BY <3>1, <3>2 DEF Quiets, Still, Loaded
  <2>2. OnDisk \in SUBSET Job /\ Failed \in SUBSET OnDisk /\ Loaded \in SUBSET Job /\ \A j \in Job : sets[j] \in Nat
    BY JobsOnDisk DEF Loaded, Numbers
  <2>3. Loaded \cap Failed = {}
    BY JobsOnDisk DEF Loaded
  <2>4. Loaded \cup Failed \in SUBSET Job /\ OnDisk \in SUBSET (Loaded \cup Failed)
    BY <2>1, <2>2
  <2>5. Sum(sets, Loaded \cup Failed) = Sum(sets, Loaded) + Sum(sets, Failed)
    BY <2>2, <2>3, SumOfBoth
  <2>6. Sum(sets, OnDisk) <= Sum(sets, Loaded \cup Failed) /\ Sum(sets, OnDisk) \in Nat /\ Sum(sets, Loaded \cup Failed) \in Nat
    BY <2>2, <2>4, SumIsNat
  <2>7. Sum(sets, Loaded) \in Nat /\ Sum(sets, Failed) \in Nat
    BY <2>2, SumIsNat
  <2>8. uploadStatus <= template + Sum(sets, OnDisk) /\ uploadStatus >= Target
    BY DEF Uploads, Finishing
  <2>9. Finished = template + Sum(sets, Loaded) /\ SetsIn(Failed) = Sum(sets, Failed)
    BY SetsInIsSum DEF Finished, Loaded
  <2>10. template \in Nat /\ uploadStatus \in Nat /\ Target \in Nat
    BY LoadAssumption DEF Numbers
  <2> QED BY ONLY <2>5, <2>6, <2>7, <2>8, <2>9, <2>10
<1> QED BY <1>1, QueuesAreSound, NumbersHold, UploadsHold, QuietsHold, PTL

\* A load that succeeds has nothing left to do, and has read and added up every
\* report its loaders made.
THEOREM DoneIsSettled == Spec => []DoneMeansSettled
<1>1. QueuesOK /\ Quiets => DoneMeansSettled
  <2> SUFFICES ASSUME QueuesOK, Quiets, pc = "done"
               PROVE  /\ \A c \in Channel : Q!Quiet(c)
                      /\ \A j \in Loaded : [worker |-> <<j, Load>>, status |-> "success"] \in collated
                      /\ \A j \in Failed : stage[j] = Load =>
                           [worker |-> <<j, Load>>, status |-> "error"] \in collated
    BY DEF DoneMeansSettled
  <2>1. \A c \in Channel : Q!Quiet(c)
    BY QuietIsStill DEF Quiets
  <2>2. ASSUME NEW j \in Job, stage[j] = Load PROVE Q!ReportOf(<<j, Load>>) \in collated
    <3>1. j[1] \in Channel /\ [k \in Job |-> k[1]][j] = j[1]
      BY DEF Job
    <3>2. \A s \in {Load} \cap 1..stage[j] : Q!ReportOf(<<j, s>>) \in results \cup collated
      BY <2>1, <2>2, <3>1 DEF QueuesOK, Q!QuietIsSettled, Load
    <3>3. Load \in {Load} \cap 1..stage[j]
      BY <2>2 DEF Load
    <3> QED BY <3>2, <3>3 DEF Quiets
  <2>3. ASSUME NEW j \in Loaded PROVE [worker |-> <<j, Load>>, status |-> "success"] \in collated
    <3>1. j \in Job /\ dir[j] = "outbox" /\ stage[j] = Load
      BY JobsOnDisk, WorkersOfLoad DEF Loaded, QueuesOK, Q!Phases, Q!DirFits
    <3>2. Q!ReportOf(<<j, Load>>) = [worker |-> <<j, Load>>, status |-> "success"]
      BY <3>1 DEF Q!ReportOf
    <3> QED BY <2>2, <3>1, <3>2
  <2>4. ASSUME NEW j \in Failed, stage[j] = Load PROVE [worker |-> <<j, Load>>, status |-> "error"] \in collated
    <3>1. j \in Job /\ dir[j] = "failures"
      BY JobsOnDisk
    <3>2. Q!ReportOf(<<j, Load>>) = [worker |-> <<j, Load>>, status |-> "error"]
      BY <2>4, <3>1 DEF Q!ReportOf
    <3> QED BY <2>2, <2>4, <3>1, <3>2
  <2> QED BY <2>1, <2>3, <2>4
<1> QED BY <1>1, QueuesAreSound, QuietsHold, PTL

\* All of it together, as the run checks it.
THEOREM LoadsAreSound == Spec => []LoadIsSound
BY LoadTypeCorrect, NeverOverGenerated, CountsAreSound, ShortOnlyByFailure, DoneIsSettled, PTL DEF LoadIsSound
=============================================================================
