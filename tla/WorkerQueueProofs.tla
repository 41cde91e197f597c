--------------------------- MODULE WorkerQueueProofs ---------------------------
(***************************************************************************)
(* Proofs about WorkerQueue, for every number of pipelines, stages,        *)
(* workers and jobs, and whichever workers fail or die.                    *)
(*                                                                         *)
(* The inductive invariant says, for each directory a job may be in, how   *)
(* far the workers of the job have got (Phases).                           *)
(***************************************************************************)
EXTENDS WorkerQueue, TLAPS, FiniteSetTheorems, WellFoundedInduction

\* What the worker of a job at its present stage may be doing, by the directory
\* the job is in.
Fits(d, w, state) ==
  /\ d \in {"none", "inbox"} => state = "none"
  /\ d = "inprogress" => state \in Owning \/ (state = "dead" /\ w \in MayVanish)
  /\ d = "outbox" => state \in {"exiting", "dead"}
  /\ d = "failures" => state \in {"discarded", "exiting", "dead"}

DirFits(j) ==
  /\ (stage[j] = 0) <=> (dir[j] = "none")
  /\ dir[j] = "outbox" => stage[j] = NumStages

PhaseFits(j, s) ==
  /\ s > stage[j] => worker[<<j, s>>] = "none"
  /\ s < stage[j] => worker[<<j, s>>] \in {"exiting", "dead"}
  /\ s = stage[j] => Fits(dir[j], <<j, s>>, worker[<<j, s>>])

Phases == \A j \in Job : DirFits(j) /\ \A s \in Stage : PhaseFits(j, s)

-----------------------------------------------------------------------------
NextStage(s) == IF s = NumStages THEN s ELSE s + 1

LEMMA StageGrows ==
  ASSUME NEW s \in 0..NumStages
  PROVE  NextStage(s) \in 0..NumStages /\ s <= NextStage(s)
<1>1. NumStages \in Nat
  BY QueueAssumption
<1> QED BY <1>1 DEF NextStage

\* Every variable keeps its type through every step of every worker and of the
\* controller.
THEOREM TypeCorrect == QueueSpec => []TypeOK
<1> USE QueueAssumption DEF TypeOK
<1>1. QueueInit => TypeOK
  BY DEF QueueInit, Stage, Dir, WorkerState
<1>2. TypeOK /\ [QueueNext]_queueVars => TypeOK'
  <2> SUFFICES ASSUME TypeOK, [QueueNext]_queueVars PROVE TypeOK'
    OBVIOUS
  <2>1. ASSUME NEW p \in Pipeline, NEW j \in Job, Push(p, j) PROVE TypeOK'
    BY <2>1 DEF Push, Dir, Stage
  <2>2. ASSUME NEW p \in Pipeline, CallTick(p) PROVE TypeOK'
    BY <2>2 DEF CallTick
  <2>3. ASSUME NEW p \in Pipeline, NEW S \in SUBSET Job, TickStage(p, S)
        PROVE  TypeOK'
    <3>1. call[p] \in Stage /\ S \subseteq Job
      BY <2>3 DEF TickStage, Stage
    <3>2. S \X {call[p]} \subseteq Worker
      BY <3>1 DEF Worker
    <3>3. dir' \in [Job -> Dir] /\ worker' \in [Worker -> WorkerState]
      BY <2>3 DEF TickStage, StartJobs, Dir, WorkerState
    <3>4. listed' \subseteq Worker
      BY <2>3, <3>2 DEF TickStage, StartJobs
    <3>5. call' \in [Pipeline -> 0..NumStages]
      BY <2>3 DEF TickStage, Stage
    <3> QED BY <2>3, <3>3, <3>4, <3>5 DEF TickStage
  <2>4. ASSUME NEW p \in Pipeline, AcquireLock(p) PROVE TypeOK'
    BY <2>4 DEF AcquireLock
  <2>5. ASSUME NEW p \in Pipeline, ReleaseLock(p) PROVE TypeOK'
    BY <2>5 DEF ReleaseLock
  <2>6. CASE Drain
    BY <2>6 DEF Drain
  <2>7. ASSUME NEW w \in Worker, TaskReturns(w) PROVE TypeOK'
    BY <2>7 DEF TaskReturns, Becomes, WorkerState
  <2>8. ASSUME NEW w \in Worker, TaskRaises(w) PROVE TypeOK'
    BY <2>8 DEF TaskRaises, Becomes, WorkerState
  <2>9. ASSUME NEW w \in Worker, ReportSuccess(w) PROVE TypeOK'
    BY <2>9 DEF ReportSuccess, Becomes, WorkerState, Put, Report
  <2>10. ASSUME NEW w \in Worker, MoveToOutbox(w) PROVE TypeOK'
    <3>1. w[1] \in Job
      BY DEF Worker
    <3>2. stage' \in [Job -> 0..NumStages]
      <4>1. stage[w[1]] \in 0..NumStages
        BY <3>1
      <4>2. NextStage(stage[w[1]]) \in 0..NumStages
        BY <4>1, StageGrows
      <4>3. stage' = [stage EXCEPT ![w[1]] = NextStage(stage[w[1]])]
        BY <2>10 DEF MoveToOutbox, NextStage
      <4> QED BY <4>2, <4>3
    <3>3. dir' \in [Job -> Dir]
      BY <2>10, <3>1 DEF MoveToOutbox, Dir
    <3>4. worker' \in [Worker -> WorkerState]
      BY <2>10 DEF MoveToOutbox, Becomes, WorkerState
    <3> QED BY <2>10, <3>2, <3>3, <3>4 DEF MoveToOutbox
  <2>11. ASSUME NEW w \in Worker, MoveToFailures(w) PROVE TypeOK'
    BY <2>11 DEF MoveToFailures, Becomes, WorkerState, Dir
  <2>12. ASSUME NEW w \in Worker, ReportError(w) PROVE TypeOK'
    BY <2>12 DEF ReportError, Becomes, WorkerState, Put, Report
  <2>13. ASSUME NEW w \in Worker, Exit(w) PROVE TypeOK'
    BY <2>13 DEF Exit, Becomes, WorkerState
  <2>14. ASSUME NEW w \in Worker, Vanish(w) PROVE TypeOK'
    BY <2>14 DEF Vanish, WorkerState
  <2>15. CASE UNCHANGED queueVars
    BY <2>15 DEF queueVars
  <2> QED
    BY <2>1, <2>2, <2>3, <2>4, <2>5, <2>6, <2>7, <2>8, <2>9, <2>10, <2>11,
       <2>12, <2>13, <2>14, <2>15
    DEF QueueNext, ControllerStep, WorkerStep, Runs
<1> QED BY <1>1, <1>2, PTL DEF QueueSpec

-----------------------------------------------------------------------------
(* The phases of the workers of a job.                                     *)

LEMMA StagesAreNat == NumStages \in Nat /\ Stage \subseteq Nat \ {0}
BY QueueAssumption DEF Stage

LEMMA WorkerIsPair ==
  ASSUME NEW w \in Worker
  PROVE  w[1] \in Job /\ w[2] \in Stage /\ w = <<w[1], w[2]>>
BY DEF Worker

\* A worker that holds a directory is at the stage of its job.
LEMMA Located ==
  ASSUME TypeOK, Phases, NEW w \in Worker
  PROVE  /\ worker[w] \in Owning => stage[w[1]] = w[2] /\ dir[w[1]] = "inprogress"
         /\ worker[w] = "discarded" => stage[w[1]] = w[2] /\ dir[w[1]] = "failures"
<1> DEFINE j == w[1]
           s == w[2]
<1>1. j \in Job /\ s \in Stage /\ w = <<j, s>>
  BY WorkerIsPair
<1>2. PhaseFits(j, s)
  BY <1>1 DEF Phases
<1>3. s \in Nat /\ stage[j] \in Nat /\ dir[j] \in Dir
  BY <1>1, StagesAreNat DEF TypeOK
<1> HIDE DEF j, s
<1>4. worker[w] \in Owning \cup {"discarded"} => s = stage[j]
  BY <1>1, <1>2, <1>3 DEF PhaseFits, Owning
<1>5. worker[w] \in Owning \cup {"discarded"} => Fits(dir[j], w, worker[w])
  BY <1>1, <1>2, <1>4 DEF PhaseFits
<1>6. worker[w] \in Owning => dir[j] = "inprogress"
  BY <1>3, <1>5 DEF Fits, Owning, Dir
<1>7. worker[w] = "discarded" => dir[j] = "failures"
  BY <1>3, <1>5 DEF Fits, Owning, Dir
<1> QED BY <1>4, <1>6, <1>7 DEF j, s

\* What a step leaves alone keeps its phase.
LEMMA PhaseFrame ==
  ASSUME NEW j \in Job, NEW s \in Stage, PhaseFits(j, s),
         stage'[j] = stage[j], dir'[j] = dir[j],
         worker'[<<j, s>>] = worker[<<j, s>>]
  PROVE  PhaseFits(j, s)'
BY DEF PhaseFits

\* A step of one worker that leaves its directory where it is.
LEMMA PhaseOfOne ==
  ASSUME TypeOK, Phases, NEW w \in Worker,
         UNCHANGED <<stage, dir>>,
         NEW to, worker' = [worker EXCEPT ![w] = to],
         stage[w[1]] = w[2], Fits(dir[w[1]], w, to)
  PROVE  Phases'
<1>1. w[1] \in Job /\ w[2] \in Stage /\ w = <<w[1], w[2]>>
  BY WorkerIsPair
<1> SUFFICES ASSUME NEW j \in Job
             PROVE  DirFits(j)' /\ \A s \in Stage : PhaseFits(j, s)'
  BY DEF Phases
<1>2. DirFits(j)'
  BY DEF Phases, DirFits
<1>3. ASSUME NEW s \in Stage PROVE PhaseFits(j, s)'
  <2>1. <<j, s>> \in Worker
    BY DEF Worker
  <2>2. CASE <<j, s>> = w
    <3>1. j = w[1] /\ s = w[2] /\ worker'[<<j, s>>] = to
      BY <2>2, <2>1 DEF TypeOK
    <3>2. Fits(dir'[j], <<j, s>>, worker'[<<j, s>>])
      BY <2>2, <3>1
    <3>3. s \in Nat /\ stage'[j] = s
      BY <3>1, StagesAreNat
    <3> QED BY <3>2, <3>3 DEF PhaseFits
  <2>3. CASE <<j, s>> # w
    <3>1. worker'[<<j, s>>] = worker[<<j, s>>]
      BY <2>3, <2>1 DEF TypeOK
    <3> QED BY <3>1, PhaseFrame DEF Phases
  <2> QED BY <2>2, <2>3
<1> QED BY <1>2, <1>3

LEMMA PhasesPush ==
  ASSUME TypeOK, Phases, NEW p \in Pipeline, NEW k \in Job, Push(p, k)
  PROVE  Phases'
<1> SUFFICES ASSUME NEW j \in Job
             PROVE  DirFits(j)' /\ \A s \in Stage : PhaseFits(j, s)'
  BY DEF Phases
<1>1. stage[k] = 0 /\ stage'[k] = 1 /\ dir'[k] = "inbox" /\ worker' = worker
  BY DEF Push, TypeOK
<1>2. j # k => stage'[j] = stage[j] /\ dir'[j] = dir[j]
  BY DEF Push, TypeOK
<1>3. DirFits(j)'
  BY <1>1, <1>2 DEF Phases, DirFits
<1>4. ASSUME NEW s \in Stage PROVE PhaseFits(j, s)'
  <2>1. s \in Nat \ {0}
    BY StagesAreNat
  <2>2. CASE j = k
    <3>1. worker'[<<k, s>>] = "none"
      BY <1>1, <2>1 DEF Phases, PhaseFits
    <3> QED BY <1>1, <2>1, <2>2, <3>1 DEF PhaseFits, Fits
  <2>3. CASE j # k
    BY <1>1, <1>2, <2>3, PhaseFrame DEF Phases
  <2> QED BY <2>2, <2>3
<1> QED BY <1>3, <1>4

\* What tick() starts was in the inbox of the queue it is at.
LEMMA StartedWereQueued ==
  ASSUME TypeOK, NEW p \in Pipeline, NEW S \in SUBSET Job, TickStage(p, S)
  PROVE  /\ call[p] \in Stage
         /\ \A j \in S : /\ j \in Job /\ stage[j] = call[p] /\ dir[j] = "inbox"
                         /\ PipelineOf[j] = p
<1>1. call[p] \in Stage
  BY StagesAreNat DEF TickStage, TypeOK, Stage
<1>2. S \subseteq JobsIn(p, call[p], "inbox")
  BY DEF TickStage, Startable
<1> QED BY <1>1, <1>2 DEF JobsIn

LEMMA PhasesTick ==
  ASSUME TypeOK, Phases, NEW p \in Pipeline, NEW S \in SUBSET Job,
         TickStage(p, S)
  PROVE  Phases'
<1> DEFINE t == call[p]
<1>1. t \in Stage /\ t \in Nat \ {0}
  BY StartedWereQueued, StagesAreNat
<1>2. ASSUME NEW j \in S PROVE stage[j] = t /\ dir[j] = "inbox"
  BY <1>2, StartedWereQueued
<1>3. stage' = stage /\ dir' = [j \in Job |-> IF j \in S THEN "inprogress" ELSE dir[j]]
  BY DEF TickStage, StartJobs
<1>4. worker' = [w \in Worker |->
                   IF w[1] \in S /\ w[2] = t THEN "running" ELSE worker[w]]
  BY DEF TickStage, StartJobs
<1> HIDE DEF t
<1> SUFFICES ASSUME NEW j \in Job
             PROVE  DirFits(j)' /\ \A s \in Stage : PhaseFits(j, s)'
  BY DEF Phases
<1>5. DirFits(j)'
  BY <1>1, <1>2, <1>3 DEF Phases, DirFits
<1>6. ASSUME NEW s \in Stage PROVE PhaseFits(j, s)'
  <2>1. <<j, s>> \in Worker /\ s \in Nat
    BY StagesAreNat DEF Worker
  <2>2. CASE j \in S /\ s = t
    <3>1. worker'[<<j, s>>] = "running" /\ dir'[j] = "inprogress"
      BY <1>3, <1>4, <2>1, <2>2
    <3>2. stage'[j] = s
      BY <1>2, <1>3, <2>2
    <3> QED BY <2>1, <3>1, <3>2 DEF PhaseFits, Fits, Owning
  <2>3. CASE j \in S /\ s # t
    <3>1. worker'[<<j, s>>] = worker[<<j, s>>]
      BY <1>4, <2>1, <2>3
    <3>2. stage'[j] = stage[j] /\ stage[j] = t
      BY <1>2, <1>3, <2>3
    <3> QED BY <2>3, <3>1, <3>2 DEF Phases, PhaseFits
  <2>4. CASE j \notin S
    <3>1. worker'[<<j, s>>] = worker[<<j, s>>] /\ dir'[j] = dir[j]
      BY <1>3, <1>4, <2>1, <2>4
    <3> QED BY <1>3, <3>1, PhaseFrame DEF Phases
  <2> QED BY <2>2, <2>3, <2>4
<1> QED BY <1>5, <1>6

\* A worker that moves its directory on, or out of the last queue.
LEMMA PhasesMoveToOutbox ==
  ASSUME TypeOK, Phases, NEW w \in Worker, MoveToOutbox(w)
  PROVE  Phases'
<1> DEFINE k == w[1]
           t == w[2]
<1>1. k \in Job /\ t \in Stage /\ w = <<k, t>> /\ t \in Nat \ {0}
  BY WorkerIsPair, StagesAreNat
<1>2. stage[k] = t /\ worker[w] = "reported"
  BY Located DEF MoveToOutbox, Becomes, Owning
<1>3. stage'[k] = NextStage(t)
  BY <1>1, <1>2 DEF MoveToOutbox, NextStage, TypeOK
<1>4. dir'[k] = IF t = NumStages THEN "outbox" ELSE "inbox"
  BY <1>1, <1>2 DEF MoveToOutbox, TypeOK
<1>5. \A j \in Job : j # k => stage'[j] = stage[j] /\ dir'[j] = dir[j]
  BY DEF MoveToOutbox, TypeOK
<1>6. worker' = [worker EXCEPT ![w] = "exiting"]
  BY DEF MoveToOutbox, Becomes
<1> HIDE DEF k, t
<1> SUFFICES ASSUME NEW j \in Job
             PROVE  DirFits(j)' /\ \A s \in Stage : PhaseFits(j, s)'
  BY DEF Phases
<1>7. NumStages \in Nat
  BY StagesAreNat
<1>8. DirFits(j)'
  <2>1. CASE j = k
    <3>1. NextStage(t) # 0 /\ (t = NumStages => NextStage(t) = NumStages)
      BY <1>1, <1>7 DEF NextStage
    <3> QED BY <2>1, <3>1, <1>3, <1>4 DEF DirFits
  <2>2. CASE j # k
    BY <2>2, <1>5 DEF Phases, DirFits
  <2> QED BY <2>1, <2>2
<1>9. ASSUME NEW s \in Stage PROVE PhaseFits(j, s)'
  <2>1. <<j, s>> \in Worker /\ s \in Nat
    BY StagesAreNat DEF Worker
  <2>2. CASE j # k
    <3>1. worker'[<<j, s>>] = worker[<<j, s>>]
      BY <1>1, <1>6, <2>1, <2>2 DEF TypeOK
    <3> QED BY <1>5, <2>2, <3>1, PhaseFrame DEF Phases
  <2>3. CASE j = k /\ s = t
    <3>1. worker'[<<j, s>>] = "exiting"
      BY <1>1, <1>6, <2>1, <2>3 DEF TypeOK
    <3>2. stage'[j] = NextStage(s) /\ dir'[j] = IF s = NumStages THEN "outbox" ELSE "inbox"
      BY <1>3, <1>4, <2>3
    <3>3. CASE s = NumStages
      <4>1. stage'[j] = s /\ dir'[j] = "outbox"
        BY <3>2, <3>3 DEF NextStage
      <4> QED BY <2>1, <3>1, <4>1 DEF PhaseFits, Fits
    <3>4. CASE s # NumStages
      <4>1. stage'[j] = s + 1
        BY <3>2, <3>4 DEF NextStage
      <4> QED BY <2>1, <3>1, <4>1 DEF PhaseFits
    <3> QED BY <3>3, <3>4
  <2>4. CASE j = k /\ s # t
    <3>1. worker'[<<j, s>>] = worker[<<j, s>>]
      BY <1>1, <1>6, <2>1, <2>4 DEF TypeOK
    <3>2. PhaseFits(j, s) /\ stage[j] = t
      BY <1>2, <2>4 DEF Phases
    <3>3. s > t => worker'[<<j, s>>] = "none"
      BY <3>1, <3>2 DEF PhaseFits
    <3>4. s < t => worker'[<<j, s>>] \in {"exiting", "dead"}
      BY <3>1, <3>2 DEF PhaseFits
    <3>5. CASE t = NumStages
      <4>1. stage'[j] = t
        BY <1>3, <2>4, <3>5 DEF NextStage
      <4> QED BY <2>4, <3>3, <3>4, <4>1 DEF PhaseFits
    <3>6. CASE t # NumStages
      <4>1. stage'[j] = t + 1 /\ dir'[j] = "inbox"
        BY <1>3, <1>4, <2>4, <3>6 DEF NextStage
      <4>2. s > t \/ s < t
        BY <1>1, <2>1, <2>4
      <4> QED BY <1>1, <2>1, <3>3, <3>4, <4>1, <4>2 DEF PhaseFits, Fits
    <3> QED BY <3>5, <3>6
  <2> QED BY <2>2, <2>3, <2>4
<1> QED BY <1>8, <1>9

LEMMA PhasesMoveToFailures ==
  ASSUME TypeOK, Phases, NEW w \in Worker, MoveToFailures(w)
  PROVE  Phases'
<1> DEFINE k == w[1]
           t == w[2]
<1>1. k \in Job /\ t \in Stage /\ w = <<k, t>> /\ t \in Nat \ {0}
  BY WorkerIsPair, StagesAreNat
<1>2. stage[k] = t
  BY Located DEF MoveToFailures, Becomes, Owning
<1>3. stage' = stage /\ dir' = [dir EXCEPT ![k] = "failures"]
  BY DEF MoveToFailures
<1>4. worker' = [worker EXCEPT ![w] = "discarded"]
  BY DEF MoveToFailures, Becomes
<1> HIDE DEF k, t
<1> SUFFICES ASSUME NEW j \in Job
             PROVE  DirFits(j)' /\ \A s \in Stage : PhaseFits(j, s)'
  BY DEF Phases
<1>5. DirFits(j)'
  BY <1>1, <1>2, <1>3 DEF Phases, DirFits, TypeOK
<1>6. ASSUME NEW s \in Stage PROVE PhaseFits(j, s)'
  <2>1. <<j, s>> \in Worker /\ s \in Nat
    BY StagesAreNat DEF Worker
  <2>2. CASE j = k /\ s = t
    <3>1. worker'[<<j, s>>] = "discarded" /\ dir'[j] = "failures" /\ stage'[j] = s
      BY <1>1, <1>2, <1>3, <1>4, <2>1, <2>2 DEF TypeOK
    <3> QED BY <2>1, <3>1 DEF PhaseFits, Fits
  <2>3. CASE j = k /\ s # t
    <3>1. worker'[<<j, s>>] = worker[<<j, s>>] /\ stage'[j] = stage[j] /\ stage[j] # s
      BY <1>1, <1>2, <1>3, <1>4, <2>1, <2>3 DEF TypeOK
    <3> QED BY <3>1 DEF Phases, PhaseFits
  <2>4. CASE j # k
    <3>1. worker'[<<j, s>>] = worker[<<j, s>>] /\ dir'[j] = dir[j]
      BY <1>1, <1>3, <1>4, <2>1, <2>4 DEF TypeOK
    <3> QED BY <1>3, <3>1, PhaseFrame DEF Phases
  <2> QED BY <2>2, <2>3, <2>4
<1> QED BY <1>5, <1>6

\* A worker that is through, at its stage or a later one of its job, exits.
LEMMA PhasesExit ==
  ASSUME TypeOK, Phases, NEW w \in Worker, Exit(w)
  PROVE  Phases'
<1>1. UNCHANGED <<stage, dir>> /\ worker' = [worker EXCEPT ![w] = "dead"]
  BY DEF Exit, Becomes
<1>2. worker[w] = "exiting"
  BY DEF Exit, Becomes
<1> SUFFICES ASSUME NEW j \in Job
             PROVE  DirFits(j)' /\ \A s \in Stage : PhaseFits(j, s)'
  BY DEF Phases
<1>3. DirFits(j)'
  BY <1>1 DEF Phases, DirFits
<1>4. ASSUME NEW s \in Stage PROVE PhaseFits(j, s)'
  <2>1. <<j, s>> \in Worker /\ PhaseFits(j, s)
    BY DEF Worker, Phases
  <2>2. CASE <<j, s>> = w
    <3>1. worker'[<<j, s>>] = "dead" /\ worker[<<j, s>>] = "exiting"
      BY <1>1, <1>2, <2>1, <2>2 DEF TypeOK
    <3> QED BY <1>1, <2>1, <3>1 DEF PhaseFits, Fits, Owning
  <2>3. CASE <<j, s>> # w
    <3>1. worker'[<<j, s>>] = worker[<<j, s>>]
      BY <1>1, <2>1, <2>3 DEF TypeOK
    <3> QED BY <1>1, <2>1, <3>1, PhaseFrame
  <2> QED BY <2>2, <2>3
<1> QED BY <1>3, <1>4

\* The directory a job is in always tells how far its workers are.
THEOREM PhasesHold == QueueSpec => []Phases
<1>1. QueueInit => Phases
  BY StagesAreNat DEF QueueInit, Phases, DirFits, PhaseFits, Fits, Worker
<1>2. TypeOK /\ Phases /\ [QueueNext]_queueVars => Phases'
  <2> SUFFICES ASSUME TypeOK, Phases, [QueueNext]_queueVars PROVE Phases'
    OBVIOUS
  <2>1. ASSUME NEW p \in Pipeline, NEW j \in Job, Push(p, j) PROVE Phases'
    BY <2>1, PhasesPush
  <2>2. ASSUME NEW p \in Pipeline, NEW S \in SUBSET Job, TickStage(p, S)
        PROVE  Phases'
    BY <2>2, PhasesTick
  <2>3. ASSUME UNCHANGED <<stage, dir, worker>> PROVE Phases'
    BY <2>3 DEF Phases, DirFits, PhaseFits
  <2>4. ASSUME NEW p \in Pipeline, CallTick(p) \/ AcquireLock(p) \/ ReleaseLock(p)
        PROVE  Phases'
    BY <2>3, <2>4 DEF CallTick, AcquireLock, ReleaseLock
  <2>5. CASE Drain \/ UNCHANGED queueVars
    BY <2>3, <2>5 DEF Drain, queueVars
  <2>6. ASSUME NEW w \in Worker, TaskReturns(w) PROVE Phases'
    <3>1. UNCHANGED <<stage, dir>> /\ worker' = [worker EXCEPT ![w] = "succeeded"]
      BY <2>6 DEF TaskReturns, Becomes
    <3>2. stage[w[1]] = w[2] /\ dir[w[1]] = "inprogress"
      BY <2>6, Located DEF TaskReturns, Becomes, Owning
    <3>3. Fits(dir[w[1]], w, "succeeded")
      BY <3>2 DEF Fits, Owning
    <3> QED BY <3>1, <3>2, <3>3, PhaseOfOne
  <2>7. ASSUME NEW w \in Worker, TaskRaises(w) PROVE Phases'
    <3>1. UNCHANGED <<stage, dir>> /\ worker' = [worker EXCEPT ![w] = "raised"]
      BY <2>7 DEF TaskRaises, Becomes
    <3>2. stage[w[1]] = w[2] /\ dir[w[1]] = "inprogress"
      BY <2>7, Located DEF TaskRaises, Becomes, Owning
    <3>3. Fits(dir[w[1]], w, "raised")
      BY <3>2 DEF Fits, Owning
    <3> QED BY <3>1, <3>2, <3>3, PhaseOfOne
  <2>8. ASSUME NEW w \in Worker, ReportSuccess(w) PROVE Phases'
    <3>1. UNCHANGED <<stage, dir>> /\ worker' = [worker EXCEPT ![w] = "reported"]
      BY <2>8 DEF ReportSuccess, Becomes
    <3>2. stage[w[1]] = w[2] /\ dir[w[1]] = "inprogress"
      BY <2>8, Located DEF ReportSuccess, Becomes, Owning
    <3>3. Fits(dir[w[1]], w, "reported")
      BY <3>2 DEF Fits, Owning
    <3> QED BY <3>1, <3>2, <3>3, PhaseOfOne
  <2>9. ASSUME NEW w \in Worker, ReportError(w) PROVE Phases'
    <3>1. UNCHANGED <<stage, dir>> /\ worker' = [worker EXCEPT ![w] = "exiting"]
      BY <2>9 DEF ReportError, Becomes
    <3>2. stage[w[1]] = w[2] /\ dir[w[1]] = "failures"
      BY <2>9, Located DEF ReportError, Becomes
    <3>3. Fits(dir[w[1]], w, "exiting")
      BY <3>2 DEF Fits
    <3> QED BY <3>1, <3>2, <3>3, PhaseOfOne
  <2>10. ASSUME NEW w \in Worker, Exit(w) PROVE Phases'
    BY <2>10, PhasesExit
  <2>11. ASSUME NEW w \in Worker, Vanish(w) PROVE Phases'
    <3>1. /\ UNCHANGED <<stage, dir>> /\ worker' = [worker EXCEPT ![w] = "dead"]
          /\ w \in MayVanish
      BY <2>11 DEF Vanish
    <3>2. stage[w[1]] = w[2] /\ dir[w[1]] = "inprogress"
      BY <2>11, Located DEF Vanish, Owning
    <3>3. Fits(dir[w[1]], w, "dead")
      BY <3>1, <3>2 DEF Fits
    <3> QED BY <3>1, <3>2, <3>3, PhaseOfOne
  <2>12. ASSUME NEW w \in Worker, MoveToOutbox(w) \/ MoveToFailures(w) PROVE Phases'
    BY <2>12, PhasesMoveToOutbox, PhasesMoveToFailures
  <2> QED
    BY <2>1, <2>2, <2>4, <2>5, <2>6, <2>7, <2>8, <2>9, <2>10, <2>11, <2>12
    DEF QueueNext, ControllerStep, WorkerStep, Runs
<1> QED BY <1>1, <1>2, TypeCorrect, PTL DEF QueueSpec

\* A directory in progress belongs to one live worker, or to one that was killed;
\* a worker that holds a directory finds it in progress at its own stage.
THEOREM OwnershipHolds == QueueSpec => []Ownership
<1>1. TypeOK /\ Phases => Ownership
  <2> SUFFICES ASSUME TypeOK, Phases PROVE Ownership
    OBVIOUS
  <2>1. ASSUME NEW j \in Job, dir[j] = "inprogress"
        PROVE  \/ worker[<<j, stage[j]>>] \in Owning
               \/ worker[<<j, stage[j]>>] = "dead" /\ <<j, stage[j]>> \in MayVanish
    <3>1. stage[j] \in Stage
      <4>1. stage[j] \in 0..NumStages /\ stage[j] # 0
        BY <2>1 DEF TypeOK, Phases, DirFits
      <4> QED BY <4>1, StagesAreNat DEF Stage
    <3>2. Fits(dir[j], <<j, stage[j]>>, worker[<<j, stage[j]>>])
      BY <3>1 DEF Phases, PhaseFits
    <3> QED BY <2>1, <3>2 DEF Fits
  <2>2. ASSUME NEW w \in Worker, worker[w] \in Owning
        PROVE  dir[w[1]] = "inprogress" /\ stage[w[1]] = w[2]
    BY <2>2, Located
  <2> QED BY <2>1, <2>2 DEF Ownership
<1> QED BY <1>1, TypeCorrect, PhasesHold, PTL

-----------------------------------------------------------------------------
(***************************************************************************)
(* What a client of the queues relies on, proved from the phases of        *)
(* WorkerQueueProofs: the bound on the workers, and that a pipeline whose  *)
(* lists and directories are empty is settled.                             *)
(***************************************************************************)

-----------------------------------------------------------------------------
(* tick() forgets no worker that is alive.                                 *)

AliveAreListed == \A w \in Worker : is_alive(w) => w \in listed

\* A worker outside a tick changes only if it is alive.
LEMMA OnlyTheLivingChange ==
  ASSUME TypeOK, NEW w \in Worker, WorkerStep(w)
  PROVE  /\ is_alive(w)
         /\ \A v \in Worker : v # w => worker'[v] = worker[v]
         /\ listed' = listed
BY DEF WorkerStep, Runs, Becomes, TaskReturns, TaskRaises, ReportSuccess,
       MoveToOutbox, MoveToFailures, ReportError, Exit, Vanish, is_alive, TypeOK

LEMMA ListedTick ==
  ASSUME TypeOK, AliveAreListed, NEW p \in Pipeline, NEW S \in SUBSET Job,
         TickStage(p, S)
  PROVE  AliveAreListed'
<1> DEFINE t == call[p]
<1>1. worker' = [w \in Worker |->
                   IF w[1] \in S /\ w[2] = t THEN "running" ELSE worker[w]]
  BY DEF TickStage, StartJobs
<1>2. listed' = {w \in listed : w \in WorkersOf(p, t) => is_alive(w)} \cup (S \X {t})
  BY DEF TickStage, StartJobs
<1> HIDE DEF t
<1> SUFFICES ASSUME NEW w \in Worker, is_alive(w)' PROVE w \in listed'
  BY DEF AliveAreListed
<1>3. CASE w[1] \in S /\ w[2] = t
  <2>1. w = <<w[1], w[2]>>
    BY WorkerIsPair
  <2> QED BY <1>2, <1>3, <2>1
<1>4. CASE ~(w[1] \in S /\ w[2] = t)
  <2>1. worker'[w] = worker[w]
    BY <1>1, <1>4
  <2>2. is_alive(w)
    BY <2>1 DEF is_alive
  <2> QED BY <1>2, <2>2 DEF AliveAreListed
<1> QED BY <1>3, <1>4

\* Every live worker is in the list of its queue, so what tick() and free_space
\* count from the list is what is really running.
THEOREM AliveListed == QueueSpec => []AliveAreListed
<1>1. QueueInit => AliveAreListed
  BY DEF QueueInit, AliveAreListed, is_alive
<1>2. TypeOK /\ AliveAreListed /\ [QueueNext]_queueVars => AliveAreListed'
  <2> SUFFICES ASSUME TypeOK, AliveAreListed, [QueueNext]_queueVars
               PROVE  AliveAreListed'
    OBVIOUS
  <2>1. ASSUME UNCHANGED <<worker, listed>> PROVE AliveAreListed'
    BY <2>1 DEF AliveAreListed, is_alive
  <2>2. ASSUME NEW p \in Pipeline, NEW S \in SUBSET Job, TickStage(p, S)
        PROVE  AliveAreListed'
    BY <2>2, ListedTick
  <2>3. ASSUME NEW w \in Worker, WorkerStep(w) PROVE AliveAreListed'
    BY <2>3, OnlyTheLivingChange DEF AliveAreListed, is_alive
  <2>4. ASSUME NEW p \in Pipeline,
               \/ \E j \in Job : Push(p, j)
               \/ CallTick(p) \/ AcquireLock(p) \/ ReleaseLock(p)
        PROVE  AliveAreListed'
    BY <2>1, <2>4 DEF Push, CallTick, AcquireLock, ReleaseLock
  <2>5. CASE Drain \/ UNCHANGED queueVars
    BY <2>1, <2>5 DEF Drain, queueVars
  <2> QED BY <2>2, <2>3, <2>4, <2>5 DEF QueueNext, ControllerStep
<1> QED BY <1>1, <1>2, TypeCorrect, PTL DEF QueueSpec

-----------------------------------------------------------------------------
(* The bound on the workers.                                               *)

LEMMA WorkersFinite ==
  ASSUME NEW S \in SUBSET Worker
  PROVE  IsFiniteSet(S) /\ Cardinality(S) \in Nat
<1>1. IsFiniteSet(Stage)
  BY StagesAreNat, FS_Interval DEF Stage
<1>2. IsFiniteSet(Worker)
  BY <1>1, JobsFinite, FS_Product DEF Worker
<1> QED BY <1>2, FS_Subset, FS_CardinalityType

LEMMA WorkersAreMany ==
  ASSUME NEW p \in Pipeline, NEW s \in Stage
  PROVE  NumWorkers[p][s] \in Nat
BY QueueAssumption

LEMMA WorkersOfJobs ==
  ASSUME NEW S \in SUBSET Job, NEW t
  PROVE  IsFiniteSet(S) /\ IsFiniteSet(S \X {t})
         /\ Cardinality(S) \in Nat /\ Cardinality(S \X {t}) <= Cardinality(S)
<1> DEFINE f == [j \in S |-> <<j, t>>]
<1>1. IsFiniteSet(S) /\ Cardinality(S) \in Nat
  BY JobsFinite, FS_Subset, FS_CardinalityType
<1>2. f \in Surjection(S, S \X {t})
  BY DEF Surjection
<1> HIDE DEF f
<1> QED BY <1>1, <1>2, FS_Surjection

\* Among the live workers of a queue there are no more than num_workers while
\* a tick fills it up.
LEMMA BoundTick ==
  ASSUME TypeOK, AliveAreListed, WorkerBound,
         NEW p \in Pipeline, NEW S \in SUBSET Job, TickStage(p, S)
  PROVE  WorkerBound'
<1> DEFINE t == call[p]
<1>1. t \in Stage /\ S \in Startable(p, t)
  BY StartedWereQueued DEF TickStage
<1>2. worker' = [w \in Worker |->
                   IF w[1] \in S /\ w[2] = t THEN "running" ELSE worker[w]]
  BY DEF TickStage, StartJobs
<1>3. \A j \in S : PipelineOf[j] = p
  BY StartedWereQueued
<1> HIDE DEF t
<1> SUFFICES ASSUME NEW q \in Pipeline, NEW s \in Stage
             PROVE  Cardinality(Alive(q, s)') <= NumWorkers[q][s]
  BY DEF WorkerBound
<1>4. /\ Alive(q, s) \in SUBSET Worker /\ Alive(q, s)' \in SUBSET Worker
      /\ Cardinality(Alive(q, s)) <= NumWorkers[q][s]
  BY DEF WorkerBound, Alive, WorkersOf
<1>5. CASE q = p /\ s = t
  <2> DEFINE A == Alive(p, t)
             free == NumFreeWorkers(p, t)
  <2>1. Alive(q, s)' \subseteq A \cup (S \X {t})
    <3> SUFFICES ASSUME NEW w \in Alive(q, s)' PROVE w \in A \cup (S \X {t})
      OBVIOUS
    <3>1. w \in WorkersOf(p, t) /\ is_alive(w)' /\ w \in Worker /\ w = <<w[1], w[2]>>
      BY <1>5, WorkerIsPair DEF Alive, WorkersOf
    <3>2. CASE w[1] \in S
      BY <3>1, <3>2 DEF WorkersOf
    <3>3. CASE w[1] \notin S
      <4>1. worker'[w] = worker[w]
        BY <1>2, <3>1, <3>3
      <4> QED BY <3>1, <4>1 DEF Alive, is_alive
    <3> QED BY <3>2, <3>3
  <2>2. {w \in listed \cap WorkersOf(p, t) : is_alive(w)} = A
    BY DEF AliveAreListed, Alive, WorkersOf
  <2>3. free = NumWorkers[p][t] - Cardinality(A)
    BY <2>2 DEF NumFreeWorkers
  <2>4. Cardinality(A) \in Nat /\ IsFiniteSet(A) /\ NumWorkers[p][t] \in Nat
    BY <1>1, <1>4, <1>5, WorkersFinite, WorkersAreMany
  <2>5. free \in Nat
    BY <1>4, <1>5, <2>3, <2>4
  <2>6. Cardinality(S) <= free
    <3> DEFINE queued == JobsIn(p, t, "inbox")
    <3>1. Cardinality(queued) <= free => S = queued
      BY <1>1 DEF Startable
    <3>2. ~(Cardinality(queued) <= free) => Cardinality(S) = IF free > 0 THEN free ELSE 0
      BY <1>1 DEF Startable
    <3> HIDE DEF queued, free
    <3> QED BY <2>5, <3>1, <3>2
  <2>7. /\ IsFiniteSet(S \X {t}) /\ Cardinality(S \X {t}) \in Nat
        /\ Cardinality(S \X {t}) <= Cardinality(S) /\ Cardinality(S) \in Nat
    BY WorkersOfJobs, FS_CardinalityType
  <2> HIDE DEF A, free
  <2>8. /\ IsFiniteSet(A \cup (S \X {t}))
        /\ Cardinality(A \cup (S \X {t})) <= Cardinality(A) + Cardinality(S \X {t})
        /\ Cardinality(A \cup (S \X {t})) \in Nat
    <3>1. Cardinality(A \cap (S \X {t})) \in Nat
      BY <2>4, FS_Subset, FS_CardinalityType
    <3>2. /\ IsFiniteSet(A \cup (S \X {t}))
          /\ Cardinality(A \cup (S \X {t}))
               = Cardinality(A) + Cardinality(S \X {t}) - Cardinality(A \cap (S \X {t}))
      BY <2>4, <2>7, FS_Union
    <3> QED BY <2>4, <2>7, <3>1, <3>2, FS_CardinalityType
  <2>9. Cardinality(Alive(q, s)') <= Cardinality(A \cup (S \X {t}))
        /\ Cardinality(Alive(q, s)') \in Nat
    BY <1>4, <2>1, <2>8, FS_Subset, WorkersFinite
  <2> QED BY <1>5, <2>3, <2>4, <2>5, <2>6, <2>7, <2>8, <2>9
<1>6. CASE ~(q = p /\ s = t)
  <2>1. Alive(q, s)' \subseteq Alive(q, s)
    <3> SUFFICES ASSUME NEW w \in Alive(q, s)' PROVE w \in Alive(q, s)
      OBVIOUS
    <3>1. /\ w \in Worker /\ PipelineOf[w[1]] = q /\ w[2] = s /\ is_alive(w)'
      BY DEF Alive, WorkersOf
    <3>2. worker'[w] = worker[w]
      BY <1>2, <1>3, <1>6, <3>1
    <3> QED BY <3>1, <3>2 DEF Alive, WorkersOf, is_alive
  <2>2. Cardinality(Alive(q, s)') <= Cardinality(Alive(q, s))
    BY <1>4, <2>1, FS_Subset, WorkersFinite
  <2>3. Cardinality(Alive(q, s)') \in Nat /\ Cardinality(Alive(q, s)) \in Nat
        /\ NumWorkers[q][s] \in Nat
    BY <1>4, WorkersFinite, WorkersAreMany
  <2> QED BY <1>4, <2>2, <2>3
<1> QED BY <1>5, <1>6

\* Never more live workers at a queue than its num_workers, however ticks, deaths
\* and failures interleave.
THEOREM WorkersBounded == QueueSpec => []WorkerBound
<1>1. QueueInit => WorkerBound
  <2> SUFFICES ASSUME QueueInit, NEW p \in Pipeline, NEW s \in Stage
               PROVE  Cardinality(Alive(p, s)) <= NumWorkers[p][s]
    BY DEF WorkerBound
  <2>1. Alive(p, s) = {}
    BY DEF QueueInit, Alive, WorkersOf, is_alive
  <2> QED BY <2>1, FS_EmptySet, WorkersAreMany
<1>2. TypeOK /\ AliveAreListed /\ WorkerBound /\ [QueueNext]_queueVars
        => WorkerBound'
  <2> SUFFICES ASSUME TypeOK, AliveAreListed, WorkerBound, [QueueNext]_queueVars
               PROVE  WorkerBound'
    OBVIOUS
  <2>1. ASSUME \A w \in Worker : is_alive(w)' => is_alive(w)
        PROVE  WorkerBound'
    <3> SUFFICES ASSUME NEW p \in Pipeline, NEW s \in Stage
                 PROVE  Cardinality(Alive(p, s)') <= NumWorkers[p][s]
      BY DEF WorkerBound
    <3>1. /\ Alive(p, s)' \subseteq Alive(p, s) /\ Alive(p, s) \in SUBSET Worker
          /\ Alive(p, s)' \in SUBSET Worker
      BY <2>1 DEF Alive, WorkersOf
    <3>2. Cardinality(Alive(p, s)') <= Cardinality(Alive(p, s))
      BY <3>1, FS_Subset, WorkersFinite
    <3>3. Cardinality(Alive(p, s)') \in Nat /\ Cardinality(Alive(p, s)) \in Nat
          /\ NumWorkers[p][s] \in Nat
      BY <3>1, WorkersFinite, WorkersAreMany
    <3>4. Cardinality(Alive(p, s)) <= NumWorkers[p][s]
      BY DEF WorkerBound
    <3> QED BY <3>2, <3>3, <3>4
  <2>2. ASSUME NEW p \in Pipeline, NEW S \in SUBSET Job, TickStage(p, S)
        PROVE  WorkerBound'
    BY <2>2, BoundTick
  <2>3. ASSUME NEW w \in Worker, WorkerStep(w) PROVE WorkerBound'
    BY <2>1, <2>3, OnlyTheLivingChange DEF is_alive
  <2>4. ASSUME NEW p \in Pipeline,
               \/ \E j \in Job : Push(p, j)
               \/ CallTick(p) \/ AcquireLock(p) \/ ReleaseLock(p)
        PROVE  WorkerBound'
    BY <2>1, <2>4 DEF Push, CallTick, AcquireLock, ReleaseLock, is_alive
  <2>5. CASE Drain \/ UNCHANGED queueVars
    BY <2>1, <2>5 DEF Drain, queueVars, is_alive
  <2> QED BY <2>2, <2>3, <2>4, <2>5 DEF QueueNext, ControllerStep
<1> QED BY <1>1, <1>2, TypeCorrect, AliveListed, PTL DEF QueueSpec

-----------------------------------------------------------------------------
(* Finite sets.                                                            *)

\* Among subsets of a finite set there is a least, as strict inclusion is well-founded.
LEMMA LeastSetExists ==
  ASSUME NEW S, IsFiniteSet(S), NEW Sets \in SUBSET SUBSET S, Sets # {}
  PROVE  \E T \in Sets : \A U \in Sets : U \subseteq T => U = T
<1>1. Sets \subseteq FiniteSubsetsOf(S) /\ Sets # {}
  BY FS_Subset DEF FiniteSubsetsOf
<1>2. IsWellFoundedOn(StrictSubsetOrdering(S), FiniteSubsetsOf(S))
  BY FS_StrictSubsetOrderingWellFounded
<1>3. PICK T \in Sets : \A U \in Sets : <<U, T>> \notin StrictSubsetOrdering(S)
  BY ONLY <1>1, <1>2, WFMin, Zenon
<1>4. ASSUME NEW U \in Sets, U \subseteq T, U # T PROVE <<U, T>> \in StrictSubsetOrdering(S)
  BY <1>4, Zenon DEF StrictSubsetOrdering
<1>5. \A U \in Sets : U \subseteq T => U = T
  BY <1>3, <1>4
<1> QED BY <1>5, Zenon

\* Induction over a finite set, for a set of good subsets.
LEMMA FiniteSetInduction ==
  ASSUME NEW S, IsFiniteSet(S), NEW Good, {} \in Good,
         \A T \in SUBSET S : \A x \in S \ T : T \in Good => T \cup {x} \in Good
  PROVE  S \in Good
<1> DEFINE Bad == {T \in SUBSET S : T \notin Good}
<1>1. SUFFICES ASSUME S \notin Good PROVE FALSE
  OBVIOUS
<1>2. PICK T \in Bad : \A U \in Bad : U \subseteq T => U = T
  <2>1. Bad \in SUBSET SUBSET S /\ Bad # {}
    BY <1>1
  <2> HIDE DEF Bad
  <2> QED BY ONLY <2>1, IsFiniteSet(S), LeastSetExists
<1>3. PICK x \in T : TRUE
  BY <1>2
<1>4. T \ {x} \in SUBSET S /\ T \ {x} # T /\ (T \ {x}) \cup {x} = T /\ x \in S \ (T \ {x})
  BY <1>3
<1> QED BY <1>2, <1>4

-----------------------------------------------------------------------------
(* Sums over finite sets: the fold of the library is a recursive function on   *)
(* the subsets of a set, which exists and is unique.                           *)

Sums(f, S, h) ==
  h = [T \in SUBSET S |-> IF T = {} THEN 0 ELSE LET x == CHOOSE x \in T : TRUE IN f[x] + h[T \ {x}]]

LEMMA SumsAgree ==
  ASSUME NEW f, NEW U, NEW V, NEW g, NEW h, Sums(f, U, g), Sums(f, V, h),
         NEW W \in SUBSET U, W \in SUBSET V, IsFiniteSet(W)
  PROVE  g[W] = h[W]
<1> DEFINE Bad == {T \in SUBSET W : g[T] # h[T]}
<1>1. SUFFICES ASSUME Bad # {} PROVE FALSE
  OBVIOUS
<1>2. PICK T \in Bad : \A X \in Bad : X \subseteq T => X = T
  <2>1. Bad \in SUBSET SUBSET W
    OBVIOUS
  <2> HIDE DEF Bad
  <2> QED BY ONLY <1>1, <2>1, IsFiniteSet(W), LeastSetExists
<1> DEFINE x == CHOOSE x \in T : TRUE
<1>3. CASE T = {}
  BY <1>2, <1>3 DEF Sums
<1>4. CASE T # {}
  <2>1. x \in T /\ T \ {x} \subseteq T /\ T \ {x} # T
    BY <1>4
  <2>2. g[T \ {x}] = h[T \ {x}]
    BY <1>2, <2>1
  <2>3. g[T] = f[x] + g[T \ {x}]
    BY <1>2, <1>4 DEF Sums
  <2>4. h[T] = f[x] + h[T \ {x}]
    BY <1>2, <1>4 DEF Sums
  <2> QED BY <1>2, <2>2, <2>3, <2>4
<1> QED BY <1>3, <1>4

LEMMA SumsExist ==
  ASSUME NEW f, NEW S, IsFiniteSet(S)
  PROVE  \E h : Sums(f, S, h)
<1> DEFINE Bad == {T \in SUBSET S : ~\E h : Sums(f, T, h)}
<1>1. SUFFICES ASSUME Bad # {} PROVE FALSE
  OBVIOUS
<1>2. PICK T \in Bad : \A U \in Bad : U \subseteq T => U = T
  <2>1. Bad \in SUBSET SUBSET S
    OBVIOUS
  <2> HIDE DEF Bad
  <2> QED BY ONLY <1>1, <2>1, IsFiniteSet(S), LeastSetExists
<1> DEFINE G(U) == CHOOSE h : Sums(f, U, h)
           Of(U, v) == IF U = {} THEN 0 ELSE LET x == CHOOSE x \in U : TRUE IN f[x] + v[U \ {x}]
           below == [U \in SUBSET T |-> IF U = T THEN 0 ELSE G(U)[U]]
           k == [U \in SUBSET T |-> IF U = T THEN Of(T, below) ELSE below[U]]
<1>3. \A U \in SUBSET T : U # T => Sums(f, U, G(U))
  BY <1>2
<1>4. ASSUME NEW U \in SUBSET T PROVE k[U] = Of(U, k)
  <2>0. T \in SUBSET S
    BY <1>2
  <2>1. CASE U = {}
    <3>1. CASE T = {}
      BY <2>1, <3>1
    <3>2. CASE T # {}
      <4>1. k[U] = G({})[{}]
        BY <2>1, <3>2
      <4>2. Sums(f, {}, G({}))
        BY <1>3, <3>2
      <4> HIDE DEF G
      <4> QED BY <2>1, <4>1, <4>2 DEF Sums
    <3> QED BY <3>1, <3>2
  <2>2. CASE U # {}
    <3> DEFINE x == CHOOSE x \in U : TRUE
               V == U \ {x}
    <3>1. x \in U
      BY <2>2
    <3>2. V \in SUBSET T /\ V # T /\ V \in SUBSET U /\ V # U
      BY <3>1
    <3> HIDE DEF G
    <3>3. k[V] = G(V)[V]
      BY <3>2
    <3>4. CASE U = T
      <4>1. k[U] = f[x] + below[V]
        BY <2>2, <3>4
      <4> QED BY <4>1, <2>2, <3>2
    <3>5. CASE U # T
      <4>1. k[U] = G(U)[U]
        BY <3>5
      <4>2. Sums(f, U, G(U)) /\ Sums(f, V, G(V))
        BY <1>3, <3>2, <3>5
      <4>3. G(U)[U] = f[x] + G(U)[V]
        BY <4>2, <2>2 DEF Sums
      <4>4. IsFiniteSet(V)
        BY <2>0, <3>2, FS_Subset
      <4>5. G(U)[V] = G(V)[V]
        <5> HIDE DEF V
        <5> QED BY <3>2, <4>2, <4>4, SumsAgree
      <4> QED BY <2>2, <3>3, <4>1, <4>3, <4>5
    <3> QED BY <3>4, <3>5
  <2> QED BY <2>1, <2>2
<1>5. k = [U \in SUBSET T |-> k[U]]
  OBVIOUS
<1>6. k = [U \in SUBSET T |-> Of(U, k)]
  <2> HIDE DEF k, Of
  <2> QED BY <1>4, <1>5
<1>7. Sums(f, T, k)
  <2> HIDE DEF k
  <2> QED BY <1>6 DEF Sums
<1> HIDE DEF k
<1> QED BY <1>2, <1>7

LEMMA SumIs ==
  ASSUME NEW f, NEW S, IsFiniteSet(S), NEW h, Sums(f, S, h), NEW T \in SUBSET S
  PROVE  SumFunctionOnSet(f, T) = h[T]
<1>1. SumFunctionOnSet(f, T) = (CHOOSE g : Sums(f, T, g))[T]
  BY DEF SumFunctionOnSet, FoldFunctionOnSet, MapThenFoldSet, Sums
<1>2. IsFiniteSet(T)
  BY FS_Subset
<1> QED BY <1>1, <1>2, SumsExist, SumsAgree

LEMMA SumOfNone ==
  ASSUME NEW f
  PROVE  SumFunctionOnSet(f, {}) = 0
<1>1. PICK h : Sums(f, {}, h)
  BY FS_EmptySet, SumsExist
<1>2. SumFunctionOnSet(f, {}) = h[{}]
  BY <1>1, FS_EmptySet, SumIs
<1> QED BY <1>1, <1>2 DEF Sums

\* Whatever element is taken out first, the sum is its number and the sum of the others.
LEMMA SumTakesOut ==
  ASSUME NEW S, IsFiniteSet(S), NEW f, \A x \in S : f[x] \in Int
  PROVE  /\ SumFunctionOnSet(f, S) \in Int
         /\ \A x \in S : SumFunctionOnSet(f, S) = f[x] + SumFunctionOnSet(f, S \ {x})
<1>1. PICK h : Sums(f, S, h)
  BY SumsExist
<1>2. \A T \in SUBSET S : SumFunctionOnSet(f, T) = h[T]
  BY <1>1, SumIs
<1>3. h[{}] = 0 /\ \A T \in SUBSET S : T # {} => \E y \in T : h[T] = f[y] + h[T \ {y}]
  BY <1>1 DEF Sums
<1> DEFINE Bad == {T \in SUBSET S : ~(h[T] \in Int /\ \A x \in T : h[T] = f[x] + h[T \ {x}])}
<1>4. SUFFICES ASSUME Bad # {} PROVE FALSE
  <2>1. CASE Bad = {}
    <3>1. S \in SUBSET S /\ h[S] \in Int /\ \A x \in S : h[S] = f[x] + h[S \ {x}]
      BY <2>1
    <3>2. \A x \in S : S \ {x} \in SUBSET S
      OBVIOUS
    <3> QED BY <1>2, <3>1, <3>2
  <2> QED BY <2>1
<1>5. PICK T \in Bad : \A U \in Bad : U \subseteq T => U = T
  <2>1. Bad \in SUBSET SUBSET S
    OBVIOUS
  <2> HIDE DEF Bad
  <2> QED BY ONLY <1>4, <2>1, IsFiniteSet(S), LeastSetExists
<1>6. ASSUME T = {} PROVE FALSE
  <2>1. h[T] = 0
    BY <1>3, <1>6
  <2> QED BY <1>5, <1>6, <2>1
<1>7. PICK y \in T : h[T] = f[y] + h[T \ {y}]
  BY <1>3, <1>5, <1>6
<1>8. \A U \in SUBSET T : U # T => h[U] \in Int /\ \A x \in U : h[U] = f[x] + h[U \ {x}]
  BY <1>5
<1>9. h[T \ {y}] \in Int /\ f[y] \in Int /\ h[T] \in Int
  BY <1>5, <1>7, <1>8
<1>10. PICK x \in T : h[T] # f[x] + h[T \ {x}]
  BY <1>5, <1>9
<1>11. x # y
  BY <1>7, <1>10
<1>12. h[T \ {y}] = f[x] + h[(T \ {y}) \ {x}]
  BY <1>8, <1>11
<1>13. h[T \ {x}] = f[y] + h[(T \ {x}) \ {y}]
  BY <1>8, <1>11
<1> DEFINE A == (T \ {y}) \ {x}
<1>14. A = (T \ {x}) \ {y} /\ h[A] \in Int /\ f[x] \in Int /\ f[y] \in Int
  BY <1>5, <1>8, <1>11
<1>15. h[T \ {y}] = f[x] + h[A] /\ h[T \ {x}] = f[y] + h[A]
  BY <1>12, <1>13, <1>14
<1> HIDE DEF A, Bad
<1> QED BY <1>7, <1>10, <1>14, <1>15

LEMMA SumAdds ==
  ASSUME NEW S, IsFiniteSet(S), NEW x, x \notin S, NEW f, \A y \in S \cup {x} : f[y] \in Int
  PROVE  SumFunctionOnSet(f, S \cup {x}) = f[x] + SumFunctionOnSet(f, S)
<1>1. (S \cup {x}) \ {x} = S /\ IsFiniteSet(S \cup {x})
  BY FS_AddElement
<1> QED BY <1>1, SumTakesOut

LEMMA SumOfEquals ==
  ASSUME NEW S, IsFiniteSet(S), NEW f, NEW g, \A x \in S : f[x] \in Int /\ f[x] = g[x]
  PROVE  SumFunctionOnSet(f, S) = SumFunctionOnSet(g, S)
<1> DEFINE Good == {T \in SUBSET S : SumFunctionOnSet(f, T) = SumFunctionOnSet(g, T)}
<1>1. {} \in Good
  BY SumOfNone
<1>2. ASSUME NEW T \in SUBSET S, NEW x \in S \ T, T \in Good PROVE T \cup {x} \in Good
  <2>1. IsFiniteSet(T)
    BY FS_Subset
  <2>2. \A y \in T \cup {x} : f[y] \in Int /\ g[y] \in Int
    OBVIOUS
  <2>3. SumFunctionOnSet(f, T \cup {x}) = f[x] + SumFunctionOnSet(f, T)
    BY <2>1, <2>2, SumAdds
  <2>4. SumFunctionOnSet(g, T \cup {x}) = g[x] + SumFunctionOnSet(g, T)
    BY <2>1, <2>2, SumAdds
  <2> QED BY <1>2, <2>3, <2>4
<1>3. S \in Good
  <2> HIDE DEF Good
  <2> QED BY <1>1, <1>2, FiniteSetInduction
<1> QED BY <1>3

LEMMA SumOfUnion ==
  ASSUME NEW S, NEW T, IsFiniteSet(S), IsFiniteSet(T), S \cap T = {},
         NEW f, \A x \in S \cup T : f[x] \in Int
  PROVE  SumFunctionOnSet(f, S \cup T) = SumFunctionOnSet(f, S) + SumFunctionOnSet(f, T)
<1> DEFINE Good == {U \in SUBSET T : SumFunctionOnSet(f, S \cup U) = SumFunctionOnSet(f, S) + SumFunctionOnSet(f, U)}
<1>1. {} \in Good
  <2>1. S \cup {} = S /\ SumFunctionOnSet(f, S) \in Int
    BY SumTakesOut
  <2> QED BY <2>1, SumOfNone
<1>2. ASSUME NEW U \in SUBSET T, NEW x \in T \ U, U \in Good PROVE U \cup {x} \in Good
  <2>1. IsFiniteSet(U) /\ IsFiniteSet(S \cup U) /\ x \notin S \cup U /\ S \cup (U \cup {x}) = (S \cup U) \cup {x}
    BY FS_Subset, FS_Union
  <2>2. \A y \in (S \cup U) \cup {x} : f[y] \in Int
    OBVIOUS
  <2>3. SumFunctionOnSet(f, (S \cup U) \cup {x}) = f[x] + SumFunctionOnSet(f, S \cup U)
    BY <2>1, <2>2, SumAdds
  <2>4. SumFunctionOnSet(f, U \cup {x}) = f[x] + SumFunctionOnSet(f, U)
    BY <2>1, <2>2, SumAdds
  <2>5. SumFunctionOnSet(f, S) \in Int /\ SumFunctionOnSet(f, U) \in Int /\ f[x] \in Int
    BY <2>1, <2>2, SumTakesOut
  <2>6. SumFunctionOnSet(f, S \cup U) = SumFunctionOnSet(f, S) + SumFunctionOnSet(f, U)
    BY <1>2
  <2>7. SumFunctionOnSet(f, S \cup (U \cup {x})) = SumFunctionOnSet(f, S) + SumFunctionOnSet(f, U \cup {x})
    <3>1. SumFunctionOnSet(f, S \cup (U \cup {x})) = SumFunctionOnSet(f, (S \cup U) \cup {x})
      BY <2>1
    <3> HIDE DEF Good
    <3> QED BY ONLY <3>1, <2>3, <2>4, <2>5, <2>6
  <2> QED BY <2>7
<1>3. T \in Good
  <2> HIDE DEF Good
  <2> QED BY <1>1, <1>2, FiniteSetInduction
<1> QED BY <1>3

\* Where each number is at most another and a margin, so are the sums.
LEMMA SumIsWithin ==
  ASSUME NEW S, IsFiniteSet(S), NEW f, NEW g, NEW k \in Int,
         \A x \in S : f[x] \in Int /\ g[x] \in Int /\ f[x] <= g[x] + k
  PROVE  SumFunctionOnSet(f, S) <= SumFunctionOnSet(g, S) + k * Cardinality(S)
<1> DEFINE Good == {T \in SUBSET S : SumFunctionOnSet(f, T) <= SumFunctionOnSet(g, T) + k * Cardinality(T)}
<1>1. {} \in Good
  BY SumOfNone, FS_EmptySet
<1>2. ASSUME NEW T \in SUBSET S, NEW x \in S \ T, T \in Good PROVE T \cup {x} \in Good
  <2>1. IsFiniteSet(T) /\ Cardinality(T) \in Nat /\ Cardinality(T \cup {x}) = Cardinality(T) + 1
    BY FS_Subset, FS_AddElement, FS_CardinalityType
  <2>2. \A y \in T \cup {x} : f[y] \in Int /\ g[y] \in Int
    OBVIOUS
  <2>3. SumFunctionOnSet(f, T \cup {x}) = f[x] + SumFunctionOnSet(f, T)
    BY <2>1, <2>2, SumAdds
  <2>4. SumFunctionOnSet(g, T \cup {x}) = g[x] + SumFunctionOnSet(g, T)
    BY <2>1, <2>2, SumAdds
  <2>5. SumFunctionOnSet(f, T) \in Int /\ SumFunctionOnSet(g, T) \in Int /\ f[x] <= g[x] + k
        /\ f[x] \in Int /\ g[x] \in Int
    BY <2>1, <2>2, SumTakesOut
  <2>6. SumFunctionOnSet(f, T) <= SumFunctionOnSet(g, T) + k * Cardinality(T)
    BY <1>2
  <2>8. k * Cardinality(T) \in Int /\ k * (Cardinality(T) + 1) = k * Cardinality(T) + k
    BY <2>1
  <2>7. SumFunctionOnSet(f, T \cup {x}) <= SumFunctionOnSet(g, T \cup {x}) + k * Cardinality(T \cup {x})
    <3> HIDE DEF Good
    <3> DEFINE m == k * Cardinality(T)
    <3>1. m \in Int /\ k * Cardinality(T \cup {x}) = m + k
      BY <2>1, <2>8
    <3>2. SumFunctionOnSet(f, T) <= SumFunctionOnSet(g, T) + m
      BY <2>6
    <3> HIDE DEF m
    <3> QED BY <2>3, <2>4, <2>5, <3>1, <3>2
  <2> QED BY <2>7
<1>3. S \in Good
  <2> HIDE DEF Good
  <2> QED BY <1>1, <1>2, FiniteSetInduction
<1> QED BY <1>3

LEMMA SumOfNaturals ==
  ASSUME NEW S, IsFiniteSet(S), NEW f, \A x \in S : f[x] \in Nat
  PROVE  /\ SumFunctionOnSet(f, S) \in Nat
         /\ \A T \in SUBSET S : SumFunctionOnSet(f, T) \in Nat /\ SumFunctionOnSet(f, T) <= SumFunctionOnSet(f, S)
<1> DEFINE zero == [x \in S |-> 0]
<1>1. ASSUME NEW T \in SUBSET S PROVE SumFunctionOnSet(f, T) \in Nat
  <2> DEFINE Good == {U \in SUBSET T : SumFunctionOnSet(f, U) \in Nat}
  <2>1. {} \in Good /\ IsFiniteSet(T)
    BY SumOfNone, FS_Subset
  <2>2. ASSUME NEW U \in SUBSET T, NEW x \in T \ U, U \in Good PROVE U \cup {x} \in Good
    <3>1. IsFiniteSet(U) /\ \A y \in U \cup {x} : f[y] \in Int
      BY FS_Subset
    <3>2. SumFunctionOnSet(f, U \cup {x}) = f[x] + SumFunctionOnSet(f, U)
      BY <3>1, SumAdds
    <3> QED BY <2>2, <3>2
  <2>3. T \in Good
    <3> HIDE DEF Good
    <3> QED BY <2>1, <2>2, FiniteSetInduction
  <2> QED BY <2>3
<1>2. ASSUME NEW T \in SUBSET S PROVE SumFunctionOnSet(f, T) <= SumFunctionOnSet(f, S)
  <2>1. IsFiniteSet(T) /\ IsFiniteSet(S \ T) /\ T \cap (S \ T) = {} /\ T \cup (S \ T) = S
    BY FS_Subset
  <2>2. SumFunctionOnSet(f, T \cup (S \ T)) = SumFunctionOnSet(f, T) + SumFunctionOnSet(f, S \ T)
    BY <2>1, SumOfUnion
  <2>3. SumFunctionOnSet(f, T) \in Nat /\ SumFunctionOnSet(f, S \ T) \in Nat
    BY <1>1, <2>1
  <2>4. SumFunctionOnSet(f, S) = SumFunctionOnSet(f, T \cup (S \ T))
    BY <2>1
  <2> QED BY ONLY <2>2, <2>3, <2>4
<1> QED BY <1>1, <1>2

-----------------------------------------------------------------------------
(***************************************************************************)
(* What is in flight. A push finds room in every queue, so what is in      *)
(* flight then is less than the room of all queues by one place in each;   *)
(* no other step adds to it.                                               *)
(***************************************************************************)

\* What takes up room at one queue when no worker dies: its inbox and its workers.
AtStage(p, t) == (JobsIn(p, t, "inbox") \X {t}) \cup Alive(p, t)

Room(p) == [s \in Stage |-> NumWorkers[p][s] + QueueSize[s]]

LEMMA StagesFinite == IsFiniteSet(Stage) /\ Cardinality(Stage) = NumStages /\ NumStages \in Nat
BY StagesAreNat, FS_Interval DEF Stage

LEMMA RoomIsNat ==
  ASSUME NEW p \in Pipeline, NEW t \in Stage
  PROVE  Room(p)[t] = NumWorkers[p][t] + QueueSize[t] /\ Room(p)[t] \in Int
BY QueueAssumption DEF Room

LEMMA OneMoreIsAtMost ==
  ASSUME NEW S, IsFiniteSet(S), NEW x
  PROVE  /\ IsFiniteSet(S \cup {x}) /\ Cardinality(S \cup {x}) \in Nat
         /\ Cardinality(S \cup {x}) <= Cardinality(S) + 1
<1>1. /\ IsFiniteSet(S \cup {x})
      /\ Cardinality(S \cup {x}) = IF x \in S THEN Cardinality(S) ELSE Cardinality(S) + 1
  BY FS_AddElement
<1>2. Cardinality(S) \in Nat /\ Cardinality(S \cup {x}) \in Nat
  BY <1>1, FS_CardinalityType
<1> QED BY <1>1, <1>2

LEMMA UnionIsAtMost ==
  ASSUME NEW A, NEW B, IsFiniteSet(A), IsFiniteSet(B)
  PROVE  /\ IsFiniteSet(A \cup B) /\ Cardinality(A \cup B) \in Nat
         /\ Cardinality(A \cup B) <= Cardinality(A) + Cardinality(B)
<1>1. Cardinality(A) \in Nat /\ Cardinality(B) \in Nat /\ Cardinality(A \cap B) \in Nat
  BY FS_CardinalityType, FS_Subset
<1>2. IsFiniteSet(A \cup B) /\ Cardinality(A \cup B) = Cardinality(A) + Cardinality(B) - Cardinality(A \cap B)
  BY FS_Union
<1> QED BY <1>1, <1>2, FS_CardinalityType

\* A queue with free space has less than it has room for.
LEMMA StageHasRoom ==
  ASSUME TypeOK, AliveAreListed, NEW p \in Pipeline, NEW t \in Stage, HasFreeSpace(p, t)
  PROVE  /\ IsFiniteSet(AtStage(p, t))
         /\ Cardinality(AtStage(p, t)) \in Nat /\ Cardinality(AtStage(p, t)) <= Room(p)[t] - 1
<1> DEFINE J == JobsIn(p, t, "inbox")
           A == Alive(p, t)
<1>1. {w \in listed \cap WorkersOf(p, t) : is_alive(w)} = A
  BY DEF AliveAreListed, Alive, WorkersOf
<1>2. NumWorkers[p][t] - Cardinality(A) + QueueSize[t] - Cardinality(J) > 0
  BY <1>1 DEF HasFreeSpace, NumFreeWorkers
<1>3. J \in SUBSET Job /\ A \in SUBSET Worker
  BY DEF JobsIn, Alive, WorkersOf
<1> HIDE DEF J, A
<1>4. /\ IsFiniteSet(J \X {t}) /\ Cardinality(J \X {t}) <= Cardinality(J) /\ Cardinality(J) \in Nat
      /\ Cardinality(J \X {t}) \in Nat
  BY <1>3, WorkersOfJobs, FS_CardinalityType
<1>5. IsFiniteSet(A) /\ Cardinality(A) \in Nat
  BY <1>3, WorkersFinite
<1>6. /\ IsFiniteSet((J \X {t}) \cup A) /\ Cardinality((J \X {t}) \cup A) \in Nat
      /\ Cardinality((J \X {t}) \cup A) <= Cardinality(J \X {t}) + Cardinality(A)
  BY <1>4, <1>5, UnionIsAtMost
<1>7. NumWorkers[p][t] \in Nat /\ QueueSize[t] \in Nat
  BY QueueAssumption
<1>8. AtStage(p, t) = (J \X {t}) \cup A
  BY DEF AtStage, J, A
<1> DEFINE n == Cardinality((J \X {t}) \cup A)
<1>9. n <= NumWorkers[p][t] + QueueSize[t] - 1
  BY <1>2, <1>4, <1>5, <1>6, <1>7
<1>10. /\ IsFiniteSet(AtStage(p, t)) /\ Cardinality(AtStage(p, t)) \in Nat
       /\ Cardinality(AtStage(p, t)) = n
  BY <1>6, <1>8
<1> HIDE DEF n
<1>11. Room(p)[t] = NumWorkers[p][t] + QueueSize[t]
  BY RoomIsNat
<1> QED BY ONLY <1>7, <1>9, <1>10, <1>11

\* The stages together: their room added up, less one place for each.
LEMMA StagesHaveRoom ==
  ASSUME TypeOK, AliveAreListed, NEW p \in Pipeline, \A t \in Stage : HasFreeSpace(p, t)
  PROVE  LET U == UNION {AtStage(p, t) : t \in Stage}
         IN  IsFiniteSet(U) /\ Cardinality(U) \in Nat /\ Cardinality(U) <= Capacity(p) - NumStages
<1> DEFINE U(S) == UNION {AtStage(p, t) : t \in S}
           Within(S) == /\ IsFiniteSet(U(S)) /\ Cardinality(U(S)) \in Nat
                        /\ Cardinality(U(S)) <= SumFunctionOnSet(Room(p), S) - Cardinality(S)
           Good == {S \in SUBSET Stage : Within(S)}
<1>1. {} \in Good
  <2>1. U({}) = {}
    OBVIOUS
  <2>2. Within({})
    BY <2>1, FS_EmptySet, SumOfNone
  <2> QED BY <2>2
<1>2. ASSUME NEW S \in SUBSET Stage, NEW t \in Stage \ S, S \in Good PROVE S \cup {t} \in Good
  <2>1. Within(S)
    BY <1>2
  <2>2. U(S \cup {t}) = U(S) \cup AtStage(p, t)
    OBVIOUS
  <2>3. /\ IsFiniteSet(AtStage(p, t)) /\ Cardinality(AtStage(p, t)) \in Nat
        /\ Cardinality(AtStage(p, t)) <= Room(p)[t] - 1
    BY StageHasRoom
  <2>4. /\ IsFiniteSet(U(S) \cup AtStage(p, t)) /\ Cardinality(U(S) \cup AtStage(p, t)) \in Nat
        /\ Cardinality(U(S) \cup AtStage(p, t)) <= Cardinality(U(S)) + Cardinality(AtStage(p, t))
    <3> HIDE DEF U
    <3> QED BY <2>1, <2>3, UnionIsAtMost
  <2>5. /\ IsFiniteSet(S) /\ Cardinality(S) \in Nat /\ Cardinality(S \cup {t}) = Cardinality(S) + 1
    BY StagesFinite, FS_Subset, FS_AddElement, FS_CardinalityType
  <2>6. \A s \in S \cup {t} : Room(p)[s] \in Int
    BY RoomIsNat
  <2>7. SumFunctionOnSet(Room(p), S \cup {t}) = Room(p)[t] + SumFunctionOnSet(Room(p), S)
    BY <2>5, <2>6, SumAdds
  <2>8. SumFunctionOnSet(Room(p), S) \in Int /\ Room(p)[t] \in Int
    BY <2>5, <2>6, SumTakesOut
  <2>9. Within(S \cup {t})
    <3>1. Cardinality(U(S)) \in Nat /\ Cardinality(U(S)) <= SumFunctionOnSet(Room(p), S) - Cardinality(S)
      BY <2>1
    <3> HIDE DEF U
    <3>2. Cardinality(U(S) \cup AtStage(p, t)) <= SumFunctionOnSet(Room(p), S \cup {t}) - Cardinality(S \cup {t})
      BY <2>3, <2>4, <2>5, <2>7, <2>8, <3>1
    <3> QED BY <2>2, <2>4, <3>2
  <2> HIDE DEF Within
  <2> QED BY <2>9
<1>3. Stage \in Good
  <2> HIDE DEF Good
  <2> QED BY <1>1, <1>2, StagesFinite, FiniteSetInduction
<1>4. Capacity(p) = SumFunctionOnSet(Room(p), Stage)
  BY DEF Capacity, Room, FoldFunction, SumFunctionOnSet
<1> QED BY <1>3, <1>4, StagesFinite

LEMMA InFlightAtStages ==
  ASSUME TypeOK, Phases, MayVanish = {}, NEW p \in Pipeline
  PROVE  InFlight(p) \subseteq UNION {AtStage(p, t) : t \in Stage}
<1> SUFFICES ASSUME NEW w \in InFlight(p) PROVE \E t \in Stage : w \in AtStage(p, t)
  OBVIOUS
<1>1. w \in Worker
  BY DEF InFlight, Alive, WorkersOf
<1>2. w[1] \in Job /\ w[2] \in Stage /\ w = <<w[1], w[2]>> /\ NumStages \in Stage
  BY <1>1, WorkerIsPair, QueueAssumption DEF Stage
<1>3. CASE w \in Alive(p, NumStages)
  BY <1>2, <1>3 DEF AtStage
<1>4. CASE w \notin Alive(p, NumStages)
  <2>1. PipelineOf[w[1]] = p /\ stage[w[1]] = w[2] /\ dir[w[1]] \in {"inbox", "inprogress"}
    BY <1>4 DEF InFlight
  <2>2. CASE dir[w[1]] = "inbox"
    BY <1>2, <2>1, <2>2 DEF AtStage, JobsIn
  <2>3. CASE dir[w[1]] = "inprogress"
    <3>1. Fits(dir[w[1]], w, worker[w])
      BY <1>2, <2>1 DEF Phases, PhaseFits
    <3>2. worker[w] \in Owning
      BY <2>3, <3>1 DEF Fits
    <3> QED BY <1>1, <1>2, <2>1, <3>2 DEF AtStage, Alive, WorkersOf, is_alive, Owning
  <2> QED BY <2>1, <2>2, <2>3
<1> QED BY <1>3, <1>4

LEMMA InFlightFinite ==
  ASSUME NEW p \in Pipeline
  PROVE  /\ InFlight(p) \in SUBSET Worker /\ IsFiniteSet(InFlight(p)) /\ Cardinality(InFlight(p)) \in Nat
         /\ InFlight(p)' \in SUBSET Worker /\ IsFiniteSet(InFlight(p)') /\ Cardinality(InFlight(p)') \in Nat
<1>1. InFlight(p) \in SUBSET Worker /\ InFlight(p)' \in SUBSET Worker
  BY DEF InFlight, Alive, WorkersOf
<1> QED BY <1>1, WorkersFinite

LEMMA CapacityIsInt ==
  ASSUME NEW p \in Pipeline
  PROVE  Capacity(p) \in Int /\ Capacity(p)' = Capacity(p)
<1>1. \A t \in Stage : Room(p)[t] \in Int
  BY RoomIsNat
<1>2. Capacity(p) = SumFunctionOnSet(Room(p), Stage)
  BY DEF Capacity, Room, FoldFunction, SumFunctionOnSet
<1>3. Capacity(p)' = Capacity(p)
  BY DEF Capacity, FoldFunction, FoldFunctionOnSet, MapThenFoldSet
<1>4. SumFunctionOnSet(Room(p), Stage) \in Int
  BY <1>1, StagesFinite, SumTakesOut
<1> QED BY <1>2, <1>3, <1>4

\* A push finds room for one more.
LEMMA PushHasRoom ==
  ASSUME TypeOK, Phases, AliveAreListed, MayVanish = {}, NEW p \in Pipeline, NEW k \in Job, Push(p, k)
  PROVE  Cardinality(InFlight(p)') <= Capacity(p) - NumStages + 1
<1>1. \A t \in Stage : HasFreeSpace(p, t)
  BY StagesAreNat DEF Push, Full, Stage
<1> DEFINE U == UNION {AtStage(p, t) : t \in Stage}
<1>2. IsFiniteSet(U) /\ Cardinality(U) \in Nat /\ Cardinality(U) <= Capacity(p) - NumStages
  BY <1>1, StagesHaveRoom
<1>3. InFlight(p) \subseteq U
  BY InFlightAtStages
<1> HIDE DEF U
<1>4. Cardinality(InFlight(p)) <= Capacity(p) - NumStages
  BY <1>2, <1>3, FS_Subset, InFlightFinite, CapacityIsInt, StagesFinite
<1>5. InFlight(p)' \subseteq InFlight(p) \cup {<<k, 1>>}
  <2> SUFFICES ASSUME NEW w \in InFlight(p)', w \notin InFlight(p) PROVE w = <<k, 1>>
    OBVIOUS
  <2>1. w \in Worker /\ w = <<w[1], w[2]>> /\ w[1] \in Job
    BY InFlightFinite, WorkerIsPair
  <2>2. Alive(p, NumStages)' = Alive(p, NumStages)
    BY DEF Push, Alive, WorkersOf, is_alive
  <2>3. stage'[w[1]] = w[2] /\ dir'[w[1]] \in {"inbox", "inprogress"} /\ PipelineOf[w[1]] = p
    BY <2>2 DEF InFlight
  <2>4. CASE w[1] = k
    BY <2>1, <2>3, <2>4 DEF Push, TypeOK
  <2>5. CASE w[1] # k
    BY <2>1, <2>3, <2>5 DEF Push, TypeOK, InFlight
  <2> QED BY <2>4, <2>5
<1>6. IsFiniteSet(InFlight(p) \cup {<<k, 1>>}) /\ Cardinality(InFlight(p) \cup {<<k, 1>>}) <= Cardinality(InFlight(p)) + 1
      /\ Cardinality(InFlight(p) \cup {<<k, 1>>}) \in Nat
  BY InFlightFinite, OneMoreIsAtMost
<1>7. Cardinality(InFlight(p)') <= Cardinality(InFlight(p) \cup {<<k, 1>>})
  BY <1>5, <1>6, FS_Subset
<1> QED BY <1>4, <1>6, <1>7, InFlightFinite, CapacityIsInt, StagesFinite

\* What else happens adds nothing: a job that moves on leaves the room it had.
LEMMA MoveKeepsRoom ==
  ASSUME TypeOK, Phases, NEW w \in Worker, MoveToOutbox(w), NEW p \in Pipeline
  PROVE  /\ Cardinality(InFlight(p)') <= Cardinality(InFlight(p))
         /\ InFlight(p)' # {} => InFlight(p) # {}
<1>1. w[1] \in Job /\ w[2] \in Stage /\ w = <<w[1], w[2]>> /\ w[2] \in Nat /\ NumStages \in Nat
  BY WorkerIsPair, StagesAreNat
<1>2. stage[w[1]] = w[2] /\ dir[w[1]] = "inprogress" /\ worker[w] = "reported"
  BY Located DEF MoveToOutbox, Becomes, Owning
<1>3. /\ \A j \in Job \ {w[1]} : stage'[j] = stage[j] /\ dir'[j] = dir[j]
      /\ stage'[w[1]] = IF w[2] = NumStages THEN w[2] ELSE w[2] + 1
      /\ dir'[w[1]] = IF w[2] = NumStages THEN "outbox" ELSE "inbox"
  BY <1>1, <1>2 DEF MoveToOutbox, TypeOK
<1>4. Alive(p, NumStages)' \subseteq Alive(p, NumStages)
  BY <1>2 DEF MoveToOutbox, Becomes, Alive, WorkersOf, is_alive, TypeOK
<1> DEFINE on == <<w[1], w[2] + 1>>
<1>5. ASSUME NEW v \in InFlight(p)', v \notin InFlight(p)
      PROVE  v = on /\ w \in InFlight(p) /\ w \notin InFlight(p)'
  <2>1. v \in Worker /\ v = <<v[1], v[2]>> /\ v[1] \in Job /\ v \notin Alive(p, NumStages)
    BY <1>5, InFlightFinite, WorkerIsPair DEF InFlight
  <2>2. stage'[v[1]] = v[2] /\ dir'[v[1]] \in {"inbox", "inprogress"} /\ PipelineOf[v[1]] = p
    BY <1>4, <2>1 DEF InFlight
  <2>3. ~(stage[v[1]] = v[2] /\ dir[v[1]] \in {"inbox", "inprogress"})
    BY <1>5, <2>1, <2>2 DEF InFlight
  <2>4. v[1] = w[1]
    BY <1>3, <2>1, <2>2, <2>3
  <2>5. w[2] # NumStages /\ v = on
    BY <1>3, <2>1, <2>2, <2>4
  <2>6. w \in InFlight(p)
    BY <1>1, <1>2, <2>2, <2>4 DEF InFlight
  <2>7. w \notin InFlight(p)'
    <3>1. stage'[w[1]] # w[2]
      BY <1>1, <1>3, <2>5
    <3>2. w \notin Alive(p, NumStages)
      BY <2>5 DEF Alive, WorkersOf
    <3> QED BY <1>4, <3>1, <3>2 DEF InFlight
  <2> QED BY <2>5, <2>6, <2>7
<1>6. CASE InFlight(p)' \subseteq InFlight(p)
  BY <1>6, InFlightFinite, FS_Subset
<1>7. CASE ~(InFlight(p)' \subseteq InFlight(p))
  <2>1. PICK v \in InFlight(p)' : v \notin InFlight(p)
    BY <1>7
  <2>2. w \in InFlight(p) /\ InFlight(p)' \subseteq (InFlight(p) \ {w}) \cup {on}
    BY <1>5, <2>1
  <2> DEFINE R == InFlight(p) \ {w}
  <2>3. IsFiniteSet(R) /\ Cardinality(R) = Cardinality(InFlight(p)) - 1 /\ Cardinality(R) \in Nat
    BY <2>2, InFlightFinite, FS_RemoveElement, FS_CardinalityType
  <2> HIDE DEF R, on
  <2>4. IsFiniteSet(R \cup {on}) /\ Cardinality(R \cup {on}) <= Cardinality(R) + 1 /\ Cardinality(R \cup {on}) \in Nat
    BY <2>3, OneMoreIsAtMost
  <2>5. Cardinality(InFlight(p)') <= Cardinality(R \cup {on})
    BY <2>2, <2>4, FS_Subset DEF R
  <2> QED BY <2>2, <2>3, <2>4, <2>5, InFlightFinite
<1> QED BY <1>6, <1>7

LEMMA OthersKeepRoom ==
  ASSUME TypeOK, Phases, NEW p \in Pipeline, [QueueNext]_queueVars,
         \A q \in Pipeline, j \in Job : ~Push(q, j), \A w \in Worker : ~MoveToOutbox(w)
  PROVE  InFlight(p)' \subseteq InFlight(p)
<1> SUFFICES ASSUME NEW v \in InFlight(p)' PROVE v \in InFlight(p)
  OBVIOUS
<1>1. v \in Worker /\ v = <<v[1], v[2]>> /\ v[1] \in Job /\ v[2] \in Stage
  BY InFlightFinite, WorkerIsPair
<1>2. \/ v \in Alive(p, NumStages)'
      \/ stage'[v[1]] = v[2] /\ dir'[v[1]] \in {"inbox", "inprogress"} /\ PipelineOf[v[1]] = p
  BY DEF InFlight
<1>3. ASSUME UNCHANGED <<stage, dir, worker>> PROVE v \in InFlight(p)
  BY <1>3 DEF InFlight, Alive, WorkersOf, is_alive
<1>4. ASSUME NEW q \in Pipeline, NEW S \in SUBSET Job, TickStage(q, S) PROVE v \in InFlight(p)
  <2>1. stage' = stage /\ dir' = [j \in Job |-> IF j \in S THEN "inprogress" ELSE dir[j]]
    BY <1>4 DEF TickStage, StartJobs
  <2>5. \A j \in S : stage[j] = call[q] /\ dir[j] = "inbox" /\ PipelineOf[j] = q
    BY <1>4, StartedWereQueued
  <2>2. worker' = [w \in Worker |-> IF w[1] \in S /\ w[2] = call[q] THEN "running" ELSE worker[w]]
    BY <1>4 DEF TickStage, StartJobs
  <2>3. CASE v \in Alive(p, NumStages)'
    <3>1. CASE v[1] \in S /\ v[2] = call[q]
      BY <1>1, <2>5, <2>3, <3>1 DEF InFlight, Alive, WorkersOf
    <3>2. CASE ~(v[1] \in S /\ v[2] = call[q])
      <4>1. worker'[v] = worker[v]
        BY <1>1, <2>2, <3>2
      <4> QED BY <2>3, <4>1 DEF InFlight, Alive, WorkersOf, is_alive
    <3> QED BY <3>1, <3>2
  <2>4. CASE stage'[v[1]] = v[2] /\ dir'[v[1]] \in {"inbox", "inprogress"} /\ PipelineOf[v[1]] = p
    BY <1>1, <2>1, <2>4, <2>5 DEF InFlight
  <2> QED BY <1>2, <2>3, <2>4
<1>5. ASSUME NEW w \in Worker, WorkerStep(w), ~MoveToOutbox(w) PROVE v \in InFlight(p)
  <2>1. is_alive(w) /\ \A u \in Worker : u # w => worker'[u] = worker[u]
    BY <1>5, OnlyTheLivingChange
  <2>2. stage' = stage /\ \A j \in Job : dir'[j] \in {"inbox", "inprogress"} => dir'[j] = dir[j]
    BY <1>5 DEF WorkerStep, Runs, TaskReturns, TaskRaises, ReportSuccess, MoveToFailures, ReportError, Exit,
                Vanish, TypeOK
  <2>3. v \in Alive(p, NumStages)' => v \in Alive(p, NumStages)
    BY <2>1 DEF Alive, WorkersOf, is_alive
  <2> QED BY <1>1, <1>2, <2>2, <2>3 DEF InFlight
<1> QED BY <1>3, <1>4, <1>5
        DEF QueueNext, ControllerStep, CallTick, AcquireLock, ReleaseLock, Drain, queueVars

\* Between the queues and the workers of a pipeline there are never more jobs than
\* there is room for, less the places the last push left free.
THEOREM InFlightIsBounded == QueueSpec => []InFlightBound
<1>1. QueueInit => InFlightBound
  <2> SUFFICES ASSUME QueueInit, NEW p \in Pipeline PROVE InFlight(p) = {}
    BY DEF InFlightBound
  <2>1. \A w \in Worker : worker[w] = "none" /\ w[1] \in Job
    BY WorkerIsPair DEF QueueInit
  <2>2. \A j \in Job : dir[j] = "none"
    BY DEF QueueInit
  <2> QED BY <2>1, <2>2 DEF InFlight, Alive, WorkersOf, is_alive
<1>2. TypeOK /\ Phases /\ AliveAreListed /\ InFlightBound /\ [QueueNext]_queueVars => InFlightBound'
  <2> SUFFICES ASSUME TypeOK, Phases, AliveAreListed, InFlightBound, [QueueNext]_queueVars,
                      MayVanish = {}, NEW p \in Pipeline, InFlight(p)' # {}
               PROVE  Cardinality(InFlight(p)') <= Capacity(p) - NumStages + 1
    BY CapacityIsInt DEF InFlightBound
  <2>1. ASSUME Cardinality(InFlight(p)') <= Cardinality(InFlight(p)), InFlight(p) # {}
        PROVE  Cardinality(InFlight(p)') <= Capacity(p) - NumStages + 1
    <3>1. Cardinality(InFlight(p)) <= Capacity(p) - NumStages + 1
      BY <2>1 DEF InFlightBound
    <3> QED BY <2>1, <3>1, InFlightFinite, CapacityIsInt, StagesFinite
  <2>2. ASSUME InFlight(p)' \subseteq InFlight(p)
        PROVE  Cardinality(InFlight(p)') <= Capacity(p) - NumStages + 1
    <3>1. Cardinality(InFlight(p)') <= Cardinality(InFlight(p)) /\ InFlight(p) # {}
      BY <2>2, InFlightFinite, FS_Subset
    <3> QED BY <2>1, <3>1
  <2>3. ASSUME NEW q \in Pipeline, NEW k \in Job, Push(q, k)
        PROVE  Cardinality(InFlight(p)') <= Capacity(p) - NumStages + 1
    <3>1. CASE q = p
      BY <2>3, <3>1, PushHasRoom
    <3>2. CASE q # p
      <4>1. InFlight(p)' \subseteq InFlight(p)
        <5> SUFFICES ASSUME NEW v \in InFlight(p)' PROVE v \in InFlight(p)
          OBVIOUS
        <5>1. v \in Worker /\ v[1] \in Job
          BY InFlightFinite, WorkerIsPair
        <5>2. PipelineOf[v[1]] = p
          BY DEF InFlight, Alive, WorkersOf
        <5>3. v[1] # k /\ worker' = worker
          BY <2>3, <3>2, <5>2 DEF Push
        <5>4. stage'[v[1]] = stage[v[1]] /\ dir'[v[1]] = dir[v[1]]
          BY <2>3, <5>1, <5>3 DEF Push, TypeOK
        <5> QED BY <5>1, <5>2, <5>3, <5>4 DEF InFlight, Alive, WorkersOf, is_alive
      <4> QED BY <2>2, <4>1
    <3> QED BY <3>1, <3>2
  <2>4. ASSUME NEW w \in Worker, MoveToOutbox(w)
        PROVE  Cardinality(InFlight(p)') <= Capacity(p) - NumStages + 1
    BY <2>1, <2>4, MoveKeepsRoom
  <2>5. ASSUME \A q \in Pipeline, j \in Job : ~Push(q, j), \A w \in Worker : ~MoveToOutbox(w)
        PROVE  Cardinality(InFlight(p)') <= Capacity(p) - NumStages + 1
    BY <2>2, <2>5, OthersKeepRoom
  <2> QED BY <2>3, <2>4, <2>5
<1> QED BY <1>1, <1>2, TypeCorrect, PhasesHold, AliveListed, PTL DEF QueueSpec

-----------------------------------------------------------------------------
(* The reports.                                                            *)

Reported == results \cup collated

Said(w, status) == [worker |-> w, status |-> status] \in Reported

ReportsFit(j, s) ==
  /\ s < stage[j] => Said(<<j, s>>, "success")
  /\ s = stage[j] /\ (dir[j] = "outbox" \/ worker[<<j, s>>] = "reported")
       => Said(<<j, s>>, "success")
  /\ s = stage[j] /\ dir[j] = "failures" /\ worker[<<j, s>>] # "discarded"
       => Said(<<j, s>>, "error")

\* What the directory of a job and the phase of its worker tell, a reporting
\* stage has put on the results queue.
Reports == \A j \in Job, s \in Stage : s \in Reporting => ReportsFit(j, s)

LEMMA ReportsFrame ==
  ASSUME NEW j \in Job, NEW s \in Stage, ReportsFit(j, s),
         Reported \subseteq Reported', stage'[j] = stage[j], dir'[j] = dir[j],
         worker'[<<j, s>>] = worker[<<j, s>>]
  PROVE  ReportsFit(j, s)'
BY DEF ReportsFit, Said

\* A step of one worker that leaves its directory where it is.
LEMMA ReportsOfOne ==
  ASSUME TypeOK, Reports, NEW w \in Worker, UNCHANGED <<stage, dir>>,
         NEW to, worker' = [worker EXCEPT ![w] = to],
         Reported \subseteq Reported',
         w[2] \in Reporting /\ to = "reported" => Said(w, "success")',
         w[2] \in Reporting /\ worker[w] = "discarded" => Said(w, "error")'
  PROVE  Reports'
<1> SUFFICES ASSUME NEW j \in Job, NEW s \in Stage, s \in Reporting
             PROVE  ReportsFit(j, s)'
  BY DEF Reports
<1>1. <<j, s>> \in Worker /\ ReportsFit(j, s)
  BY DEF Worker, Reports
<1>2. CASE <<j, s>> = w
  <2>1. worker'[<<j, s>>] = to /\ s = w[2]
    BY <1>1, <1>2 DEF TypeOK
  <2>2. to = "reported" => Said(<<j, s>>, "success")'
    BY <1>2, <2>1
  <2>3. worker[<<j, s>>] = "discarded" => Said(<<j, s>>, "error")'
    BY <1>2, <2>1
  <2>4. ASSUME NEW status, Said(<<j, s>>, status) PROVE Said(<<j, s>>, status)'
    BY <2>4 DEF Said
  <2> QED BY <1>1, <2>1, <2>2, <2>3, <2>4 DEF ReportsFit
<1>3. CASE <<j, s>> # w
  <2>1. worker'[<<j, s>>] = worker[<<j, s>>]
    BY <1>1, <1>3 DEF TypeOK
  <2> QED BY <1>1, <2>1, ReportsFrame
<1> QED BY <1>2, <1>3

\* A step that only moves jobs, to where no report is due that was not made.
LEMMA ReportsOfMove ==
  ASSUME Reports, NEW K \in SUBSET Job,
         Reported \subseteq Reported',
         \A j \in Job \ K, s \in Stage :
            /\ stage'[j] = stage[j] /\ dir'[j] = dir[j]
            /\ worker'[<<j, s>>] = worker[<<j, s>>],
         \A j \in K, s \in Stage : s \in Reporting => ReportsFit(j, s)'
  PROVE  Reports'
<1> SUFFICES ASSUME NEW j \in Job, NEW s \in Stage, s \in Reporting
             PROVE  ReportsFit(j, s)'
  BY DEF Reports
<1>1. CASE j \in K
  BY <1>1
<1>2. CASE j \notin K
  BY <1>2, ReportsFrame DEF Reports
<1> QED BY <1>1, <1>2

LEMMA ReportsPush ==
  ASSUME TypeOK, Phases, Reports, NEW p \in Pipeline, NEW k \in Job, Push(p, k)
  PROVE  Reports'
<1>1. /\ stage[k] = 0 /\ stage'[k] = 1 /\ dir'[k] = "inbox" /\ worker' = worker
      /\ \A j \in Job \ {k} : stage'[j] = stage[j] /\ dir'[j] = dir[j]
      /\ Reported' = Reported
  BY DEF Push, TypeOK, Reported
<1>2. ASSUME NEW s \in Stage PROVE ReportsFit(k, s)'
  <2>1. s \in Nat \ {0}
    BY StagesAreNat
  <2>2. worker'[<<k, s>>] = "none"
    BY <1>1, <2>1 DEF Phases, PhaseFits
  <2> QED BY <1>1, <2>1, <2>2 DEF ReportsFit
<1> DEFINE K == {k}
<1>3. \A j \in K, s \in Stage : s \in Reporting => ReportsFit(j, s)'
  BY <1>2
<1>4. K \in SUBSET Job /\ \A j \in Job \ K, s \in Stage :
        /\ stage'[j] = stage[j] /\ dir'[j] = dir[j]
        /\ worker'[<<j, s>>] = worker[<<j, s>>]
  BY <1>1
<1>5. Reported \subseteq Reported'
  BY <1>1
<1> HIDE DEF K
<1> QED BY <1>3, <1>4, <1>5, ReportsOfMove

LEMMA ReportsTick ==
  ASSUME TypeOK, Phases, Reports, NEW p \in Pipeline, NEW S \in SUBSET Job,
         TickStage(p, S)
  PROVE  Reports'
<1> DEFINE t == call[p]
<1>1. t \in Stage /\ t \in Nat \ {0}
  BY StartedWereQueued, StagesAreNat
<1>2. ASSUME NEW j \in S PROVE stage[j] = t
  BY <1>2, StartedWereQueued
<1>3. /\ stage' = stage /\ Reported' = Reported
      /\ dir' = [j \in Job |-> IF j \in S THEN "inprogress" ELSE dir[j]]
  BY DEF TickStage, StartJobs, Reported
<1>4. worker' = [w \in Worker |->
                   IF w[1] \in S /\ w[2] = t THEN "running" ELSE worker[w]]
  BY DEF TickStage, StartJobs
<1> HIDE DEF t
<1>5. ASSUME NEW j \in Job \ S, NEW s \in Stage
      PROVE  /\ stage'[j] = stage[j] /\ dir'[j] = dir[j]
             /\ worker'[<<j, s>>] = worker[<<j, s>>]
  <2>1. <<j, s>> \in Worker
    BY DEF Worker
  <2> QED BY <1>3, <1>4, <2>1
<1>6. ASSUME NEW j \in S, NEW s \in Stage, s \in Reporting PROVE ReportsFit(j, s)'
  <2>1. <<j, s>> \in Worker /\ stage'[j] = t /\ dir'[j] = "inprogress"
    BY <1>2, <1>3 DEF Worker
  <2>2. s < t => Said(<<j, s>>, "success")
    BY <1>2, <1>6 DEF Reports, ReportsFit
  <2>3. s = t => worker'[<<j, s>>] = "running"
    BY <1>4, <2>1
  <2> QED BY <1>3, <2>1, <2>2, <2>3 DEF ReportsFit, Said
<1> QED BY <1>3, <1>5, <1>6, ReportsOfMove

LEMMA ReportsMoveToOutbox ==
  ASSUME TypeOK, Phases, Phases', Reports, NEW w \in Worker, MoveToOutbox(w)
  PROVE  Reports'
<1> DEFINE k == w[1]
           t == w[2]
<1>1. k \in Job /\ t \in Stage /\ w = <<k, t>> /\ t \in Nat \ {0}
  BY WorkerIsPair, StagesAreNat
<1>2. stage[k] = t /\ worker[w] = "reported"
  BY Located DEF MoveToOutbox, Becomes, Owning
<1>3. stage'[k] = NextStage(t)
  BY <1>1, <1>2 DEF MoveToOutbox, NextStage, TypeOK
<1>4. dir'[k] = IF t = NumStages THEN "outbox" ELSE "inbox"
  BY <1>1, <1>2 DEF MoveToOutbox, TypeOK
<1>5. \A j \in Job \ {k} : stage'[j] = stage[j] /\ dir'[j] = dir[j]
  BY DEF MoveToOutbox, TypeOK
<1>6. worker' = [worker EXCEPT ![w] = "exiting"] /\ Reported' = Reported
  BY DEF MoveToOutbox, Becomes, Reported
<1> HIDE DEF k, t
<1>7. ASSUME NEW j \in Job \ {k}, NEW s \in Stage
      PROVE  /\ stage'[j] = stage[j] /\ dir'[j] = dir[j]
             /\ worker'[<<j, s>>] = worker[<<j, s>>]
  <2>1. <<j, s>> \in Worker /\ <<j, s>> # w
    BY <1>1 DEF Worker
  <2> QED BY <1>5, <1>6, <2>1 DEF TypeOK
<1>8. ASSUME NEW s \in Stage, s \in Reporting PROVE ReportsFit(k, s)'
  <2>1. s \in Nat /\ s <= t => Said(<<k, s>>, "success")
    BY <1>1, <1>2, <1>8 DEF Reports, ReportsFit
  <2>2. s \in Nat /\ PhaseFits(k, s)'
    BY <1>1, StagesAreNat DEF Phases
  <2>3. CASE t = NumStages
    BY <1>1, <1>3, <1>4, <1>6, <2>1, <2>2, <2>3
    DEF ReportsFit, Said, NextStage
  <2>4. CASE t # NumStages
    <3>1. stage'[k] = t + 1 /\ dir'[k] = "inbox"
      BY <1>3, <1>4, <2>4 DEF NextStage
    <3>2. s = t + 1 => worker'[<<k, s>>] = "none"
      BY <2>2, <3>1 DEF PhaseFits, Fits
    <3> QED BY <1>1, <1>6, <2>1, <2>2, <3>1, <3>2 DEF ReportsFit, Said
  <2> QED BY <2>3, <2>4
<1> DEFINE K == {k}
<1>9. \A j \in K, s \in Stage : s \in Reporting => ReportsFit(j, s)'
  BY <1>8
<1>10. K \in SUBSET Job /\ \A j \in Job \ K, s \in Stage :
        /\ stage'[j] = stage[j] /\ dir'[j] = dir[j]
        /\ worker'[<<j, s>>] = worker[<<j, s>>]
  BY <1>1, <1>7
<1>11. Reported \subseteq Reported'
  BY <1>6
<1> HIDE DEF K
<1> QED BY <1>9, <1>10, <1>11, ReportsOfMove

LEMMA ReportsMoveToFailures ==
  ASSUME TypeOK, Phases, Reports, NEW w \in Worker, MoveToFailures(w)
  PROVE  Reports'
<1> DEFINE k == w[1]
           t == w[2]
<1>1. k \in Job /\ t \in Stage /\ w = <<k, t>>
  BY WorkerIsPair
<1>2. stage[k] = t
  BY Located DEF MoveToFailures, Becomes, Owning
<1>3. /\ stage' = stage /\ dir' = [dir EXCEPT ![k] = "failures"]
      /\ Reported' = Reported
  BY DEF MoveToFailures, Reported
<1>4. worker' = [worker EXCEPT ![w] = "discarded"]
  BY DEF MoveToFailures, Becomes
<1> HIDE DEF k, t
<1>5. ASSUME NEW j \in Job \ {k}, NEW s \in Stage
      PROVE  /\ stage'[j] = stage[j] /\ dir'[j] = dir[j]
             /\ worker'[<<j, s>>] = worker[<<j, s>>]
  <2>1. <<j, s>> \in Worker /\ <<j, s>> # w
    BY <1>1 DEF Worker
  <2> QED BY <1>3, <1>4, <2>1 DEF TypeOK
<1>6. ASSUME NEW s \in Stage, s \in Reporting PROVE ReportsFit(k, s)'
  <2>1. stage'[k] = t /\ dir'[k] = "failures"
    BY <1>1, <1>2, <1>3 DEF TypeOK
  <2>2. s = t => worker'[<<k, s>>] = "discarded"
    BY <1>1, <1>4 DEF TypeOK
  <2>3. s < t => Said(<<k, s>>, "success")
    BY <1>1, <1>2, <1>6 DEF Reports, ReportsFit
  <2> QED BY <1>3, <2>1, <2>2, <2>3 DEF ReportsFit, Said
<1> DEFINE K == {k}
<1>7. \A j \in K, s \in Stage : s \in Reporting => ReportsFit(j, s)'
  BY <1>6
<1>8. K \in SUBSET Job /\ \A j \in Job \ K, s \in Stage :
        /\ stage'[j] = stage[j] /\ dir'[j] = dir[j]
        /\ worker'[<<j, s>>] = worker[<<j, s>>]
  BY <1>1, <1>5
<1>9. Reported \subseteq Reported'
  BY <1>3
<1> HIDE DEF K
<1> QED BY <1>7, <1>8, <1>9, ReportsOfMove

\* Every report the directories and the phases of the workers call for is made,
\* and none is lost between the results queue and the controller's totals.
THEOREM ReportsHold == QueueSpec => []Reports
<1>1. QueueInit => Reports
  BY StagesAreNat DEF QueueInit, Reports, ReportsFit
<1>2. TypeOK /\ Phases /\ Phases' /\ Reports /\ [QueueNext]_queueVars => Reports'
  <2> SUFFICES ASSUME TypeOK, Phases, Phases', Reports, [QueueNext]_queueVars
               PROVE  Reports'
    OBVIOUS
  <2>1. ASSUME UNCHANGED <<stage, dir, worker>>, Reported \subseteq Reported'
        PROVE  Reports'
    BY <2>1 DEF Reports, ReportsFit, Said
  <2>2. ASSUME NEW p \in Pipeline, NEW j \in Job, Push(p, j) PROVE Reports'
    BY <2>2, ReportsPush
  <2>3. ASSUME NEW p \in Pipeline, NEW S \in SUBSET Job, TickStage(p, S)
        PROVE  Reports'
    BY <2>3, ReportsTick
  <2>4. ASSUME NEW p \in Pipeline, CallTick(p) \/ AcquireLock(p) \/ ReleaseLock(p)
        PROVE  Reports'
    BY <2>1, <2>4 DEF CallTick, AcquireLock, ReleaseLock, Reported
  <2>5. CASE Drain \/ UNCHANGED queueVars
    BY <2>1, <2>5 DEF Drain, queueVars, Reported
  <2>6. ASSUME NEW w \in Worker,
               TaskReturns(w) \/ TaskRaises(w) \/ Exit(w) \/ Vanish(w)
        PROVE  Reports'
    <3>1. UNCHANGED <<stage, dir>> /\ Reported' = Reported /\ worker[w] # "discarded"
      BY <2>6 DEF TaskReturns, TaskRaises, Exit, Vanish, Becomes, Reported
    <3>2. \E to \in {"succeeded", "raised", "dead"} : worker' = [worker EXCEPT ![w] = to]
      BY <2>6 DEF TaskReturns, TaskRaises, Exit, Vanish, Becomes
    <3> QED BY <3>1, <3>2, ReportsOfOne
  <2>7. ASSUME NEW w \in Worker, ReportSuccess(w) PROVE Reports'
    <3>1. /\ UNCHANGED <<stage, dir>> /\ worker[w] # "discarded"
          /\ worker' = [worker EXCEPT ![w] = "reported"]
      BY <2>7 DEF ReportSuccess, Becomes
    <3>2. /\ Reported \subseteq Reported'
          /\ w[2] \in Reporting => Said(w, "success")'
      BY <2>7 DEF ReportSuccess, Put, Reported, Said
    <3> QED BY <3>1, <3>2, ReportsOfOne
  <2>8. ASSUME NEW w \in Worker, ReportError(w) PROVE Reports'
    <3>1. UNCHANGED <<stage, dir>> /\ worker' = [worker EXCEPT ![w] = "exiting"]
      BY <2>8 DEF ReportError, Becomes
    <3>2. /\ Reported \subseteq Reported'
          /\ w[2] \in Reporting => Said(w, "error")'
      BY <2>8 DEF ReportError, Put, Reported, Said
    <3> QED BY <3>1, <3>2, ReportsOfOne
  <2>9. ASSUME NEW w \in Worker, MoveToOutbox(w) \/ MoveToFailures(w)
        PROVE  Reports'
    BY <2>9, ReportsMoveToOutbox, ReportsMoveToFailures
  <2> QED
    BY <2>2, <2>3, <2>4, <2>5, <2>6, <2>7, <2>8, <2>9
    DEF QueueNext, ControllerStep, WorkerStep, Runs
<1> QED BY <1>1, <1>2, TypeCorrect, PhasesHold, PTL DEF QueueSpec

\* When the lists and directories of a pipeline are empty, every job pushed onto
\* it has gone through all its stages or failed at one, and every report that a
\* reporting stage owes has been made: what check_finished relies on.
THEOREM QuietSettles == QueueSpec => []QuietIsSettled
<1>1. TypeOK /\ Phases /\ AliveAreListed /\ Reports => QuietIsSettled
  <2> SUFFICES ASSUME TypeOK, Phases, AliveAreListed, Reports,
                      NEW p \in Pipeline, Quiet(p),
                      NEW j \in Job, PipelineOf[j] = p, stage[j] # 0
               PROVE  /\ dir[j] = "failures" \/ (dir[j] = "outbox" /\ stage[j] = NumStages)
                      /\ \A s \in Reporting \cap 1..stage[j] :
                           ReportOf(<<j, s>>) \in results \cup collated
    BY DEF QuietIsSettled
  <2>1. dir[j] \in {"outbox", "failures"}
    BY DEF Quiet, TypeOK, Dir, Phases, DirFits
  <2>2. dir[j] = "outbox" => stage[j] = NumStages
    BY DEF Phases, DirFits
  <2>3. ASSUME NEW s \in Reporting \cap 1..stage[j]
        PROVE  ReportOf(<<j, s>>) \in results \cup collated
    <3>1. s \in Stage /\ s \in Nat /\ <<j, s>> \in Worker
      BY QueueAssumption DEF Worker, Stage
    <3>2. ReportsFit(j, s)
      BY <3>1 DEF Reports
    <3>3. <<j, s>> \notin listed
      BY DEF Quiet
    <3>4. ~is_alive(<<j, s>>)
      BY <3>1, <3>3 DEF AliveAreListed
    <3>5. stage[j] \in Nat /\ s <= stage[j]
      BY <3>1, StagesAreNat DEF TypeOK
    <3>6. CASE s < stage[j]
      <4>1. Said(<<j, s>>, "success")
        BY <3>2, <3>6 DEF ReportsFit
      <4>2. s # stage[j]
        BY <3>1, <3>5, <3>6
      <4> QED BY <4>1, <4>2 DEF ReportOf, Said, Reported
    <3>7. CASE s = stage[j] /\ dir[j] = "outbox"
      <4>1. Said(<<j, s>>, "success")
        BY <3>2, <3>7 DEF ReportsFit
      <4> QED BY <3>7, <4>1 DEF ReportOf, Said, Reported
    <3>8. CASE s = stage[j] /\ dir[j] = "failures"
      <4>1. worker[<<j, s>>] # "discarded"
        BY <3>4 DEF is_alive
      <4>2. Said(<<j, s>>, "error")
        BY <3>2, <3>8, <4>1 DEF ReportsFit
      <4> QED BY <3>8, <4>2 DEF ReportOf, Said, Reported
    <3>9. s < stage[j] \/ s = stage[j]
      BY <3>1, <3>5
    <3> QED BY <2>1, <3>6, <3>7, <3>8, <3>9
  <2> QED BY <2>1, <2>2, <2>3
<1> QED BY <1>1, TypeCorrect, PhasesHold, AliveListed, ReportsHold, PTL

-----------------------------------------------------------------------------
(***************************************************************************)
(* The queues, with their directories, worker lists and locks, implement   *)
(* the abstract flow of jobs of JobFlow: every step of a worker or of the  *)
(* controller is a step of a job or none at all.                           *)
(***************************************************************************)

\* JobFlow counts as its instance does.
LEMMA SameCardinality ==
  ASSUME NEW S
  PROVE  Flow!Cardinality(S) = Cardinality(S)
BY DEF Flow!Cardinality, Cardinality, Flow!IsFiniteSet, IsFiniteSet

\* What a step leaves alone has the phase it had.
LEMMA PhaseOfFrame ==
  ASSUME NEW j \in Job, stage'[j] = stage[j], dir'[j] = dir[j],
         dir[j] = "inprogress" =>
           (worker'[<<j, stage[j]>>] = "dead" <=> worker[<<j, stage[j]>>] = "dead")
  PROVE  PhaseOf(j)' = PhaseOf(j)
BY DEF PhaseOf

\* Of the names of directories.
LEMMA PhaseNames ==
  ASSUME NEW j \in Job
  PROVE  /\ dir[j] = "none" => PhaseOf(j) = "new"
         /\ dir[j] = "inbox" => PhaseOf(j) = "waiting"
         /\ dir[j] = "outbox" => PhaseOf(j) = "finished"
         /\ dir[j] = "failures" => PhaseOf(j) = "failed"
         /\ dir[j] = "inprogress" /\ worker[<<j, stage[j]>>] # "dead"
              => PhaseOf(j) = "running"
         /\ dir[j] = "inprogress" /\ worker[<<j, stage[j]>>] = "dead"
              => PhaseOf(j) = "stuck"
BY DEF PhaseOf

LEMMA PhaseNamesAfter ==
  ASSUME NEW j \in Job
  PROVE  /\ dir'[j] = "none" => PhaseOf(j)' = "new"
         /\ dir'[j] = "inbox" => PhaseOf(j)' = "waiting"
         /\ dir'[j] = "outbox" => PhaseOf(j)' = "finished"
         /\ dir'[j] = "failures" => PhaseOf(j)' = "failed"
         /\ dir'[j] = "inprogress" /\ worker'[<<j, stage'[j]>>] # "dead"
              => PhaseOf(j)' = "running"
         /\ dir'[j] = "inprogress" /\ worker'[<<j, stage'[j]>>] = "dead"
              => PhaseOf(j)' = "stuck"
BY DEF PhaseOf

LEMMA InitRefines == QueueInit => Flow!FlowInit
<1> SUFFICES ASSUME QueueInit PROVE Flow!FlowInit
  OBVIOUS
<1>1. \A j \in Job : PhaseOf(j) = "new"
  BY PhaseNames DEF QueueInit
<1> QED BY <1>1 DEF QueueInit, Flow!FlowInit

LEMMA PushRefines ==
  ASSUME TypeOK, NEW p \in Pipeline, NEW k \in Job, Push(p, k), Phases
  PROVE  Flow!Submit(k)
<1>1. dir[k] = "none" /\ dir'[k] = "inbox" /\ worker' = worker
      /\ stage' = [stage EXCEPT ![k] = 1]
  BY DEF Push, TypeOK, Phases, DirFits
<1>2. \A j \in Job \ {k} : dir'[j] = dir[j] /\ stage'[j] = stage[j]
  BY DEF Push, TypeOK
<1>3. PhaseOf(k) = "new" /\ PhaseOf(k)' = "waiting"
  BY <1>1, PhaseNames, PhaseNamesAfter
<1>4. \A j \in Job \ {k} : PhaseOf(j)' = PhaseOf(j)
  BY <1>1, <1>2, PhaseOfFrame
<1> QED BY <1>1, <1>3, <1>4 DEF Flow!Submit

\* tick() starts no more than there are workers for.
LEMMA TickRefines ==
  ASSUME TypeOK, Phases, WorkerBound', NEW p \in Pipeline, NEW S \in SUBSET Job,
         TickStage(p, S), NEW t \in Stage, t = call[p]
  PROVE  Flow!Start(p, t, S)
<1> DEFINE R == Flow!Running(p, t)
<1>1. t \in Stage
  OBVIOUS
<1>2. \A j \in S : PipelineOf[j] = p /\ stage[j] = t /\ dir[j] = "inbox"
  BY StartedWereQueued
<1>3. stage' = stage /\ dir' = [j \in Job |-> IF j \in S THEN "inprogress" ELSE dir[j]]
  BY DEF TickStage, StartJobs
<1>4. worker' = [w \in Worker |->
                   IF w[1] \in S /\ w[2] = t THEN "running" ELSE worker[w]]
  BY DEF TickStage, StartJobs
<1>5. \A j \in S : PhaseOf(j) = "waiting"
  BY <1>2, PhaseNames
<1>6. ASSUME NEW j \in S PROVE PhaseOf(j)' = "running"
  <2>1. worker'[<<j, t>>] = "running"
    BY <1>1, <1>4 DEF Worker
  <2> QED BY <1>2, <1>3, <2>1, PhaseNamesAfter
<1>7. ASSUME NEW j \in Job \ S PROVE PhaseOf(j)' = PhaseOf(j)
  <2>1. dir[j] = "inprogress" => <<j, stage[j]>> \in Worker
    BY StagesAreNat DEF Phases, DirFits, TypeOK, Worker, Stage
  <2>2. dir[j] = "inprogress" => worker'[<<j, stage[j]>>] = worker[<<j, stage[j]>>]
    BY <1>4, <2>1
  <2> QED BY <1>3, <2>2, PhaseOfFrame
<1>8. Cardinality(R \cup S) <= NumWorkers[p][t]
  <2> DEFINE X == R \cup S
             f == [j \in X |-> <<j, t>>]
  <2>1. ASSUME NEW j \in R
        PROVE  j \in Job /\ PipelineOf[j] = p /\ stage[j] = t /\ dir[j] = "inprogress"
               /\ worker[<<j, t>>] # "dead"
    <3>1. j \in Job /\ PipelineOf[j] = p /\ stage[j] = t /\ PhaseOf(j) = "running"
      BY DEF Flow!Running
    <3> QED BY <3>1, PhaseNames DEF TypeOK, Dir
  <2>2. ASSUME NEW j \in X PROVE <<j, t>> \in Alive(p, t)'
    <3>1. j \in Job /\ PipelineOf[j] = p /\ <<j, t>> \in Worker
      BY <1>1, <1>2, <2>1 DEF Worker
    <3>2. worker'[<<j, t>>] \notin {"none", "dead"}
      <4>1. CASE j \in S
        BY <1>4, <3>1, <4>1
      <4>2. CASE j \in R /\ j \notin S
        <5>1. worker'[<<j, t>>] = worker[<<j, t>>]
          BY <1>4, <3>1, <4>2
        <5>2. Fits(dir[j], <<j, t>>, worker[<<j, t>>])
          BY <1>1, <2>1, <3>1, <4>2 DEF Phases, PhaseFits
        <5> QED BY <2>1, <4>2, <5>1, <5>2 DEF Fits, Owning
      <4> QED BY <4>1, <4>2
    <3> QED BY <3>1, <3>2 DEF Alive, WorkersOf, is_alive
  <2>3. f \in Injection(X, Alive(p, t)')
    BY <2>2 DEF Injection, IsInjective
  <2>4. IsFiniteSet(Alive(p, t)') /\ Cardinality(Alive(p, t)') \in Nat
    <3>1. Alive(p, t)' \in SUBSET Worker
      BY DEF Alive, WorkersOf
    <3> QED BY <3>1, WorkersFinite
  <2> HIDE DEF f, X
  <2>5. IsFiniteSet(X) /\ Cardinality(X) <= Cardinality(Alive(p, t)')
    BY <2>3, <2>4, FS_Injection
  <2>6. Cardinality(Alive(p, t)') <= NumWorkers[p][t]
    BY <1>1 DEF WorkerBound
  <2>7. Cardinality(X) \in Nat /\ NumWorkers[p][t] \in Nat
    BY <1>1, <2>5, FS_CardinalityType, WorkersAreMany
  <2> QED BY <2>4, <2>5, <2>6, <2>7 DEF X
<1>9. [j \in Job |-> PhaseOf(j)']
        = [j \in Job |-> IF j \in S THEN "running" ELSE PhaseOf(j)]
  BY <1>6, <1>7
<1>10. \A j \in S : PipelineOf[j] = p /\ stage[j] = t
                    /\ [i \in Job |-> PhaseOf(i)][j] = "waiting"
  BY <1>2, <1>5
<1>11. [j \in Job |-> IF j \in S THEN "running" ELSE PhaseOf(j)]
         = [j \in Job |-> IF j \in S THEN "running" ELSE [i \in Job |-> PhaseOf(i)][j]]
  OBVIOUS
<1> QED BY <1>3, <1>8, <1>9, <1>10, <1>11, SameCardinality DEF Flow!Start

\* A worker that changes without leaving what it is in, dead or not.
LEMMA WorkerStutters ==
  ASSUME TypeOK, Phases, NEW w \in Worker, UNCHANGED <<stage, dir>>,
         NEW to, worker' = [worker EXCEPT ![w] = to],
         to = "dead" => dir[w[1]] # "inprogress" \/ stage[w[1]] # w[2],
         worker[w] # "dead"
  PROVE  UNCHANGED Flow!flowVars
<1>1. w = <<w[1], w[2]>> /\ w[1] \in Job /\ w[2] \in Stage
  BY WorkerIsPair
<1>2. ASSUME NEW j \in Job PROVE PhaseOf(j)' = PhaseOf(j)
  <2>1. CASE dir[j] = "inprogress"
    <3>1. <<j, stage[j]>> \in Worker
      BY <2>1, StagesAreNat DEF Phases, DirFits, TypeOK, Worker, Stage
    <3>2. CASE <<j, stage[j]>> = w
      <4>1. worker'[<<j, stage[j]>>] = to /\ w[1] = j /\ w[2] = stage[j]
        BY <3>1, <3>2 DEF TypeOK
      <4> QED BY <2>1, <3>2, <4>1, PhaseOfFrame
    <3>3. CASE <<j, stage[j]>> # w
      <4>1. worker'[<<j, stage[j]>>] = worker[<<j, stage[j]>>]
        BY <3>1, <3>3 DEF TypeOK
      <4> QED BY <4>1, PhaseOfFrame
    <3> QED BY <3>2, <3>3
  <2>2. CASE dir[j] # "inprogress"
    BY <2>2, PhaseOfFrame
  <2> QED BY <2>1, <2>2
<1>3. [j \in Job |-> PhaseOf(j)]' = [j \in Job |-> PhaseOf(j)]
  BY <1>2
<1> QED BY <1>3 DEF Flow!flowVars

\* A worker's step on the job whose directory it holds changes the phase of that
\* job only.
LEMMA OthersKeepPhase ==
  ASSUME TypeOK, NEW w \in Worker, NEW j \in Job, j # w[1],
         stage'[j] = stage[j], dir'[j] = dir[j], Phases,
         \A v \in Worker : v # w => worker'[v] = worker[v]
  PROVE  PhaseOf(j)' = PhaseOf(j)
<1>1. <<j, stage[j]>> # w
  OBVIOUS
<1>2. dir[j] = "inprogress" => <<j, stage[j]>> \in Worker
  BY StagesAreNat DEF Phases, DirFits, TypeOK, Worker, Stage
<1> QED BY <1>1, <1>2, PhaseOfFrame

LEMMA OutboxRefines ==
  ASSUME TypeOK, Phases, NEW w \in Worker, MoveToOutbox(w)
  PROVE  Flow!Complete(w[1])
<1> DEFINE phase == [j \in Job |-> PhaseOf(j)]
<1>1. w[1] \in Job /\ w[2] \in Stage /\ w = <<w[1], w[2]>> /\ w[2] \in Nat
      /\ NumStages \in Nat
  BY WorkerIsPair, StagesAreNat
<1>2. stage[w[1]] = w[2] /\ dir[w[1]] = "inprogress" /\ worker[w] = "reported"
  BY Located DEF MoveToOutbox, Becomes, Owning
<1>3. PhaseOf(w[1]) = "running"
  BY <1>1, <1>2, PhaseNames
<1>4. ASSUME NEW j \in Job \ {w[1]} PROVE PhaseOf(j)' = PhaseOf(j)
  <2>1. \A v \in Worker : v # w => worker'[v] = worker[v]
    BY DEF MoveToOutbox, Becomes, TypeOK
  <2>2. stage'[j] = stage[j] /\ dir'[j] = dir[j]
    BY DEF MoveToOutbox, TypeOK
  <2> QED BY <2>1, <2>2, OthersKeepPhase
<1>5. CASE stage[w[1]] = NumStages
  <2>1. dir'[w[1]] = "outbox"
    BY <1>1, <1>5 DEF MoveToOutbox, TypeOK
  <2>2. PhaseOf(w[1])' = "finished"
    BY <1>1, <2>1, PhaseNamesAfter
  <2>3. stage' = [stage EXCEPT ![w[1]] = NumStages]
    BY <1>5 DEF MoveToOutbox
  <2>4. stage' = stage
    BY <1>1, <1>5, <2>3 DEF TypeOK
  <2>5. phase' = [phase EXCEPT ![w[1]] = "finished"]
    BY <1>1, <1>4, <2>2
  <2> QED BY <1>1, <1>3, <1>5, <2>4, <2>5 DEF Flow!Complete
<1>6. CASE stage[w[1]] # NumStages
  <2>1. dir'[w[1]] = "inbox"
    BY <1>1, <1>6 DEF MoveToOutbox, TypeOK
  <2>2. PhaseOf(w[1])' = "waiting"
    BY <1>1, <2>1, PhaseNamesAfter
  <2>3. stage' = [stage EXCEPT ![w[1]] = stage[w[1]] + 1]
    BY <1>6 DEF MoveToOutbox
  <2>4. stage[w[1]] < NumStages
    BY <1>1, <1>2, <1>6 DEF TypeOK, Stage
  <2>5. phase' = [phase EXCEPT ![w[1]] = "waiting"]
    BY <1>1, <1>4, <2>2
  <2> QED BY <1>1, <1>3, <2>3, <2>4, <2>5 DEF Flow!Complete
<1> QED BY <1>5, <1>6

LEMMA FailuresRefines ==
  ASSUME TypeOK, Phases, NEW w \in Worker, MoveToFailures(w)
  PROVE  Flow!Fail(w[1])
<1> DEFINE phase == [j \in Job |-> PhaseOf(j)]
<1>1. w[1] \in Job /\ w = <<w[1], w[2]>>
  BY WorkerIsPair
<1>2. stage[w[1]] = w[2] /\ dir[w[1]] = "inprogress" /\ worker[w] = "raised"
  BY Located DEF MoveToFailures, Becomes, Owning
<1>3. PhaseOf(w[1]) = "running"
  BY <1>1, <1>2, PhaseNames
<1>4. ASSUME NEW j \in Job \ {w[1]} PROVE PhaseOf(j)' = PhaseOf(j)
  <2>1. \A v \in Worker : v # w => worker'[v] = worker[v]
    BY DEF MoveToFailures, Becomes, TypeOK
  <2>2. stage'[j] = stage[j] /\ dir'[j] = dir[j]
    BY DEF MoveToFailures, TypeOK
  <2> QED BY <2>1, <2>2, OthersKeepPhase
<1>5. dir'[w[1]] = "failures" /\ stage' = stage
  BY <1>1 DEF MoveToFailures, TypeOK
<1>6. PhaseOf(w[1])' = "failed"
  BY <1>1, <1>5, PhaseNamesAfter
<1>7. phase' = [phase EXCEPT ![w[1]] = "failed"]
  BY <1>1, <1>4, <1>6
<1> QED BY <1>1, <1>3, <1>5, <1>7 DEF Flow!Fail

LEMMA VanishRefines ==
  ASSUME TypeOK, Phases, NEW w \in Worker, Vanish(w)
  PROVE  Flow!Lose(w[1])
<1> DEFINE phase == [j \in Job |-> PhaseOf(j)]
<1>1. w[1] \in Job /\ w = <<w[1], w[2]>>
  BY WorkerIsPair
<1>2. stage[w[1]] = w[2] /\ dir[w[1]] = "inprogress" /\ worker[w] # "dead"
  BY Located DEF Vanish, Owning
<1>3. PhaseOf(w[1]) = "running"
  BY <1>1, <1>2, PhaseNames
<1>4. ASSUME NEW j \in Job \ {w[1]} PROVE PhaseOf(j)' = PhaseOf(j)
  <2>1. \A v \in Worker : v # w => worker'[v] = worker[v]
    BY DEF Vanish, TypeOK
  <2>2. stage'[j] = stage[j] /\ dir'[j] = dir[j]
    BY DEF Vanish
  <2> QED BY <2>1, <2>2, OthersKeepPhase
<1>5. dir' = dir /\ stage' = stage /\ worker'[w] = "dead"
  BY DEF Vanish, TypeOK
<1>6. PhaseOf(w[1])' = "stuck"
  BY <1>1, <1>2, <1>5, PhaseNamesAfter
<1>7. phase' = [phase EXCEPT ![w[1]] = "stuck"]
  BY <1>1, <1>4, <1>6
<1> QED BY <1>1, <1>3, <1>5, <1>7 DEF Flow!Lose

\* The directories, worker lists and locks implement the flow of jobs: each job
\* runs once at each stage in order, within the number of workers, whatever the
\* controller's ticks and the workers' moves, failures and deaths do meanwhile.
THEOREM QueuesImplementFlow == QueueSpec => ImplementsJobFlow
<1>1. QueueInit => Flow!FlowInit
  BY InitRefines
<1>2. TypeOK /\ Phases /\ WorkerBound' /\ [QueueNext]_queueVars
        => [Flow!FlowNext]_(Flow!flowVars)
  <2> SUFFICES ASSUME TypeOK, Phases, WorkerBound', [QueueNext]_queueVars
               PROVE  [Flow!FlowNext]_(Flow!flowVars)
    OBVIOUS
  <2>1. ASSUME NEW p \in Pipeline, NEW j \in Job, Push(p, j)
        PROVE  Flow!FlowNext
    BY <2>1, PushRefines DEF Flow!FlowNext
  <2>2. ASSUME NEW p \in Pipeline, NEW S \in SUBSET Job, TickStage(p, S)
        PROVE  Flow!FlowNext
    <3>1. call[p] \in Stage
      BY <2>2, StartedWereQueued
    <3>2. \E s \in Stage : Flow!Start(p, s, S)
      BY <2>2, <3>1, TickRefines
    <3> QED BY <3>2 DEF Flow!FlowNext, Stage
  <2>3. ASSUME UNCHANGED <<stage, dir, worker>> PROVE UNCHANGED Flow!flowVars
    <3>1. \A j \in Job : PhaseOf(j)' = PhaseOf(j)
      BY <2>3, PhaseOfFrame
    <3> QED BY <2>3, <3>1 DEF Flow!flowVars
  <2>4. ASSUME NEW p \in Pipeline, CallTick(p) \/ AcquireLock(p) \/ ReleaseLock(p)
        PROVE  UNCHANGED Flow!flowVars
    BY <2>3, <2>4 DEF CallTick, AcquireLock, ReleaseLock
  <2>5. CASE Drain \/ UNCHANGED queueVars
    BY <2>3, <2>5 DEF Drain, queueVars
  <2>6. ASSUME NEW w \in Worker,
               TaskReturns(w) \/ TaskRaises(w) \/ ReportSuccess(w) \/ ReportError(w)
        PROVE  UNCHANGED Flow!flowVars
    <3>1. /\ UNCHANGED <<stage, dir>> /\ worker[w] # "dead"
          /\ \E to \in WorkerState \ {"dead"} : worker' = [worker EXCEPT ![w] = to]
      BY <2>6 DEF TaskReturns, TaskRaises, ReportSuccess, ReportError, Becomes,
                  WorkerState
    <3> QED BY <3>1, WorkerStutters
  <2>7. ASSUME NEW w \in Worker, Exit(w) PROVE UNCHANGED Flow!flowVars
    <3>1. /\ UNCHANGED <<stage, dir>> /\ worker[w] = "exiting"
          /\ worker' = [worker EXCEPT ![w] = "dead"]
      BY <2>7 DEF Exit, Becomes
    <3>2. dir[w[1]] # "inprogress" \/ stage[w[1]] # w[2]
      BY <3>1, WorkerIsPair DEF Phases, PhaseFits, Fits, Owning
    <3> QED BY <3>1, <3>2, WorkerStutters
  <2>8. ASSUME NEW w \in Worker, MoveToOutbox(w) \/ MoveToFailures(w) \/ Vanish(w)
        PROVE  Flow!FlowNext
    <3>1. w[1] \in Job
      BY WorkerIsPair
    <3> QED BY <2>8, <3>1, OutboxRefines, FailuresRefines, VanishRefines
            DEF Flow!FlowNext
  <2> QED
    BY <2>1, <2>2, <2>4, <2>5, <2>6, <2>7, <2>8
    DEF QueueNext, ControllerStep, WorkerStep, Runs
<1> QED BY <1>1, <1>2, TypeCorrect, PhasesHold, WorkersBounded, PTL
        DEF QueueSpec, ImplementsJobFlow, Flow!FlowSpec
=============================================================================
