------------------------------- MODULE JobFlow -------------------------------
(***************************************************************************)
(* What a pipeline of worker queues promises its client, without           *)
(* directories, worker lists or locks: a job runs once at each stage, in   *)
(* the order of the stages, with never more jobs of a stage running than   *)
(* the stage has workers, and ends finished or failed - or stuck, when *)
(* what ran it is gone.                                                    *)
(***************************************************************************)
EXTENDS Integers, FiniteSets

CONSTANTS Pipeline, NumStages, NumWorkers, Job, PipelineOf

VARIABLES at,      \* the stage of a job, 0 before it is submitted
          phase    \* what becomes of it there

flowVars == <<at, phase>>

FlowInit ==
  /\ at = [j \in Job |-> 0]
  /\ phase = [j \in Job |-> "new"]

Running(p, s) ==
  {j \in Job : PipelineOf[j] = p /\ at[j] = s /\ phase[j] = "running"}

Submit(j) ==
  /\ phase[j] = "new"
  /\ at' = [at EXCEPT ![j] = 1]
  /\ phase' = [phase EXCEPT ![j] = "waiting"]

Start(p, s, S) ==
  /\ \A j \in S : PipelineOf[j] = p /\ at[j] = s /\ phase[j] = "waiting"
  /\ Cardinality(Running(p, s) \cup S) <= NumWorkers[p][s]
  /\ phase' = [j \in Job |-> IF j \in S THEN "running" ELSE phase[j]]
  /\ UNCHANGED at

Complete(j) ==
  /\ phase[j] = "running"
  /\ \/ /\ at[j] < NumStages
        /\ at' = [at EXCEPT ![j] = @ + 1]
        /\ phase' = [phase EXCEPT ![j] = "waiting"]
     \/ /\ at[j] = NumStages
        /\ phase' = [phase EXCEPT ![j] = "finished"]
        /\ UNCHANGED at

Fail(j) ==
  /\ phase[j] = "running"
  /\ phase' = [phase EXCEPT ![j] = "failed"]
  /\ UNCHANGED at

Lose(j) ==
  /\ phase[j] = "running"
  /\ phase' = [phase EXCEPT ![j] = "stuck"]
  /\ UNCHANGED at

FlowNext ==
  \/ \E j \in Job : Submit(j) \/ Complete(j) \/ Fail(j) \/ Lose(j)
  \/ \E p \in Pipeline, s \in 1..NumStages, S \in SUBSET Job : Start(p, s, S)

FlowSpec == FlowInit /\ [][FlowNext]_flowVars
=============================================================================
