---------------------------- MODULE MCWorkerQueue ----------------------------
(* Small instances of WorkerQueue: a generator and a loader queue per         *)
(* pipeline, only the loader reporting, as Channel._configure_queues sets up. *)
EXTENDS WorkerQueue, TLC

CONSTANTS p1, j1, j2, j3

MCPipelineOf == [j \in Job |-> p1]
MCNumWorkers == [p \in Pipeline |-> <<2, 1>>]
MCOneWorker == [p \in Pipeline |-> <<1, 1>>]
MCQueueSize == <<0, 1>>
MCNoWorker == {}
MCEveryWorker == Job \X (1..NumStages)
MCSomeWorkers == {<<j1, 1>>, <<j2, 2>>}
=============================================================================
