SPECIFICATION QueueSpec
CONSTANTS
  p1 = p1
  j1 = j1
  j2 = j2
  j3 = j3
  Pipeline = {p1}
  NumStages = 2
  NumWorkers <- MCNumWorkers
  QueueSize <- MCQueueSize
  Job = {j1, j2, j3}
  PipelineOf <- MCPipelineOf
  Reporting = {2}
  MayRaise <- MCEveryWorker
  MayVanish <- MCSomeWorkers
INVARIANTS TypeOK WorkerBound Ownership QuietIsSettled
PROPERTIES ImplementsJobFlow
CHECK_DEADLOCK FALSE
