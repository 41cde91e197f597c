SPECIFICATION QueueFairSpec
CONSTANTS
  p1 = p1
  j1 = j1
  j2 = j2
  j3 = j3
  Pipeline = {p1}
  NumStages = 2
  NumWorkers <- MCOneWorker
  QueueSize <- MCQueueSize
  Job = {j1, j2, j3}
  PipelineOf <- MCPipelineOf
  Reporting = {2}
  MayRaise <- MCSomeWorkers
  MayVanish <- MCNoWorker
INVARIANTS InFlightBound
PROPERTIES Settles
CHECK_DEADLOCK FALSE
