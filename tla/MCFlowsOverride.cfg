SPECIFICATION FlowsSpec
CONSTANTS
  NoWhen = NoWhen
  Unconditional = Unconditional
  NoneName <- MCNone
  TaskOptions <- MCTaskOptions
  RuntimeOptions <- MCRuntimeOptions
  Skip <- MCSkip
  Projects <- MCProjects
  Roots <- MCRoots
  MaxCreated = 2
  Steps <- MCSteps
  Worlds <- MCMergeWorlds
  Condition = {"c1", "c2", "c3"}
  PlanWorlds <- MCPlanWorlds
  CheckWorlds <- MCCheckWorlds
  Publisher = {"k", "l"}
  MaxPublishes = 2
  MaxPublishFaults = 1
  Volatile = {"c2"}
  Repo <- MCRepo
  DepWorlds <- MCDepWorlds
  Version <- MCVersion
  max_iterations = 4
  MaxRuns = 2
  MaxFailures = 1
INVARIANTS OverridesCascade
CHECK_DEADLOCK FALSE
