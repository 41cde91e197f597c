SPECIFICATION Spec
CONSTANTS
  Retries = 2
  MaxExpiries = 1
  Needs <- MCNeeds
  MaxRuns = 3
  Subscriber = {o1, o2, o3}
  Target = 1
  BatchSize = 2
  MaxBad = 1
  ClassOrder <- MCClassOrder
  Methods <- MCMethods
  ClassName <- MCClassName
  Checkouts <- MCCheckouts
  MaxUnnamed = 1
  MaxJobs = 3
  MaxPolls = 6
  MaxAdminChanges = 1
  Groups <- MCGroups
  MaxGroups = 2
  Hows <- MCHows
  MaxSourceChanges = 1
  Paths = {"class", "object"}
  Prepared <- MCPrepared
  MaxClock = 2
  MaxPreparations = 2
INVARIANTS RevertRestores
CHECK_DEADLOCK FALSE
