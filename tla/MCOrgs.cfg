SPECIFICATION FairSpec
CONSTANTS
  Project = {"p1", "p2"}
  NewAlias = {"x"}
  MaxCommands = 2
  MaxCrashes = 1
  OrgName = {"o", "q"}
  Predefined = {"o"}
  MaxServers = 2
  MaxOrgCommands = 4
  MaxRequests = 3
  ExpiresIn = 5
  Intervals = {1, 3}
  MaxAdminEdits = 1
  BatchSize = 2
  MaxOthers = 1
  Lifetime = 3
  MaxSessionFaults = 1
  MaxOrgChanges = 1
INVARIANTS KeychainIsSound SessionsAreSound OrgTasksAreSound
PROPERTIES OrgsMoveOn
CHECK_DEADLOCK FALSE
