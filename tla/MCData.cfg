SPECIFICATION FairSpec
CONSTANTS
  Tables <- MCTables
  RowsOf <- MCRowsOf
  Ref <- MCRef
  After <- MCAfter
  NoRow = "none"
  BatchRows = 2
  Objects <- MCObjects
  FileOrders <- MCFileOrders
  Droppable = {"B"}
  MaxSoft = 2
  Values <- MCValues
  MaxRows = 3
  MaxExisting = 2
  Thresholds <- MCThresholds
  ExtractSteps <- MCExtractSteps
  ObjectOf <- MCObjectOf
  Selected <- MCSelected
  LookupTables <- MCLookupTables
  SfRecord = {"x1", "x2", "x3", "x4"}
  NoRecord = "none"
  MaxChanges = 1
  DeleteObjects <- MCDeleteObjects
  RecordsOf <- MCRecordsOf
  Parent <- MCParent
  Nobody = "none"
  Bases = {"Name", "F__c"}
  Builtin = {"Name"}
  MaxFields = 2
  Target = 45
  MinBatchSize = 10
  MaxBatchSize = 12
  Overshoot = 2
  MaxRequests = 6
  ObjectNames <- MCObjectNames
  FieldsAtFirst <- MCFieldsAtFirst
  SchemaProcs = {"p", "q"}
  Asks <- MCAsks
  ChunkSize = 1
  MaxSchemaRuns = 3
  MaxSchemaChanges = 1
  MaxSchemaFaults = 1
  DictPackages <- MCDictPackages
  Histories <- MCHistories
  Branches <- MCBranches
INVARIANTS LoadsAreSound MappingsAreSound SelectionIsSound ExtractsAndDeletesAreSound
  PortionsAreSound SchemaIsSound
PROPERTIES DataTasksEnd
CHECK_DEADLOCK FALSE
