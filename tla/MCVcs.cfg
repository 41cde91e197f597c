SPECIFICATION Spec
CONSTANTS
  Branch <- MCBranch
  Number <- MCNumber
  Build = {"w1", "w2"}
  MergeOptions <- MCOptions
  MaxCommits = 2
  Formats <- MCFormats
  Paths <- MCPaths
  Look = 2
  MaxReleases = 3
  MaxPushes = 2
  Component = {"c"}
  Unmanifested = {}
  Command = {"k", "l"}
  Excludes <- MCExcludes
  MaxRevision = 2
  MaxCrashes = 1
  Path <- MCPath
  StartsWith <- MCStartsWith
  ReleaseTag = {"t"}
  Include <- MCPath
  PubTask = {"k", "l"}
  DocsDir = "d"
  MaxRevisions = 2
  MaxPublished = 3
  MaxKills = 1
  PackageNames = {"base", "old", "mid", "top"}
  SecondGen = {"base", "mid", "top"}
  Needs <- MCNeeds
  SourceRepo = {"A", "B"}
  Releasing = {"A"}
  SourceFile = {"x"}
  SourcesOf <- MCSourcesOf
  Runner = {"k", "l"}
  CoBranch = {"main", "f"}
  Environs <- MCEnvirons
  MaxServed = 3
  MaxFetches = 2
  MaxRunnerEnds = 1
  MaxCheckoutCommits = 3
  MaxGitMoves = 3
  Promoter = {"k", "l"}
  MaxPromotions = 4
INVARIANTS BranchesAreSound ReleasesAreFound TrackingIsSound PublishingIsSound ProjectsAreSound
PROPERTIES OthersWorkStays
CHECK_DEADLOCK FALSE
