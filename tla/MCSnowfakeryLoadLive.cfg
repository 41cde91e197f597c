SPECIFICATION FairSpec
CONSTANTS
  NumChannels = 1
  NumGenerators <- MCGenerators
  NumLoaders <- MCLoaders
  Generators = 2
  Loaders = 1
  LoadQueueSize = 1
  ErrorThreshold = 0
  Target = 4
  MinBatchSize = 2
  MaxBatchSize = 2
  Overshoot = 0
  MaxJobs = 4
  RaisingJobs <- MCFirstGen
  VanishingJobs <- MCNone
PROPERTIES Termination
