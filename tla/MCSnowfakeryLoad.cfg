SPECIFICATION Spec
CONSTANTS
  NumChannels = 1
  NumGenerators <- MCGenerators
  NumLoaders <- MCLoaders
  Generators = 2
  Loaders = 1
  LoadQueueSize = 1
  ErrorThreshold = 0
  Target = 5
  MinBatchSize = 2
  MaxBatchSize = 2
  Overshoot = 1
  MaxJobs = 6
  RaisingJobs <- MCFirstTwoJobs
  VanishingJobs <- MCThirdJob
INVARIANTS LoadIsSound
