SPECIFICATION Spec
CONSTANTS
  NumWorkers = 2
  NonceSpace = 6
  CheckEvery = 2
  JobCap = 2
  MaxJobs = 3
INVARIANTS
  TypeOK
  QueueHoldsNewest
  SendNeverBlocks
  StaleWorkBounded
  ParksOnlyAtStart
PROPERTIES
  ImplementsLatestJob
  WorkersFollowPool
  WorkersStop
