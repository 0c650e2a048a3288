SPECIFICATION Spec
CONSTANTS
  NumWorkers = 2
  NonceSpace = 4
  CheckEvery = 2
  JobCap = 1
  MaxJobs = 1
PROPERTY EveryWorkerMines
