SPECIFICATION SoloSpec
CONSTANTS
  NumWorkers = 2
  NonceSpace = 3
  Time <- MCTime
  Initial = 8
  Halving = 2
  StartHeight = 3
  MaxBlocks = 4
  Nil = Nil
INVARIANTS
  SoloTypeOK
  NothingMissed
  WinIsReturned
  SubmittedWins
  TimestampFollowsParent
PROPERTY SearchEnds
