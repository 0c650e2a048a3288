SPECIFICATION MCSpec
CONSTANTS
  Base = 3
  HalfBytes = 3
  UnitBytes = 1
  MaxExp = 7
  MaxNum = 3
  MaxDen = 3
  NumWords = 3
  WordMod = 4
  WordBits = 2
  RotateBits = 1
  Slots = 4
  HardenInterval = 2
  MixRounds = 3
  Cycle = 2
  Nonces = {0, 1}
  Compress <- MCCompress
  Arx <- MCArx
  IV <- MCIV
  EndShort <- MCEndShort
  EndLong <- MCEndLong
  Fronts <- MCFronts
  LastBlock <- MCLastBlock
INVARIANTS
  TypeOK
  NetTargetExact
  NoShareMissed
  HashIsReference
  ScratchpadIsHeaders
