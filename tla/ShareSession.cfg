CONSTANTS
  Workers = {w1, w2}
  Base = 2
  En1 <- MCEn1
  Width <- MCWidth
  Diffs = {1}
  Default = 9
  Lag = 4
  MaxConns = 2
  MaxPushes = 2
  MaxTakes = 3
  MaxShares = 1
SPECIFICATION Spec
INVARIANTS TypeOK SharesVerify CoinbasesDistinct LedgerExact TargetIsPools
CHECK_DEADLOCK FALSE
SYMMETRY Symmetry
