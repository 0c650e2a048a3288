SPECIFICATION Spec
CONSTANTS
  Base = 3
  HalfBytes = 3
  UnitBytes = 1
  MaxExp = 7
  MaxNum = 3
  MaxDen = 3
INVARIANT SoloTargetExact
