SPECIFICATION Spec
CONSTANTS
  Workers = {w1, w2}
  Regions = {r1, r2, r3}
  Heap = Heap
  NoWorkspace = NoWorkspace
  MaxChanges = 1
  MaxCalls = 1
INVARIANT OwnWorkspace
