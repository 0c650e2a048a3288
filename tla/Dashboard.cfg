SPECIFICATION Spec
CONSTANTS
  MaxPower = 4
  PowerStep = 2
  NumInputs = 3
  MaxEvents = 7
INVARIANTS
  TypeOK
  PowerInRange
  NoRpcStored
  SavedFormSticks
PROPERTY QuitEnds
\* the event loop waits for the next event
CHECK_DEADLOCK FALSE
