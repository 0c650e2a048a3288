SPECIFICATION Spec
CONSTANTS
  MaxPower = 4
  PowerStep = 2
  NumInputs = 2
  MaxEvents = 4
INVARIANT HooksFollowMenu
\* the event loop waits for the next event
CHECK_DEADLOCK FALSE
