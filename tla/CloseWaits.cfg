CONSTANTS
  Passes = {1, 2}
  Retries = 2
SPECIFICATION Spec
INVARIANTS CloseWaits
CHECK_DEADLOCK FALSE
