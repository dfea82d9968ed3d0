CONSTANTS
  Paths = {1, 2}
  Readers = {"w1"}
  MaxClock = 3
  MaxFaults = 0
  Garbled = {2}
  Cached = {1}
  Intrusive = FALSE
SPECIFICATION MCSpec
INVARIANTS ToolWins
PROPERTIES ReadyIsRight AnswersHold
CHECK_DEADLOCK FALSE
