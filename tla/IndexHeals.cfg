CONSTANTS
  Paths = {1, 2}
  Readers = {"w1", "w2"}
  MaxClock = 3
  MaxFaults = 1
  Garbled = {2}
  Cached = {1}
  Intrusive = FALSE
SPECIFICATION MCSpec
PROPERTIES HealsOrMarks
CHECK_DEADLOCK FALSE
