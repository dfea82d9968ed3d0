CONSTANTS
  Paths = {1}
  Readers = {"w1"}
  MaxClock = 3
  MaxFaults = 0
  Garbled = {2}
  Cached = {}
  Intrusive = FALSE
SPECIFICATION FairSpec
PROPERTIES SelfHeals
CHECK_DEADLOCK FALSE
