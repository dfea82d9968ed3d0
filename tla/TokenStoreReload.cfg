CONSTANTS
  Calls = {1, 2, 3, 4}
  Kinds = {"get", "put"}
  Pendings = {}
  Codes = {11, 12}
  Tokens = {21}
  MaxPending = 16
  Opened <- OpenedEmpty
  MaxRewrites = 0
  MaxFaults = 0
SPECIFICATION Spec
PROPERTIES EachWriteSerial
CHECK_DEADLOCK FALSE
