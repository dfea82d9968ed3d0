CONSTANTS
  Calls = {1, 2, 3}
  Kinds = {"get", "put", "consumeCode", "revokeAll", "sweepExpired"}
  Pendings = {1, 2}
  Codes = {11}
  Tokens = {}
  MaxPending = 1
  Opened <- OpenedEmpty
  MaxRewrites = 1
  MaxFaults = 1
  MaxTroubles = 1
  Slots = {r1, r2}
  Starts = {"empty", "asked", "granted", "aged"}
  Grace = 1
  CodeTtl = 1
  PendingTtl = 3
  AccessTtl = 2
  RefreshTtl = 3
  GoodTtl = 2
  NegativeTtl = 2
  UsedEvery = 2
  MaxAttempts = 2
  Window = 2
  Lockout = 3
  Capacity <- Capacities
  Refill <- Refills
  MaxRequests = 3
  MaxTime = 3
  MaxClock = 3
  MaxAsked = 3
SPECIFICATION MCSpec
INVARIANTS TypeOK ConsumedOnce PendingsAtLimit QueueMoves TokensHold GatesHold
PROPERTIES SerialWrites
SYMMETRY SlotsAlike
CHECK_DEADLOCK FALSE
