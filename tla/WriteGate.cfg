SPECIFICATION Spec
CONSTANTS
  c1 = c1
  c2 = c2
  c3 = c3
  None = None
  Caller = {c1, c2, c3}
  Path <- MCPath3
INVARIANTS
  TypeOK
  NoLeakedEntry
  WaitsUpward
PROPERTIES
  EveryCallRuns
  ImplementsPathLocks
