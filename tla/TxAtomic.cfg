SPECIFICATION Spec
CONSTANTS
  t1 = t1
  t2 = t2
  Binary = {"binary"}
  Torn = {"torn"}
  Absent = {"absent"}
  Any = {"any"}
  Tx = {t1, t2}
  Path <- MCPath
  Markdown <- MCPath
  Token <- MCToken
  Key <- MCKey
  Broken = "bad"
  Batches <- MCBatches
  Vaults <- MCVaults
  ExternalFiles <- OtherFiles
  MaxOps = 3
  MaxFiles = 3
  Mishaps <- FaultsOrOthers
CHECK_DEADLOCK FALSE
INVARIANTS
  TypeOK
  JournalGuards
  JournalTells
PROPERTIES
  UndoesOnlyOwnFiles
  ImplementsAtomicBatch
  Settles
