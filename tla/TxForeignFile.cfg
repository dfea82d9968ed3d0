SPECIFICATION Spec
CONSTANTS
  t1 = t1
  t2 = t2
  Binary = {"binary"}
  Torn = {"torn"}
  Absent = {"absent"}
  Any = {"any"}
  Tx = {t1}
  Path <- MCPath2
  Markdown <- MCPath2
  Token <- MCToken
  Key <- MCKey
  Broken = "bad"
  Batches <- OneBatch
  Vaults <- OneVault
  ExternalFiles <- OtherFiles
  MaxOps = 2
  MaxFiles = 2
  Mishaps <- OneOther
CHECK_DEADLOCK FALSE
PROPERTY
  SparesForeignFiles
