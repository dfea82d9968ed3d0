CONSTANTS
  Calls = {"c1", "c2"}
  Exempt = {"c1"}
  Rounds = 2
  Passes = {1, 2}
  Retries = 1
  Sessions = {1, 2}
  Coarse = 2
  Window = 3
  Delay = 1
  MaxClock = 5
  MaxWrites = 2
  MaxSaves = 2
  MaxChildren = 3
  Pids = {1, 2}
  ReadOnly = {2}
SPECIFICATION MCSpec
INVARIANTS MCTypeOK StopAnswers OneAtATime ReadyWhenChecked HitIsCurrent BootLeavesVaultAlone
PROPERTIES NoneAfterClose ErrorAnswered BootEnds Stops AppFollows PeersTell
CHECK_DEADLOCK FALSE
