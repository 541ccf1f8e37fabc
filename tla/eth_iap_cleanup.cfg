SPECIFICATION Spec
CONSTANTS
  NBlocks = 2
  BlockPages = 2
  PageUnits = 2
  v1 = v1
  v2 = v2
  v3 = v3
  Versions = {v1, v2, v3}
  SizeOf <- MCSizeOf
  Erased = Erased
  Junk = Junk
  FlagWord = FlagWord
  NotRunning = NotRunning
  RECE_BUF_LEN = 5
  BIN_INF_LEN = 2
  StagingFaults = FALSE
  CleanupTears = TRUE
  InterruptUpdate = FALSE
INVARIANT FlagMeansWhole
