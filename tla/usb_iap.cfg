SPECIFICATION FairSpec
CONSTANTS
  NBlocks = 3
  BlockPages = 1
  PageUnits = 3
  ChunkMax = 2
  v1 = v1
  v2 = v2
  Versions = {v1, v2}
  SizeOf <- MCSizeOf
  Erased = Erased
  Junk = Junk
  FlashFaults = TRUE
  Blank = FALSE
  ComesBack = FALSE
INVARIANT Safe
PROPERTIES
  EndInstalls
  CheckWordSpared
  UpdateCompletes
