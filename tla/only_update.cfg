SPECIFICATION FairSpec
CONSTANTS
  NBlocks = 2
  BlockPages = 2
  PageUnits = 3
  ChunkMax = 2
  v1 = v1
  v2 = v2
  Versions = {v1, v2}
  SizeOf <- MCSizeOf
  Erased = Erased
  Junk = Junk
  NoImage = NoImage
  NotRunning = NotRunning
  EraseRequests = {1, 2, 4}
  StagingFaults = TRUE
  EraseOutlivesLink = FALSE
  SwitchTears = FALSE
INVARIANT Safe
PROPERTIES
  ImplementsInPlaceUpdate
  EraseAsAccepted
  UpdateCompletes
