SPECIFICATION Spec
CONSTANTS
  NBlocks = 2
  BlockPages = 2
  PageUnits = 3
  ChunkMax = 2
  v1 = v1
  v2 = v2
  Versions = {v1, v2}
  SizeOf <- MCSizeOf
  Erased = Erased
  Junk = Junk
  NotRunning = NotRunning
  EraseRequests = {1, 4}
  EraseOutlivesLink = TRUE
PROPERTY EraseWithinB
