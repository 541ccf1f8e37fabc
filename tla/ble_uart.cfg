SPECIFICATION FairSpec
CONSTANTS
  Size = 3
  IndexMod = 6
  TxSize = 1
  Payloads = {2}
  Retries = 1
  b1 = b1
  b2 = b2
  Byte = {b1, b2}
  Writes <- MCWrites
  Overlap = FALSE
INVARIANT Safe
PROPERTIES
  ImplementsByteStream
  WakeupKept
  BytesGoOut
