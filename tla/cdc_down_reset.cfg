SPECIFICATION Spec
CONSTANTS
  TxNum = 4
  PackMax = 2
  b1 = b1
  b2 = b2
  Byte = {b1, b2}
  Packets <- MCPackets
  ResetAnywhere = TRUE
  HaltsWhile = {}
INVARIANT QueueFits
