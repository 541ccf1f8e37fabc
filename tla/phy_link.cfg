SPECIFICATION FairSpec
CONSTANTS
  SucMax = 2
  LinkMax = 1
  RetryMax = 1
  ChangeMax = 2
  SucMod = 4
  ErrMax = 2
  ErrCap = 2
  Dwell = 2
  Peers <- MCPeers
  Strikes = FALSE
INVARIANT Safe
PROPERTIES
  LinkComesUp
  PolarityFound
  LinkLeftAlone
