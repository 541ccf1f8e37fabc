SPECIFICATION FairSpec
CONSTANTS
  RxLen = 5
  PackSize = 2
  b1 = b1
  b2 = b2
  Byte = {b1, b2}
  Filler = b1
  Overrun = FALSE
  ResetAnywhere = FALSE
INVARIANT Safe
PROPERTIES
  UploadEnds
  BytesGoUp
  ImplementsByteStream
