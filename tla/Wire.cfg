SPECIFICATION MessageSpec
CONSTANTS
  Capacity = 44
  Junk = {255}
  Address <- AddressV
  Text <- TextV
  Blob <- BlobV
  Number <- NumberV
  Tag <- TagV
  MaxWritten = 6
  Sendable <- SendableV
INVARIANTS
  NeverOverlaps
  Aligned
  ReadsBack
  ValueArrives
PROPERTY
  SizeIsFinal
CHECK_DEADLOCK FALSE
