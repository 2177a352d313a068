SPECIFICATION FairSpec
CONSTANTS
  Size = 4
  DRAIN_CNT = 4
  ChunkSize = 2
  MaxPrint = 2
  MaxBytes = 7
INVARIANTS
  TypeOK
  NullIsLast
  Intact
PROPERTIES
  ReadersGetTheStream
  UartCatchesUp
