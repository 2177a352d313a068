SPECIFICATION FairSpec
CONSTANTS
  SlotCnt = 2
  DRAIN_CNT = 4
  QueueDepth = 1
  FdCnt = 2
  MsgLen = 1
  MaxBack = 1
  MaxStalls = 1
INVARIANTS
  TypeOK
  MatchingSocket
  DrainsOwned
  OwnConnection
PROPERTIES
  Rounds
  NoClientStarves
  Reclaimed
