SPECIFICATION FairSpec
CONSTANTS
  f1 = f1
  f2 = f2
  Nothing = Nothing
  Shipped = f1
  Junk = {}
  Firmware <- MCFirmware
  Size <- MCSize
  MaxRetry = 1
  Faults = {"start_fails"}
  MaxLosses = 1
  MaxCuts = 1
INVARIANTS
  TypeOK
  PortFree
PROPERTIES
  UpdateArrives
  StopReturns
