SPECIFICATION Spec
CONSTANTS
  f1 = f1
  f2 = f2
  text = text
  empty = empty
  Nothing = Nothing
  Shipped = f1
  Firmware <- MCFirmware
  Junk <- MCJunk
  Size <- MCSize
INVARIANT
  RejectedMeansKept
