SPECIFICATION Spec
CONSTANTS
  Count = 1
  Kind <- AllInts
  Client = {1}
  Faults = {"open"}
  MaxStarts = 3
  MaxSets = 0
  Absent = Absent
  Garbage = Garbage
  Off = Off
PROPERTIES BootCountKept
