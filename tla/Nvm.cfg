SPECIFICATION Spec
CONSTANTS
  Count = 3
  Kind <- Mixed
  Client = {1}
  Faults = {"init", "open", "read", "erase", "write", "commit"}
  MaxStarts = 2
  MaxSets = 1
  Absent = Absent
  Garbage = Garbage
  Off = Off
INVARIANTS TypeOK NotOvercounted NoStartLost CleanMeansSaved
PROPERTIES Saved ImplementsParameters
