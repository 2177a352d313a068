SPECIFICATION FairSpec
CONSTANTS
  MaxRetry = 5
  Faults = {"failed_try"}
PROPERTIES
  AlwaysServed
