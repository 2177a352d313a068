SPECIFICATION FairSpec
CONSTANTS
  MaxRetry = 5
  Faults = {"fast", "failed_try", "start_fails"}
INVARIANTS
  TypeOK
  PortFree
PROPERTIES
  ProvisioningRecovers
  Stopped
  Served
