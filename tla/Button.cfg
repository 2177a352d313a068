SPECIFICATION Spec
CONSTANTS
  Ms = 2
  TickMs = 2
  DelayMs = 5
  Hold = 15
  Rearm = 60
  MaxLate = 1
  MaxUptime = 140
INVARIANTS
  TypeOK
  DelaysAsAsked
  HoldingResets
PROPERTIES
  ResetsRarely
