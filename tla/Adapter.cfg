SPECIFICATION Spec
CONSTANTS
  Rigs <- AllRigs
  WaitTimeout = 2
  MaxFaults = 2
INVARIANTS TypeOK OkDrains
PROPERTIES Ends Recovers
