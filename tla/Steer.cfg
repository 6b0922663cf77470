SPECIFICATION Spec
CONSTANTS
  Corners = {c1, c2}
  Turn = 4
  Target = 0
  Tol = 1
  FineTol = 1
  Deadband = 2
  FineDeadband = 1
  Motion = 1
  Window = 2
  Hold = 2
  Timeout = 3
  FineTimeout = 2
  SpinTicks = 2
  FlipTicks = 1
  LossTicks = 2
  MaxTrouble = 1
INVARIANTS TypeOK BlindIsBrief
PROPERTIES TolHeld Ends
CHECK_DEADLOCK FALSE
