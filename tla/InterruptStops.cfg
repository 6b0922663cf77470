SPECIFICATION FairSpec
CONSTANTS
  Ids = {1}
  Workers = {}
  Repeats = 1
  BootCounts = {0}
  TxCap = 1
  MaxErrors = 0
  Interrupts = TRUE
  Calls <- ToolCalls
PROPERTY InterruptStops
CHECK_DEADLOCK FALSE
