SPECIFICATION RunningSpec
CONSTANTS
  Ids = {1, 9}
  Workers = {}
  Repeats = 1
  BootCounts = {0}
  TxCap = 1
  MaxErrors = 0
  Interrupts = FALSE
  Calls <- RunningCalls
PROPERTIES AskedIsArmed ShutdownEnds
