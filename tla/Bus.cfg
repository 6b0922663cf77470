SPECIFICATION Spec
CONSTANTS
  Ids = {1}
  Workers = {}
  Repeats = 1
  BootCounts = {1}
  TxCap = 1
  MaxErrors = 0
  Interrupts = TRUE
  Calls <- BusCalls
\* With SIGINT the process can hang on its own lock, so a deadlock is reachable.
INVARIANTS TypeOK NoSendAfterClose OneLateBeat ArrayCurrent
PROPERTY SwitchSpec
CHECK_DEADLOCK FALSE
