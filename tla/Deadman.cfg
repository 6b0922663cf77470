SPECIFICATION DeadmanSpec
CONSTANTS
  Ids = {1}
  Workers = {}
  Repeats = 1
  BootCounts = {1}
  TxCap = 1
  MaxErrors = 0
  Interrupts = TRUE
  Calls <- DeadmanCalls
\* With SIGINT the process can hang on its own lock, so a deadlock is reachable.
INVARIANTS QuietAfterShutdown
PROPERTIES StopSticks HangDisarms
CHECK_DEADLOCK FALSE
