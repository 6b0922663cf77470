SPECIFICATION Spec
CONSTANTS
  Tools <- AllTools
  MaxRuns = 1
  MaxSigints = 2
  MaxErrors = 1
  MaxLost = 1
\* The last script has ended.
CHECK_DEADLOCK FALSE
INVARIANTS TypeOK LeftQuiet OldIsBrief
