SPECIFICATION Spec
CONSTANTS
  Params = {4, 5, 21}
  WriteAttempts = 2
  ReadAttempts = 2
  Protected = {21}
  Mistyped = {5}
  Unencodable = {}
  Period = 4
  MaxPolls = 1
  Commands <- AllCommands
INVARIANTS TypeOK ExitZeroHolds AckedBurnCommits
PROPERTIES NeverBurnsUndeclared
