SPECIFICATION Spec
CONSTANTS
  Params = {4}
  WriteAttempts = 2
  ReadAttempts = 2
  Protected = {}
  Mistyped = {}
  Unencodable = {}
  Period = 4
  MaxPolls = 1
  Commands <- FullCommands
INVARIANTS RerunBurns
