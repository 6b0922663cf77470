SPECIFICATION Spec
CONSTANTS
  Serials = {"a", "b"}
  Ids = {0, 1, 2}
  Roles = {1, 2}
  Generations = {"pre25", "fw25"}
  Commands <- AllCommands
INVARIANTS TypeOK OkIsBurned LearnedIsTrue CleanIsHome
PROPERTY OthersKeepTheirs
