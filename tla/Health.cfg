SPECIFICATION Spec
CONSTANTS
  Devs = {1, 2, 3}
  Rigs <- AllRigs
  MaxTrouble = 1
INVARIANTS TypeOK ErasedIsRecorded
PROPERTIES ThrottleHolds CleanIsClean AdviceRecovers
