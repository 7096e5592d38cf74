SPECIFICATION FairSpec
CONSTANTS
  Containers = {c1, c2}
  Projects <- EveryKind
  MaxCalls = 2
  Refresh = 2
  RequestTime = 1
  MaxEdits = 2
  MaxFaults = 1
CHECK_DEADLOCK FALSE
INVARIANT DemotionHoldsUndisturbed
PROPERTIES JudgedUnderRecentStage MachineLearnsTheStage
