SPECIFICATION Spec
CONSTANTS
  r1 = r1
  r2 = r2
  r3 = r3
  Reqs = {r1, r2, r3}
  Rank <- Ranks
  Configs <- AllConfigs
INVARIANTS
  TypeOK
  InFlightAccounting
  ComputedMatches
  QueuePartition
  BlocksCover
  RunnerSlotsBounded
  StepWithinBudget
  WakesForWork
  PrefillStopsAtStates
PROPERTIES
  TokensInPlace
CHECK_DEADLOCK FALSE
