SPECIFICATION FairSpec
CONSTANTS
  r1 = r1
  r2 = r2
  r3 = r3
  Reqs = {r1, r2, r3}
  Rank <- Ranks
  Configs <- LiveConfigs
PROPERTIES EveryRequestEnds
CHECK_DEADLOCK FALSE
