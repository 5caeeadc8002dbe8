SPECIFICATION Spec
CONSTANTS
  r1 = r1
  r2 = r2
  r3 = r3
  Reqs = {r1, r2, r3}
  Rank <- Ranks
  Configs <- SlotConfigs
INVARIANTS SessionSlotsCounted
CHECK_DEADLOCK FALSE
