SPECIFICATION Spec
CONSTANTS
  Reqs = {r1, r2}
  Blocks = {b1, b2}
  Depth = 2
  MaxSteps = 2
  MaxDeferred = 1
PROPERTY ResetEmptiesTheCache
CHECK_DEADLOCK FALSE
