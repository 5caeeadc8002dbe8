SPECIFICATION Spec
CONSTANTS
  Reqs = {r1, r2}
  Blocks = {b1, b2, b3}
  Depth = 3
  MaxSteps = 3
  MaxDeferred = 1
SYMMETRY Symmetry
INVARIANTS
  TypeOK
  NoInFlightWriteToPool
  LoadsIsolated
  CopySourcesRetained
  FencesNearlyOrdered
  IdleQueueHeldByCopy
PROPERTIES
  ImplementsPool
CHECK_DEADLOCK FALSE
