SPECIFICATION Spec
CONSTANTS
  Requests <- WithAndWithoutTools
  Tools <- TwoTools
  Parts = {"f"}
  Keys = {"k", "s"}
  Letters = {"1", "a"}
  Digits = {"1"}
  Structural = {"k", "s", "1"}
  DropWsOnly = TRUE
  StripReasoning = TRUE
  Mixes = TRUE
  MaxEvents = 7
  MaxBatch = 4
INVARIANTS InnerNewlinesKept
CHECK_DEADLOCK FALSE
