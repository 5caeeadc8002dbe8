SPECIFICATION Spec
CONSTANTS
  Requests <- WithAndWithoutTools
  Tools <- TwoTools
  Parts = {"f"}
  Keys = {"k", "s"}
  Letters = {"1", "a"}
  Digits = {"1"}
  Structural = {"k", "s", "1"}
  DropWsOnly = TRUE
  StripReasoning = TRUE
  Mixes = FALSE
  MaxEvents = 7
  MaxBatch = 3
INVARIANTS TypeOK ReasoningStands ContentStands InnerTextUntouched CallsAsParsed
CHECK_DEADLOCK FALSE
