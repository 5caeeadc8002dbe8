SPECIFICATION Spec
CONSTANTS
  StopLists <- Lists
  MinCounts = {0}
  Pieces <- Letters
  Delimiter <- Tag
  MaxTokens = 3
  MaxChunk = 3
  Reenters = TRUE
INVARIANTS ChunkedAsSingle
CHECK_DEADLOCK FALSE
