SPECIFICATION Spec
CONSTANTS
  StopLists <- Lists
  MinCounts = {0, 2}
  Pieces <- Letters
  Delimiter <- Tag
  MaxTokens = 5
  MaxChunk = 3
  Reenters = FALSE
INVARIANTS TypeOK ChunkedAsSingle AnswerEndsAtFirstStop SentTextStands
CHECK_DEADLOCK FALSE
