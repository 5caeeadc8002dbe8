SPECIFICATION Spec
CONSTANTS
  Tokens = {"open", "x", "close"}
  EOS = "eos"
  ThinkEnd = "think_end"
  States = {"begin", "body", "end"}
  Start = "begin"
  Delta <- Word
  Accepting = {"body", "end"}
  NumSpec = 3
  MaxTokens = 5
INVARIANTS TypeOK MatcherTracksAnswer AnswerIsGrammatical NeverRejected DraftsAreLongestValid
CHECK_DEADLOCK FALSE
