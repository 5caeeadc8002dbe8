SPECIFICATION Spec
CONSTANTS
  r1 = r1
  r2 = r2
  b1 = b1
  Reqs = {r1, r2}
  Blocks = {b1}
  BufferLen = 5
  NumSpec = 2
  CacheBufLen = 8
  PromptLen = 2
  GrownPrompts = TRUE
  MaxTokens = 14
  MaxResumed = 6
  NoBlock = NoBlock
SYMMETRY Symmetric
INVARIANTS
  TypeOK
  StateIsExact
  WindowFits
CHECK_DEADLOCK FALSE
