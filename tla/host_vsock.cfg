SPECIFICATION FairSpec
CONSTANTS
  MaxPath = 4
  Char <- Chars
  Digit <- Digits
  Under = "_"
  Paths <- ShortPaths
  MaxStream = 15
  Newlines <- FewNewlines
INVARIANTS
  CutsThePort
  TakesTheAnswer
  SliceInBuffer
  Inv
PROPERTY LoopsEnd
CHECK_DEADLOCK FALSE
