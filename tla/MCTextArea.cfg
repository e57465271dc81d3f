SPECIFICATION Spec
CONSTANTS
  w = w
  Newline = Newline
  NUL = NUL
  None = None
  Char = {w, Newline}
  Bytes <- MCBytes
  GapSize = 2
  StartTexts <- MCTexts
  NumRows = 2
  NumCols = 2
  MaxSize = 5
CHECK_DEADLOCK FALSE
INVARIANTS TypeOK GapIsEmpty PanicsOnlyWhenFull
PROPERTIES EditsPlainText
