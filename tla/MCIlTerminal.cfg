CONSTANTS
  NBUF_ROWS = 4
  NBUF_COLS = 2
  DefRows = 3
  DefCols = 2
  MinRows = 2
  MinCols = 1
  Sizes <- MCSizes
  Text = {0, 10, 13, 88}
  Escapes <- MCEscapes
  Coordinates = {0, 3}
SPECIFICATION Spec
INVARIANTS InBounds ScreenCurrent
PROPERTIES LineFeedScrolls
