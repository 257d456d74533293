\* Both tables on a small screen, with the loop of drawTextEx.
CONSTANTS
  Width = 2
  Height = 2
  IntMax = 7
  U16 = 4
  Coords <- MCNear
  Sizes = {0, 2}
  DsmSizes = {3, 5}
  Lengths <- MCLengths
  GlyphWidths = {1}
  GlyphHeight = 1
  LineGap = 0
  MaxChars = 2
  None = None
SPECIFICATION Spec
INVARIANTS
  TypeOK
  StaleIsAccountedFor
  DirtyOnScreen
