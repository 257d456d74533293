\* Both tables: the DSM bitmap call puts the region of others aside.
CONSTANTS
  Width = 3
  Height = 2
  IntMax = 7
  U16 = 8
  Coords <- MCCoords
  Sizes = {0, 2}
  DsmSizes = {0, 2}
  Lengths <- MCLengths
  GlyphWidths = {1, 2}
  GlyphHeight = 1
  LineGap = 0
  MaxChars = 2
  None = None
SPECIFICATION Spec
INVARIANT
  StaleIsDirty
