\* The length of V_BLANK, at the geometry of the Game Boy.
SPECIFICATION Spec
CONSTANTS
  OamTicks = 40
  LineTicks = 456
  Width = 160
  Height = 144
  LastLine = 153
  TileIds <- MCZero
  LcdOnValues <- MCOn
  TileSelValues <- MCOff
  ScyValues <- MCOdd
  LycValues <- MCZero
PROPERTIES
  TenLinesOfVBlank
