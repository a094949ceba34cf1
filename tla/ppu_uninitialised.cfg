\* PPU::ticks left uninitialised.
SPECIFICATION SpecIndeterminate
CONSTANTS
  OamTicks = 2
  LineTicks = 18
  Width = 8
  Height = 2
  LastLine = 4
  TileIds <- MCTileIds
  LcdOnValues <- MCOnOff
  TileSelValues <- MCOnOff
  ScyValues <- MCScy
  LycValues <- MCLyc
PROPERTIES
  OamScanTakesItsTicks
