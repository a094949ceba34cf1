\* Three visible lines of twelve pixels; every write of the program; fair ticks.
SPECIFICATION FairSpec
CONSTANTS
  OamTicks = 2
  LineTicks = 23
  Width = 12
  Height = 3
  LastLine = 5
  TileIds <- MCTileIds
  LcdOnValues <- MCOnOff
  TileSelValues <- MCOnOff
  ScyValues <- MCScy
  LycValues <- MCLyc
INVARIANTS
  TypeOK
  LineTiming
  Pace
  Raster
  PixelOrder
  FetchesInVram
PROPERTIES
  FramesInStep
  ImplementsFrameScan
  FramesKeepComing
  CoincidenceKeepsComing
