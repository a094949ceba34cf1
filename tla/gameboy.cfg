\* A main loop that leaves interrupts on, all lines for LYC, the LCD on and off.
SPECIFICATION Spec
CONSTANTS
  OamTicks = 2
  LineTicks = 14
  Width = 4
  Height = 2
  LastLine = 3
  TileIds <- MCZero
  LcdOnValues <- MCOnOff
  TileSelValues <- MCOn
  ScyValues <- MCZero
  LycValues <- MCLyc
  MainStart = 256
  MainLen = 2
  SubStart = 512
  HandlerLen = 1
  HandlerEnd = "RETI"
  MainOps <- MCMain
  HandlerOps <- MCNop
  IeValues <- MCIe
  IfValues <- MCIf
  MaxNesting = 1
INVARIANTS
  NoNesting
  VBlankServedInTime
PROPERTIES
  RequestsServed
  ProgramProceeds
  PpuContract
  InterruptsContract
