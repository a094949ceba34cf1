\* Two ROMs loaded, the hand-over, and the test harness's listener.
SPECIFICATION SessionSpec
CONSTANTS
  MEM_SIZE = 65536
  shouldWriteToMemory = TRUE
  GameFiles <- MCGameFiles
  BootFile <- MCBootFile
  Text <- MCText
  Passed <- MCPassed
  Failed <- MCFailed
  Endpoints <- MCEndpoints
INVARIANTS
  VerdictIsTrue
PROPERTIES
  RomRestored
  StopsWhenAsked
  RunsToTheVerdict
