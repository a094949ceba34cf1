\* Handlers that turn interrupts on again, clear requests and end with RET.
SPECIFICATION Spec
CONSTANTS
  MainStart = 256
  MainLen = 2
  SubStart = 512
  HandlerLen = 1
  HandlerEnd = "RET"
  MainOps <- AllOps
  HandlerOps <- NestOps
  IeValues <- MCIe
  IfValues <- MCIf
  MaxNesting = 3
INVARIANTS
  TypeOK
  FramesMatch
PROPERTIES
  Transparent
  ServedInOrder
