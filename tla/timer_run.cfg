\* Calls of run() between the program's writes to the registers.
SPECIFICATION Spec
CONSTANTS
  Modulos <- MCModulos
  Counters <- MCCounters
  Controls <- MCControls
  CycleCounts <- MCCycles
INVARIANTS
  TypeOK
PROPERTIES
  RunReturns
  LoopProgress
