\* The overflow of TIMA under the two slow clocks, against timer.h.
SPECIFICATION Spec
CONSTANTS
  Modulos <- MCModulos
  Counters <- MCCounters
  Controls <- MCSlowControls
  CycleCounts <- MCCycles
PROPERTIES
  OverflowRequests
