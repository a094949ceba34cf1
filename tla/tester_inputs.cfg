\* Nine rows alone, and five of both tables, at most two of whose opcodes fail.
SPECIFICATION Spec
CONSTANTS
  Suites <- MCSuites
  MaxFailures = 2
INVARIANTS
  TypeOK
  EveryInputReached
  NoInputTwice
  CoverageIsTrue
  SummaryIsTrue
  StopsAtFailure
  TablesAgree
