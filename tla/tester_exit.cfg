\* The exit code against the comment of tester_run, with --keep-going.
SPECIFICATION Spec
CONSTANTS
  Suites <- MCSuites
  MaxFailures = 2
INVARIANTS
  ExitTellsFailures
