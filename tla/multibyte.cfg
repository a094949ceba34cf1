\* Two-byte numbers, added and subtracted, binary and BCD.
SPECIFICATION Spec
CONSTANTS
  Operands <- MCOperands
INVARIANTS
  TypeOK
  ResultCorrect
CHECK_DEADLOCK FALSE
