\* The processor under test and the reference, instruction by instruction.
SPECIFICATION TestSpec
CONSTANTS
  MEM_SIZE = 4
  shouldWriteToMemory = FALSE
  Programs <- MCPrograms
  Registers <- MCRegisters
  FlagBytes <- MCFlags
  AValues <- MCA
INVARIANTS
  TestTypeOK
  AgreesWithReference
  CyclesAsTabled
