CONSTANTS
  Bits = 8
  Lanes = 3
  VecRegs <- MCVecRegs
  Regs <- MCRegs
  Cells <- MCCells
  Program <- MCProgram
  BootVectors <- MCBootVectors
  BootRegs <- MCBootRegs
  BootMem <- MCBootMem
  MaxIssued = 3
SPECIFICATION Spec
INVARIANT TypeOK
PROPERTIES
  RestartIsExact
  ReductionExact
  AccessKeepsInactive
CHECK_DEADLOCK FALSE
