CONSTANTS
  Regs <- MCRegs
  WordSize = 512
  TimeSize = 2
  Cells <- MCCells
  ReadOnly <- MCReadOnly
  Code <- MCCode
  BootRegs <- MCBootRegs
  BootCtl <- MCBootCtl
  BootMem <- MCBootMem
SPECIFICATION Spec
PROPERTIES
  FaultsRepeatable
  PartialStoreConfined
  ReservationEarned
