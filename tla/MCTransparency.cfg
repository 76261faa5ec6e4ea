CONSTANTS
  Regs <- ProgRegs
  WordSize = 1024
  TimeSize = 256
  Cells <- MCCells
  ReadOnly = {}
  Code <- ProgCode
  BootRegs <- ProgBootRegs
  BootCtl <- ProgBootCtl
  BootMem <- MCBootMem
  StackTop = 512
  Counts = {0, 1, 2, 3}
  Periods = {5, 6, 9}
SPECIFICATION FairSpec
INVARIANTS
  FrameBalanced
  LoopRunsExactly
PROPERTIES
  InterruptsTransparent
  ProgramFinishes
