CONSTANTS
  Regs <- ThreadRegs
  WordSize = 1024
  TimeSize = 512
  Cells <- MCCells
  ReadOnly = {}
  Code <- ThreadCode
  BootRegs <- ThreadBootRegs
  BootCtl <- ThreadBootCtl
  BootMem <- ThreadBootMem
  Counter = 512
  Scratch = 520
  RoundsA = 3
  RoundsB = 3
  Breaks = TRUE
  Periods = {9, 10, 11, 12, 13, 14}
SPECIFICATION FairSpec
INVARIANTS
  NoLostUpdate
  CounterTracksRounds
PROPERTY BothFinish
