CONSTANTS
  Regs <- MCRegs
  WordSize = 512
  TimeSize = 4
  Cells <- MCCells
  ReadOnly = {}
  Code <- MCCode
  BootRegs <- MCBootRegs
  BootCtl <- MCBootCtl
  BootMem <- MCBootMem
  UserCode <- MCUserCode
  HandlerCode <- MCHandlerCode
  UserSie = 1
SPECIFICATION Spec
INVARIANTS
  TypeOK
  PrivilegeFollowsCode
  HandlerMasked
  UserKeepsSie
  SavedContext
PROPERTIES
  ExceptionSurvivesTick
  EntryIsExact
