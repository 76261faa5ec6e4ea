CONSTANTS
  Lines = 4
  Sources <- MCSources
  Registers <- MCRegisters
  Mnemonics <- MCMnemonics
  Escape <- MCEscape
  Branches <- MCBranches
  Garbage <- MCGarbage
SPECIFICATION ASpec
INVARIANTS
  PassesAlign
  PlainIsComplete
