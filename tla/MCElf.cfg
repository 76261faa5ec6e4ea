CONSTANTS
  Objects <- MCObjects
  SymbolNames <- MCSymbolNames
  BaseAddr = 1048576
  WordSize = 1073741824
SPECIFICATION WriteElf
INVARIANTS
  ElfTypeOK
  FileIsWhatItSays
  LoadsWhereLinked
  TablesLinked
  SymbolsResolve
