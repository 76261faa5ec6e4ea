CONSTANTS
  Files <- MCFiles
  Root = "main"
  Missing = {"gone"}
  NonZero = {"1"}
  Sources <- MCSources
  Headers <- MCHeaders
  Newline = "newline"
  RootLines = 4
SPECIFICATION CSpec
INVARIANTS
  PlainFollowsC
  MacrosFollowC
  NestingBounded
