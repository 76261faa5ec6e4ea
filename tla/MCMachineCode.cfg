CONSTANTS
  ByteBits = 2
  DataSize = 12
  Image <- MCImage
  Starts <- MCStarts
SPECIFICATION CodeSpec
INVARIANT ReadsBack
PROPERTY ExecutesAsWritten
