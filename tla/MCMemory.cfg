CONSTANTS
  AddrSize = 5
  Byte = {0, 1}
  Device = {uart}
  Kinds = {"ram", "mmio"}
  Bases = {0, 2}
  Sizes = {0, 1, 2}
  Widths = {2}
  MaxRegions = 2
VIEW MCView
SPECIFICATION Spec
INVARIANT TypeOK
PROPERTY ImplementsStore
