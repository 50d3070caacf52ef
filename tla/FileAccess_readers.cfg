SPECIFICATION Spec
CONSTANTS
  a = a
  b = b
  c1 = c1
  c2 = c2
  d = d
  File <- Inodes
  Of <- Data
  Size <- ObjectSizes
  Streams = {s, t}
  Sizes = {1, 2}
  Offsets <- Places
  MaxOffset = 2
  None = None
  Faults = {}
SYMMETRY StreamSymmetry
INVARIANTS
  ReadsOwn
