SPECIFICATION Spec
CONSTANTS
  Dir = {g1, g2}
  File = {f1, f2}
  Er = er
  ErLength = 4
  Lengths <- TwoAndThree
  BlockSize = 8
  ForeignBlocks = 2
  MaxOpens = 0
  Faults = {"overflow"}
CHECK_DEADLOCK FALSE
INVARIANTS
  EveryRecordPlaced
