SPECIFICATION Spec
CONSTANTS
  Dir = {g1, g2}
  File = {f1}
  Er = er
  ErLength = 3
  Lengths <- TwoAndThree
  BlockSize = 7
  ForeignBlocks = 1
  MaxOpens = 1
  Faults <- AllCircumstances
CHECK_DEADLOCK FALSE
INVARIANTS
  TypeOK
  PlacesApart
  PlacesTracked
  ReadsBack
