SPECIFICATION Spec
CONSTANTS
  d1 = d1
  d2 = d2
  d3 = d3
  None = None
  Data = {d1, d2, d3}
  Rec = {r1, r2, r3, r4, r5}
  IsoPath = {i1, i2}
  JolietPath = {j1}
  UdfPath = {}
  BigFiles <- TwoSegments
  MaxEntries = 2
  Faults = {}
CHECK_DEADLOCK FALSE
INVARIANTS
  WholeFiles
  NamesAreFiles
