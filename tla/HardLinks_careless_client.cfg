SPECIFICATION Spec
CONSTANTS
  d1 = d1
  d2 = d2
  d3 = d3
  None = None
  Data = {d1, d2}
  Rec = {r1, r2, r3}
  IsoPath = {i1, i2}
  JolietPath = {}
  UdfPath = {u1}
  BigFiles <- NoBigFiles
  MaxEntries = 2
  Faults = {"hide_catalog"}
CHECK_DEADLOCK FALSE
INVARIANTS
  UdfFileCount
