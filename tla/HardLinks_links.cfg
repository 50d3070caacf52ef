SPECIFICATION Spec
CONSTANTS
  d1 = d1
  d2 = d2
  d3 = d3
  None = None
  Data = {d1, d2}
  Rec = {r1, r2, r3, r4}
  IsoPath = {i1, i2}
  JolietPath = {j1}
  UdfPath = {u1}
  BigFiles <- NoBigFiles
  MaxEntries = 2
  Faults = {}
CHECK_DEADLOCK FALSE
INVARIANTS
  TypeOK
  LinksMatch
  DataIffNamed
  NoInternalError
  SpaceExact
PROPERTIES
  RemovalIsSelective
  CallsReturn
  FileStoreSpec
