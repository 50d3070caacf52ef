SPECIFICATION Spec
CONSTANTS
  Name = {a, b}
  RrMoved = RR_MOVED
  None = None
  Levels = 2
  TableFit = 3
  MaxDepth = 4
  MaxRecs = 9
  MaxPvds = 1
  Faults = {}
SYMMETRY NameSymmetry
CHECK_DEADLOCK FALSE
INVARIANTS
  TypeOK
  LinksResolve
  BelowRrMoved
  SpaceExact
PROPERTIES
  DirTreeSpec
