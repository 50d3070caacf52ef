SPECIFICATION Spec
CONSTANTS
  Name = {a, b}
  RrMoved = RR_MOVED
  None = None
  Levels = 2
  TableFit = 3
  MaxDepth = 4
  MaxRecs = 8
  MaxPvds = 2
  Faults = {"stale_rr_moved", "duplicate_pvd"}
SYMMETRY NameSymmetry
CHECK_DEADLOCK FALSE
INVARIANTS
  NamesApart
  LinksMutual
