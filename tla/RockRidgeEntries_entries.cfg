SPECIFICATION Spec
CONSTANTS
  Requests <- Calls
  Foreign <- OtherTools
  MaxLinks = 2
  Blocks = {0, 9}
  Faults = {}
CHECK_DEADLOCK FALSE
INVARIANTS
  TypeOK
  ForeignKept
  ReadsBack
  WrittenOpens
  AreasExact
