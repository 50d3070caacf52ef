SPECIFICATION Spec
CONSTANTS
  DirName <- Dirs
  FileName <- Files
  Segment = {1, 2}
  Length <- Lengths
  RrOrder <- Ranks
  DotsLength = 3
  BlockSize = 8
  MaxRrChildren = 5
  MaxLinks = 5
  Faults = {"duplicate_dir"}
CHECK_DEADLOCK FALSE
INVARIANTS
  TypeOK
  PlacesCurrent
  CountsFit
  LookupFinds
