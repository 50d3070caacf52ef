SPECIFICATION Spec
CONSTANTS
  Kinds <- SomeKinds
  NFiles = 2
  Lengths = {0, 2}
  Placements <- Places
  Foreign <- Others
  MaxCalls = 3
  Faults = {}
INVARIANTS
  TypeOK
  WrittenOpens
  FilesIntact
  SpaceExact
  DescriptorsKept
