SPECIFICATION Spec
CONSTANTS
  Name <- Names
  Latin <- InLatin
  Ucs2 <- InUcs2
  Utf8 <- InUtf8
  ByteLength <- Bytes
  None = "none"
  Lengths = {0, 2}
  MaxExtent = 1
  BlockSize = 124
  Entries = {1, 2, 3, 4, 5}
  MaxCalls = 4
  Faults = {}
INVARIANTS
  TypeOK
  TreeKept
  LayoutExact
