SPECIFICATION Spec
CONSTANTS
  PerBlock = 5
  NameEntries = 3
  Blocks = 1
  DataLength = 1
  Names <- MCNames
  Bytes <- MCBytes
  Shells = {s1, s2}
  MaxFiles = 2
  MaxLength = 2
  MaxCrashes = 0
INVARIANT
  Reserved
