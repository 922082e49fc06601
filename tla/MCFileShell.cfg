SPECIFICATION Spec
CONSTANTS
  PerBlock = 5
  NameEntries = 3
  Blocks = 1
  DataLength = 1
  Names <- MCNames
  Bytes <- MCBytes
  Shells = {s1}
  MaxFiles = 2
  MaxLength = 2
  MaxCrashes = 2
INVARIANTS
  PointersMarked
  NamesLeadToFiles
  LeaksOnlyByCrash
