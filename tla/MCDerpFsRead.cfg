SPECIFICATION Spec
CONSTANTS
  PerBlock = 5
  NameEntries = 2
  Blocks = 1
  DataLength = 2
  Names <- MCNames
  Bytes <- MCBytes
  MaxFiles = 2
  Strings <- MCStrings
  Offsets <- MCOffsets
  MaxLength = 4
  Word = 8
CHECK_DEADLOCK FALSE
PROPERTY
  ReadsToTheEnd
