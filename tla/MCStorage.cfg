SPECIFICATION MCSpec
CONSTANTS
  PerBlock = 5
  NameEntries = 2
  Blocks = 1
  DataLength = 2
  Names <- MCNames
  Bytes <- MCBytes
  MaxFiles = 2
  Strings <- MCStrings
  Offsets <- MCOffsets
  MaxLength = 4
  Word = 8
  Process = {p1}
  Base = 2
  Device <- MCDevice
  Asked <- MCAsked
  SectorData = {blank, other}
  Blank = blank
  Junk = junk
  PerIndex = 4
  Entries = 2
  UWord = 64
  Devices = 4
  Functions = 3
  Scan = 6
  Controllers <- MCControllers
  Starts <- MCStarts
  Sizes <- MCSizes
INVARIANTS
  SectorsAccountedFor
  BufferInPlace
PROPERTIES
  Implements
  ImplementsAtomicDisk
  CallsReturn
  PartitionsApart
  OneLetterEach
