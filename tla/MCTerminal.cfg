SPECIFICATION TerminalSpec
CONSTANTS
  Columns = 2
  Rows = 2
  Word = 8
  Letters = {5}
  Blank = 0
  NL = 8
  CR = 9
  Coordinates = {0, 1, 7}
  MaxPaper = 4
  Glyph <- MCGlyph
  Attached <- MCMessage
  Overflow <- MCMessage
  Heads <- MCHeads
  Moves <- MCMoves
  XMax = 2
  YMax = 1
  Printable = {5}
  Nul = 0
  LineEnd = 8
  Return = 9
  Tab = 10
  TabWidth = 1
  LastColumn = 3
  MaxRows = 4
  C_BUFSIZE = 3
  CharKeys <- MCKeys
  scan_code <- MCScanCode
  control <- MCControl
  Undefined = "377"
  LF = "nl"
  EOT = "eot"
  LineSizes = {1, 3}
  HexDigits = 2
  OctDigits = 3
  MinQuotient = 12
  MinDigit = 8
  Widths = {0, 2, 4, 6}
  MaxLine = 5
  DEFAULT_SCREENS = 4
  GONE = 3
  Taken = {2, 3}
  MAX_PID = 5
  Keys <- McKeys
  Sizes = {0, 2}
  MAX_TYPED = 3
INVARIANTS
  OneScreenEach HolderWaits
  ShowsWhatIsWritten
  PointerAgrees
  PrintedStays
  ReadsBack
PROPERTIES
  ReadsWhatWasTyped
  ReadsWhatIsTyped
