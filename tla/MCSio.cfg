SPECIFICATION FairSpec
CONSTANTS
  BUF_SIZE = 3
  Procs = {p1, p2}
  Init1 = p1
  Chars = {a}
  CR = CR
  LF = LF
  NONE = NONE
  MAX_IN = 3
  MAX_OUT = 2
INVARIANTS InputInOrder OutputInOrder
PROPERTIES EverythingIsSent
