SPECIFICATION Spec
CONSTANTS
  BUF_SIZE = 3
  Procs = {p1, p2}
  Init1 = p1
  Chars = {a}
  CR = CR
  LF = LF
  NONE = NONE
  MAX_IN = 4
  MAX_OUT = 0
PROPERTIES ReadDelivers
