SPECIFICATION Spec
CONSTANTS
  DEFAULT_SCREENS = 4
  GONE = 3
  Taken = {2, 3}
  MAX_PID = 5
  Keys <- McKeys
  Sizes = {0, 2}
  MAX_TYPED = 3
PROPERTY SomePromiseOfReadsKept
