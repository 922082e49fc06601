CONSTANTS
  N_PCBS = 3
  N_PRIOS = 2
  STD_QUANTUM = 1
  TIME_MOD = 4
  PID_MOD = 8
  PRIO_MOD = 4
  BUF_SIZE = 1
  MAX_PID = 4
  PrioArgs = {0, 1}
  SleepArgs = {0, 1}
  TimeArgs = {}
SPECIFICATION Spec
PROPERTY KilledIsErased
