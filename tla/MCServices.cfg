SPECIFICATION MCSpec
CONSTANTS
  N_QNODES = 3
  N_QUEUES = 2
  Data = {8, 9}
  Keys = {0, 1}
  Entries <- MCEntries
  N_PCBS = 3
  STACK_PAGES = 2
  KERNEL_PAGES = 1
  RESERVE_PAGES = 9
  MAX_PAGES = 18
  MASK_PAGES = 16
  STATIC = {10}
  Values = {0, 1}
INVARIANTS
  NodesAccountedFor
  PagesAccountedFor NoPageShared NeverPanics
PROPERTIES
  ImplementsQueueSpec
  Implements
