SPECIFICATION Spec
CONSTANTS
  Procs = {p1, p2}
  p1 = p1
  p2 = p2
  Window = 2
  CleanEvery = 2
  PageSize = 1
  Filters <- AllAndRecent
  MaxClock = 6
  MaxFaults = 2
  MaxRestarts = 2
SYMMETRY Symmetry
INVARIANTS
  TypeOK
  UnsavedIsPending
  ExpiredStaysGone
  PagesMissNothing
PROPERTIES
  RestartKeepsRecords
CHECK_DEADLOCK FALSE
