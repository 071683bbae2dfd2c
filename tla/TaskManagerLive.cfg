SPECIFICATION FairSpec
CONSTANTS
  Tasks = {t1}
  Configs = {s}
  Periodic = {s}
  Tokens = {n}
  Procs = {p1, p2}
  Loops = {l1, l2}
  t1 = t1
  s = s
  n = n
  p1 = p1
  p2 = p2
  l1 = l1
  l2 = l2
  None = None
  Operations = {"pause", "delete"}
  Overlap = TRUE
  MaxRestarts = 1
PROPERTIES
  CancelledLoopEnds
  
CHECK_DEADLOCK FALSE
