SPECIFICATION Spec
CONSTANTS
  Tasks = {t1, t2}
  Configs = {m, s}
  Periodic = {s}
  Tokens = {n, k}
  Procs = {p1, p2}
  Loops = {l1, l2, l3}
  t1 = t1
  t2 = t2
  m = m
  s = s
  n = n
  k = k
  p1 = p1
  p2 = p2
  l1 = l1
  l2 = l2
  l3 = l3
  None = None
  Operations = {"pause", "edit", "token", "delete", "sync", "apply", "shutdown", "crash", "sync_error", "resolve"}
  Overlap = FALSE
  MaxRestarts = 2
SYMMETRY Symmetry
INVARIANTS
  OneLoop
  StoppedIsQuiet
  
  StoredRunningRuns
CHECK_DEADLOCK FALSE
