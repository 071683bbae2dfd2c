SPECIFICATION FairSpec
CONSTANTS
  Tasks = {t1}
  Names = {n1}
  Directions = {"forward"}
  Procs = {p1, p2}
  t1 = t1
  n1 = n1
  p1 = p1
  p2 = p2
  None = None
  Operations = {"create", "delete"}
PROPERTIES
  RequestsAnswer
CHECK_DEADLOCK FALSE
