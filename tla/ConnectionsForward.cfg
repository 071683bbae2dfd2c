SPECIFICATION Spec
CONSTANTS
  Tasks = {t1, t2}
  Names = {n1, n2}
  Directions = {"forward"}
  Procs = {p1, p2, p3}
  t1 = t1
  t2 = t2
  n1 = n1
  n2 = n2
  p1 = p1
  p2 = p2
  p3 = p3
  None = None
  Operations = {"create", "delete", "update_task"}
SYMMETRY Symmetry
INVARIANTS
  TypeOK
  ReferencesHold
CHECK_DEADLOCK FALSE
