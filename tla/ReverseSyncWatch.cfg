SPECIFICATION FairSpec
CONSTANTS
  c1 = c1
  c2 = c2
  n1 = n1
  n2 = n2
  v = v
  w = w
  None = None
  Objects = {c1, c2}
  ConfigMaps = {c1, c2}
  Namespaces = {n1, n2}
  NamespaceOf <- MCNamespaceOf
  Contents = {v, w}
  ChannelSize = 1
  Faults = {"open", "close", "read", "list", "probe", "commit", "reply"}
  Overlap = FALSE
  MaxEdits = 1
  MaxFaults = 1
INVARIANTS
  TypeOK
  NothingForgotten
PROPERTIES
  CatchesUp
CHECK_DEADLOCK FALSE
