SPECIFICATION FairSpec
CONSTANTS
  f1 = f1
  f2 = f2
  None = None
  Edited = Edited
  Files = {f1}
  Faults = {"tree", "read", "list", "apply", "reply"}
  MaxCommits = 2
  MaxEdits = 1
  MaxFaults = 1
  MaxRequests = 2
INVARIANTS
  TypeOK
PROPERTIES
  SuccessIsTrue
  Converges
CHECK_DEADLOCK FALSE
