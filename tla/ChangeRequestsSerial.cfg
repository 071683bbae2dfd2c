SPECIFICATION Spec
CONSTANTS
  Handlers = {h1, h2}
  Ids = {i1, i2}
  Files = {f1}
  Contents = {0, 1, 9}
  Blank = 0
  Trim <- MCTrim
  None = None
  Faults = {"commit"}
  Overlap = FALSE
  MaxRev = 2
  MaxCrashes = 0
SYMMETRY Symmetry
CHECK_DEADLOCK FALSE
INVARIANTS NoLostUpdate ConflictHasCause
PROPERTIES ImplementsReviewedEdits
