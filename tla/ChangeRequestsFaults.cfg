SPECIFICATION Spec
CONSTANTS
  Handlers = {h1, h2}
  Ids = {i1}
  Files = {f1}
  Contents = {0, 1}
  Blank = 0
  Trim <- MCTrim
  None = None
  Faults = {"read", "commit", "lost_reply", "save", "crash"}
  Overlap = TRUE
  MaxRev = 2
  MaxCrashes = 1
SYMMETRY Symmetry
CHECK_DEADLOCK FALSE
INVARIANTS TypeOK ApprovedWasCommitted CommitsWhatWasReviewed CheckedVersionIsReplaced
PROPERTIES DeletedStaysDeleted
