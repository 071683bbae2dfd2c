SPECIFICATION Spec
CONSTANTS
  Kept = {image}
  Known = {restartPolicy}
  Unknown = {replicas}
  Blank = {resources}
  Runtime = {status}
  Assigned = {clusterIP}
  Ignored = {trafficPolicy}
  Type = Type
  Rolling = Rolling
  Default = Default
  Other = Other
  Empty = Empty
  Absent = Absent
  None = None
  Broken = Broken
  Drafts <- Drafts_
  MaxEdits = 2
INVARIANTS
  TypeOK
  
  ExportSettles

  
CHECK_DEADLOCK FALSE
