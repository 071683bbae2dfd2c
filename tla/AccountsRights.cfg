SPECIFICATION Spec
CONSTANTS
  Names = {"admin", "ann"}
  Admin = "admin"
  Kinds = {"task"}
  Clients = {c1, c2}
  c1 = c1
  c2 = c2
  None = None
  FeishuAccounts <- Accounts_
  Ops = {"create", "update", "delete", "grant", "revoke", "setup", "enable", "disable", "reset", "mfa", "token", "untoken"}
  Stored <- Installations
  MaxRequests = 3
  MaxFaults = 1
  MaxRestarts = 1
SYMMETRY Symmetry
INVARIANTS
  TypeOK
  AdminRemains
  EnabledHasSecret
  
PROPERTIES
  RightsAreAskedFor
  SecondFactorStays
CHECK_DEADLOCK FALSE
