SPECIFICATION Spec
CONSTANTS
  User <- MCUser
  Group <- MCGroup
  MinId = 2
  MaxId = 3
  Homes <- MCHomes
  Below <- MCBelow
  Tables <- MCTables
  SkelPasswd <- MCPasswd
  SkelGroup <- MCSkelGroup
  MaxRuns = 3
  MaxBreaks = 1
INVARIANTS UidsUnique TablesAreObeyed AccountsAreStable
CHECK_DEADLOCK FALSE
