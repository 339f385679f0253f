SPECIFICATION Spec
CONSTANTS
  Proc = {p1, p2}
  p1 = p1
  p2 = p2
  Base = "src.tar"
  Name <- MCName
  Content <- MCContent
  HashFiles <- MCListedOnly
  Stale <- MCContent
  Faults = {}
PROPERTIES EvictsOnlyMismatch
CHECK_DEADLOCK TRUE
