SPECIFICATION PkgSpec
CONSTANTS
  Proc = {p1}
  p1 = p1
  Base = "src.tar"
  Name <- MCName
  Content <- MCContent
  HashFiles <- MCHashFiles
  PkgHashes <- MCPkgHashes
  Served <- MCServed
  Stale <- MCStaleBad
  Faults = {"backend", "check", "command", "bare", "kill"}
INVARIANTS OkMeansHashedFile SuccessMeansFile
PROPERTIES EveryRecipeEnds
CHECK_DEADLOCK TRUE
