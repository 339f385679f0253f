SPECIFICATION Spec
CONSTANTS
  Pkg <- MCPkg
  Deps <- MCDeps
  Override = {"app"}
  Patched = {"lib"}
  Host = {"lib"}
  Staging = {"app", "hdr"}
  Images = {}
  NoTarget = {"hdr"}
  MaxVer = 2
  MaxFaults = 1
  HalfClean = {"app"}
  NewerOnly = TRUE
INVARIANTS StampsAgreeWithTrees UsesOnlyWhole RebuildBringsSource NextMakeIsIdle
CHECK_DEADLOCK TRUE
