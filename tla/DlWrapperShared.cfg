SPECIFICATION Spec
CONSTANTS
  Proc = {p1, p2}
  p1 = p1
  p2 = p2
  Base = "src.tar"
  Name <- MCName
  Content <- MCContent
  HashFiles <- MCHashFiles
  Stale <- MCContent
  Faults = {"backend", "check", "command", "bare", "kill"}
SYMMETRY Invocations
INVARIANTS WrapperInv
PROPERTIES OnlyValidatedContentIsPublished ImplementsStore
CHECK_DEADLOCK TRUE
