SPECIFICATION Spec
CONSTANTS
  Name <- MCName
  Content <- MCContent
  HashFiles <- MCHashFiles
  Exempt <- MCExempt
  Faults = {"sum", "command"}
INVARIANTS VerdictsAreJustified
CHECK_DEADLOCK FALSE
