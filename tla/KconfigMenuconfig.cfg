SPECIFICATION Spec
CONSTANTS
  Consts <- MCConsts
  Statements <- MCStatements
  Disks <- MCDisks
  Names <- MCNames
  Typed <- MCTyped
  Patterns <- MCPatterns
  MaxSteps = 3
INVARIANTS ShownIsCurrent StatementsHold AcceptedTakesEffect QuietExitLosesNothing JumpsLead
CHECK_DEADLOCK FALSE
