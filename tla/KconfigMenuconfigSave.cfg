SPECIFICATION Spec
CONSTANTS
  Consts <- MCConsts
  Statements <- MCStatements
  Disks <- MCDisks
  Names <- MCBothNames
  Typed <- MCTyped
  Patterns <- MCPatterns
  MaxSteps = 2
PROPERTIES SaveSavesWhatIsShown
CHECK_DEADLOCK FALSE
