SPECIFICATION Spec
CONSTANTS
  Consts <- MCConsts
  Versions <- MCVersions
  Seed <- MCSeed
  Requests <- MCRequests
  MaxCommands = 3
INVARIANTS FilesAreLegal SavedIsStable AutoMarksCompletion CommandsEnd LoopsAreReported
PROPERTIES DefconfigReproduces ConfigIsKept ChangedIsTouched
CHECK_DEADLOCK FALSE
