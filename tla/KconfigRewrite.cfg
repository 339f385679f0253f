SPECIFICATION Spec
CONSTANTS
  Ty <- MCTy
  Exprs <- MCExprs
  Probes <- MCProbes
  Assignments <- MCAssignments
INVARIANTS  NestedUnderWhatItNeeds UnmetSelectsAreNamed PrintsWhatItMeans
CHECK_DEADLOCK FALSE
