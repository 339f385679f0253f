SPECIFICATION Spec
CONSTANTS
  Tables <- MCTables
  Skeletons <- MCSkeletons
  Passwd <- MCPasswd
  Group <- MCGroup
  MaxImages = 2
INVARIANTS
  ImagesAreDescribed
  ImagesAgree
CHECK_DEADLOCK FALSE
