CONSTANTS
  cd1 = cd1
  cd2 = cd2
  CDs <- MCCDs
  MaxAPIErrors = 1
  MaxRestarts = 0
SPECIFICATION Spec
INVARIANT NoOrphanedDependents
CHECK_DEADLOCK FALSE
