CONSTANTS
  cd1 = cd1
  cd2 = cd2
  CDs <- MCCDs
  MaxAPIErrors = 2
  MaxRestarts = 2
SPECIFICATION Spec
INVARIANT TypeOK
PROPERTY LifecycleRefinement DeletionCompletes
\* The controller idles once every domain has been created and removed.
CHECK_DEADLOCK FALSE
