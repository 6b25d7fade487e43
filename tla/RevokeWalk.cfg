\* beta = 4 and gamma = 2: the walk takes each of its three branches.
\* The system stops once the member has been revoked MaxWalks times.
SPECIFICATION Spec
CONSTANTS
  NumFn = 2
  Gamma = 2
  Alpha = 4
  Beta = 4
  NMax = 1
  SortVal <- MCSortVal
  MaxWalks = 2
CHECK_DEADLOCK FALSE
INVARIANTS
  TypeOK
  WalkListsAllocated
  WalkListsInterval
PROPERTIES
  WalkTerminates
