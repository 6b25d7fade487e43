\* beta = 2, as in DgmtParams::for_testing.
\* The system stops once the member has been revoked MaxWalks times.
SPECIFICATION Spec
CONSTANTS
  NumFn = 2
  Gamma = 1
  Alpha = 4
  Beta = 2
  NMax = 2
  SortVal <- MCSortVal
  MaxWalks = 2
CHECK_DEADLOCK FALSE
INVARIANTS
  EntryCountIsExact
