\* gamma = 2: the pointer moves from one SMTMT to the next (hI = 1, hS = 1,
\* beta = 2); requests of 0 keys, of more than the member has left, and
\* of 2 and 3 keys, whose budgets of attempts wrap to 0 and 4.
SPECIFICATION Spec
CONSTANTS
  NumFn = 2
  Gamma = 2
  Alpha = 2
  Beta = 2
  NMax = 1
  SortVal <- MCSortVal
  Requests = {0, 1, 2, 3}
  Word = 8
INVARIANTS
  UnusedLeafKept
PROPERTIES
  KeyDistReturns
