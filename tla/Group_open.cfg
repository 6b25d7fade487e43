\* An opening of one signature held against another one of the same SMT(2).
SPECIFICATION GroupSpec
CONSTANTS
  NumFn = 2
  Gamma = 1
  Alpha = 4
  Beta = 2
  NMax = 2
  SortVal <- MCSortVal
  Requests = {1}
  Word = 16
  Verifiers = {v1, v2}
  Messages = {m1, m2}
  MaxSigs = 2
  MaxKeys = 2
SYMMETRY Symmetry
INVARIANTS
  ConsistentOpeningFitsLeaf
