\* A member with keys left draws them one at a time until a call gives up.
SPECIFICATION Spec
CONSTANTS
  NumFn = 2
  Gamma = 2
  Alpha = 2
  Beta = 2
  NMax = 1
  SortVal <- MCSortVal
  Requests = {1}
  Word = 16
PROPERTIES
  NoKeysRemainingMeansExhausted
