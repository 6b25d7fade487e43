\* The interaction of two members: hI = 1, hS = 2, gamma = 1, beta = 2.
SPECIFICATION Spec
CONSTANTS
  NumFn = 2
  Gamma = 1
  Alpha = 4
  Beta = 2
  NMax = 2
  SortVal <- MCSortVal
  Requests = {2}
  Word = 16
INVARIANTS
  TypeOK
  NoLeafIssuedTwice
  RevokedKeysListed
  ActiveKeysNotListed
PROPERTIES
  RevocationIsFinal
  DeliversWhatWasAsked
  HandsOutOneTimeKeys
