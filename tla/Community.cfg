\* Two members, three epochs, both policies.
SPECIFICATION CommunitySpec
CONSTANTS
  NumFn = 2
  Gamma = 1
  Alpha = 4
  Beta = 2
  NMax = 2
  SortVal <- MCSortVal
  Requests = {}
  Word = 16
  MaxEpochs = 3
  WrongNumbers <- MCWrongNumbers
INVARIANTS
  CommunityTypeOK
  RevokedReadsNoLaterEpoch
  NothingBeforeJoin
  ActiveMembersCovered
PROPERTIES
  MembersCatchUp
