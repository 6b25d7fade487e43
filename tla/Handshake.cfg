CONSTANTS
  P = 101
  A2 = 3
  B2 = 19
  BaseX = 5
  Bits = 8
  MaxAttempts = 2
  alice = alice
  bob = bob
  Party <- MCParty
  Exposed <- MCExposed
SPECIFICATION Spec
INVARIANTS
  TypeOK
  PublicNamesMultiple
  SharedSecretsAgree
  ErrExactlyOnIdentity
  RoundTrip
CHECK_DEADLOCK FALSE
