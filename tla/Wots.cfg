\* Digits of two bits, one byte of hash, two digits of checksum.
\* The system stops after the verification.
SPECIFICATION Spec
CONSTANTS
  Base = 4
  Xi1 = 2
  Xi2 = 2
  Weight <- MCWeight
  Value = {0, 1, 2, 3, 4, 5, 6}
  Step <- MCStep
  SecretKeys <- MCSecretKeys
  Disclosures <- MCDisclosures
CHECK_DEADLOCK FALSE
INVARIANTS
  TypeOK
  OwnSignatureVerifies
  AcceptedIsGenuine
  OtherHashNotCovered
