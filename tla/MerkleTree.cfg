\* A tree of eight leaves over five hash values.
SPECIFICATION Spec
CONSTANTS
  Height = 3
  PowerOfTwo <- MCPowerOfTwo
  Digest = {0, 1, 2, 3, 4}
  Hash <- MCHash
  LeafInputs <- MCLeafInputs
  Wraps = {0, 1}
INVARIANTS
  TypeOK
  OwnPathVerifies
  AcceptedIsGenuine
