\* hI = 2, gamma = 2, alpha = 4, beta = 2, words of four bits.
SPECIFICATION Spec
CONSTANTS
  NumFn = 6
  Gamma = 2
  Alpha = 4
  Beta = 2
  NMax = 2
  SortVal <- MCSortVal
  Half <- MCHalf
  Xor <- MCXor
  Aes128 <- MCAes128
  Bits = 4
  Word = 16
  ImtNode <- MCImtNode
  Gpk <- MCGpk
  Smt1Root <- MCSmt1Root
  Zero <- MCZero
  Messages = {m1, m2}
  Handed <- MCHanded
  Strays <- MCStrays
  MaxSigs = 2
  MaxListed = 1
SYMMETRY Symmetry
INVARIANTS
  TypeOK
  OwnSignatureVerifies
  AcceptedIsGenuine
  InnerKeySignsOneRoot
\* It stops after the verification.
CHECK_DEADLOCK FALSE
