--------------------------------- MODULE MCWots ---------------------------------
(***************************************************************************)
(* TLC instances of Wots.                                                  *)
(***************************************************************************)
EXTENDS Wots, FiniteSetsExt

MCWeight == [k \in 0 .. Xi2 |-> Base ^ k]

\* A step function that depends on the counter, with one collision per step.
MCStep == [x \in Value \X (0 .. WMax - 1) |->
             (3 * (IF x[1] = 6 THEN x[2] ELSE x[1]) + 2 * x[2] + 1) % 7]

\* Two elements start from the same value.
MCSecretKeys == {[t \in Element |-> <<2, 5, 0, 5>>[t + 1]]}

\* The digits of every hash, by their definition.
MCDigits(hash) ==
  LET d(n) == HashDigit(hash, n)
      c    == MapThenSumSet(LAMBDA n : WMax - d(n), 0 .. Xi1 - 1)
  IN  [t \in Element |-> IF t < Xi1 THEN d(t) ELSE (c \div Base ^ (Xi - 1 - t)) % Base]

MCDisclosures == {MCDigits(hash) : hash \in Hashes}
===============================================================================
