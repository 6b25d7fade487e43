---------------------------- MODULE MCSignatureChain ----------------------------
(***************************************************************************)
(* TLC instance of SignatureChain: halves of four bits, two interchangeable   *)
(* messages.                                                               *)
(***************************************************************************)
EXTENDS SignatureChain, TLC

Bit(n, b) == (n \div 2 ^ b) % 2

MCHalf == 0 .. 15
MCXor ==
  [p \in MCHalf \X MCHalf |->
     LET b(n) == (Bit(p[1], n) + Bit(p[2], n)) % 2
     IN  b(0) + 2 * b(1) + 4 * b(2) + 8 * b(3)]
\* A permutation under each key; the keys 14 and 15 are one.
MCAes128 ==
  [p \in MCHalf \X MCHalf |->
     LET k == IF p[1] = 15 THEN 14 ELSE p[1]
     IN  (5 * p[2] + k * (2 * p[2] + 1) + 9) % 16]

MCImtNode  == [i \in Fn |-> <<(3 * i) % 16, (5 * i + 2) % 16>>]
MCSmt1Root == [t \in Fn \X Smtmt |-> <<2 * t[1] + t[2] - 2, (7 * t[1] + t[2]) % 16>>]

\* Undoing a fallback key with a stray value yields it, by coincidence.
MCGpk      == <<5, 3>>

MCZero     == <<0, 0>>

\* The first is, as a key, the same as the root of SMT(1)_{2,1}.
MCStrays == {<<3, 14>>, <<0, 0>>}

Symmetry == Permutations(Messages)

MCSortVal ==
  [t \in Fn \X Smtmt \X Leaf \X Leaf |-> (3 * t[4] + t[1] + 2 * t[2] + t[3]) % 4 \div 2]

\* Two leaves of one SMT(2), one of another SMT(2) of that SMT(1), one of
\* another SMTMT, and nodes of both depths.
MCHanded ==
  {<<1, 2, 0, 1>>, <<1, 2, 0, 3>>, <<1, 2, 3, 0>>, <<2, 1, 0, 1>>, <<6, 2, 2, 2>>}
===============================================================================
