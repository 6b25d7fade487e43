---------------------------------- MODULE Sprp ----------------------------------
(***************************************************************************)
(* The keyed permutation of DGMT: two Feistel rounds over blocks of two    *)
(* halves.  It turns fallback nodes into fallback keys (g1) and leaf       *)
(* indices into position tags (g2); both are undone later.                 *)
(*                                                                         *)
(* Source: crates/knee-tie-crypto/src/utils/sprp.rs.                       *)
(***************************************************************************)
CONSTANTS
  Half,     \* 16-byte halves
  Xor,      \* xor_blocks
  Aes128    \* aes128_encrypt, of a key half and a block

ASSUME SprpAssumption ==
  /\ Xor \in [Half \X Half -> Half]
  /\ Aes128 \in [Half \X Half -> Half]
  /\ \A a, b \in Half : Xor[<<Xor[<<a, b>>], b>>] = a

Block == Half \X Half

sprp_eval(key, x) ==
  LET y_l == Xor[<<x[2], Aes128[<<key[1], x[1]>>]>>]
  IN  <<y_l, Xor[<<x[1], Aes128[<<key[2], y_l>>]>>]>>

\* Mutant: the rounds are undone in the order they were made.
SprpInvForwards(key, y) ==
  LET x_l == Xor[<<y[2], Aes128[<<key[1], y[1]>>]>>]
  IN  <<x_l, Xor[<<y[1], Aes128[<<key[2], x_l>>]>>]>>

sprp_inv(key, y) ==
  LET x_l == Xor[<<y[2], Aes128[<<key[2], y[1]>>]>>]
  IN  <<x_l, Xor[<<y[1], Aes128[<<key[1], x_l>>]>>]>>
===============================================================================
