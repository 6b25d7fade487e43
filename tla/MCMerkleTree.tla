------------------------------ MODULE MCMerkleTree ------------------------------
(***************************************************************************)
(* TLC instances of MerkleTree.                                            *)
(***************************************************************************)
EXTENDS MerkleTree

MCPowerOfTwo == [d \in 0 .. Height |-> 2 ^ d]

\* A small hash function: every value has five preimages and order matters.
MCHash == [pair \in Digest \X Digest |->
             LET x == pair[1]
                 y == pair[2]
             IN  (4 * x * x + 4 * y * y + 3 * x * y + 3 * y + 1) % 5]

\* With these leaves no inner node is the hash of its children swapped.
MCLeafInputs == {[l \in 0 .. N - 1 |-> <<0, 1, 2, 3, 4, 1, 3, 2>>[l + 1]]}
===============================================================================
