------------------------------ MODULE DgmtParams ------------------------------
(***************************************************************************)
(* Parameters of a DGMT community and the index arithmetic every DGMT      *)
(* operation shares: the sets the indices i, j, k, l range over, the order *)
(* in which a member's keys are handed out, the interval of leaves a       *)
(* member owns and the shuffle that hides it.                              *)
(*                                                                         *)
(* Source: crates/knee-tie-crypto/src/dgmt/{params,keygen,join}.rs.        *)
(***************************************************************************)
EXTENDS Integers, FiniteSets

CONSTANTS
  NumFn,     \* fallback nodes of the IMT, 2^(hI+1) - 2
  Gamma,     \* SMTMTs per fallback node
  Alpha,     \* leaves of an SMT(1) and of an SMT(2), 2^hS
  Beta,      \* leaves of one SMT(2) that one member owns
  NMax,      \* largest member id
  SortVal    \* g1(shuffle_key, i||j||k||l): the values compute_shuffle sorts

Fn    == 1 .. NumFn
Smtmt == 1 .. Gamma
Leaf  == 0 .. Alpha - 1
Ids   == 1 .. NMax

\* What DgmtParams::new accepts, less the bounds on hI and hS that no
\* property needs.  gamma = 0, which `new` also accepts, is left out: that
\* community has no fallback key, so no signature of it ever verifies.
ASSUME ParamsAssumption ==
  /\ NumFn \in Nat
  /\ Gamma \in Nat \ {0}
  /\ NMax  \in Nat \ {0}
  /\ Beta  \in Nat /\ Beta >= 2
  /\ Alpha = Beta * NMax

ASSUME SortValAssumption ==
  SortVal \in [Fn \X Smtmt \X Leaf \X Leaf -> Nat]

-------------------------------------------------------------------------------
(***************************************************************************)
(* The allocation pointer of a member at a fallback node is the tuple      *)
(* (j, k, l) of MemberRecord.index_state; its l counts from the start of   *)
(* the member's own interval and never exceeds beta - 2.                   *)
(***************************************************************************)
\* Mutant: the last leaf of the interval is issued too.
LastLocalWholeInterval == Beta - 1

\* The largest l the pointer takes; leaf beta - 1 of an interval stays unused.
LastLocal == Beta - 2

Pointer  == Smtmt \X Leaf \X (0 .. LastLocal)
FirstPtr == <<1, 0, 0>>

\* j is outermost, then k, then l.
Precedes(p, q) ==
  \/ p[1] < q[1]
  \/ p[1] = q[1] /\ p[2] < q[2]
  \/ p[1] = q[1] /\ p[2] = q[2] /\ p[3] < q[3]

AtOrBefore(p, q) == p = q \/ Precedes(p, q)

\* None of the three branches that advance the pointer applies.
Exhausted(p) ==
  /\ ~ p[3] < LastLocal
  /\ ~ (p[3] = LastLocal /\ p[2] < Alpha - 1)
  /\ ~ (p[3] = LastLocal /\ p[2] = Alpha - 1 /\ p[1] < Gamma)

\* Mutant: the step to the next SMTMT forgets to increment j.
AdvanceWithinSmtmt(p) ==
  IF p[3] < LastLocal THEN <<p[1], p[2], p[3] + 1>>
  ELSE IF p[2] < Alpha - 1 THEN <<p[1], p[2] + 1, 0>>
  ELSE <<p[1], 0, 0>>

Advance(p) ==
  IF p[3] < LastLocal THEN <<p[1], p[2], p[3] + 1>>
  ELSE IF p[2] < Alpha - 1 THEN <<p[1], p[2] + 1, 0>>
  ELSE <<p[1] + 1, 0, 0>>

\* Mutant: the index local to the interval is used as the index in the tree.
LAbsoluteWithoutOffset(id, l) == l

\* Member id owns the leaves (id-1)*beta .. id*beta - 1 of every SMT(2).
LAbsolute(id, l) == l + (id - 1) * Beta

\* The stable sort of compute_shuffle, as the rank of l among all leaves.
ComputeShuffle(i, j, k) ==
  [l \in Leaf |->
     Cardinality({m \in Leaf :
        \/ SortVal[<<i, j, k, m>>] < SortVal[<<i, j, k, l>>]
        \/ /\ SortVal[<<i, j, k, m>>] = SortVal[<<i, j, k, l>>]
           /\ m < l})]

Shuffle == [t \in Fn \X Smtmt \X Leaf |-> ComputeShuffle(t[1], t[2], t[3])]

\* compute_dgmt_pos applies a permutation keyed by msk to i||j||k||l: the tag
\* of a leaf is the image of the 4-tuple, which stands for it here.
DgmtPos == Fn \X Smtmt \X Leaf \X Leaf
===============================================================================
