--------------------------- MODULE DgmtParams_proofs ---------------------------
(***************************************************************************)
(* Facts about the index arithmetic of DgmtParams, for all parameters.     *)
(***************************************************************************)
EXTENDS DgmtParams, FiniteSetTheorems, TLAPS

LEMMA ParamTypes ==
  /\ Alpha \in Nat /\ Alpha >= 2
  /\ Beta \in Nat /\ Beta >= 2
  /\ Gamma \in Nat /\ Gamma >= 1
  /\ LastLocal \in Nat /\ LastLocal = Beta - 2
<1>1. Beta \in Nat /\ Beta >= 2 /\ NMax \in Nat /\ NMax >= 1 /\ Gamma \in Nat /\ Gamma >= 1
  BY ParamsAssumption
<1>2. Beta * NMax \in Nat /\ Beta * NMax >= Beta
  BY <1>1
<1> QED BY <1>1, <1>2, ParamsAssumption DEF LastLocal

\* Advancing a pointer that is not exhausted stays in the index space.
LEMMA AdvanceType ==
  ASSUME NEW p \in Pointer, ~ Exhausted(p)
  PROVE  Advance(p) \in Pointer
BY ParamTypes DEF Pointer, Exhausted, Advance, Smtmt, Leaf

\* Advance moves to the immediate successor in the order of allocation.
LEMMA AdvanceIsNext ==
  ASSUME NEW p \in Pointer, ~ Exhausted(p), NEW q \in Pointer
  PROVE  AtOrBefore(q, Advance(p)) <=> AtOrBefore(q, p) \/ q = Advance(p)
BY ParamTypes DEF Pointer, Exhausted, Advance, Smtmt, Leaf, AtOrBefore, Precedes

LEMMA AdvanceIsAfter ==
  ASSUME NEW p \in Pointer, ~ Exhausted(p)
  PROVE  /\ Precedes(p, Advance(p))
         /\ ~ AtOrBefore(Advance(p), p)
         /\ Precedes(FirstPtr, Advance(p))
BY ParamTypes DEF Pointer, Exhausted, Advance, Smtmt, Leaf, AtOrBefore, Precedes, FirstPtr

LEMMA FirstPtrType == FirstPtr \in Pointer
BY ParamTypes DEF FirstPtr, Pointer, Smtmt, Leaf

\* Products and quotients by a factor that is not a number.
LEMMA MulGrows ==
  ASSUME NEW w \in Nat, NEW a \in Nat, NEW b \in Nat, a < b
  PROVE  w * b >= w * a + w
<1>1. PICK k \in Nat : b = a + 1 + k
  BY b - a - 1 \in Nat
<1>2. w * (a + 1 + k) = w * a + w + w * k
  OBVIOUS
<1>3. w * k >= 0
  OBVIOUS
<1>4. w * a \in Nat /\ w * k \in Nat
  OBVIOUS
<1> QED BY <1>1, <1>2, <1>3, <1>4

LEMMA DivUnique ==
  ASSUME NEW x \in Nat, NEW w \in Nat \ {0}, NEW s \in Nat, NEW t \in 0 .. w - 1, x = w * s + t
  PROVE  x \div w = s
<1> DEFINE q == x \div w
<1>1. q \in Nat /\ w * q <= x /\ x < w * q + w
  OBVIOUS
<1>2. w * s \in Nat /\ w * q \in Nat
  BY <1>1
<1> HIDE DEF q
<1>3. ~ q < s /\ ~ s < q
  BY <1>1, <1>2, MulGrows
<1> QED BY <1>1, <1>3 DEF q

\* Intervals of members lie inside the tree and do not meet.
LEMMA LAbsoluteType ==
  ASSUME NEW id \in Ids, NEW l \in 0 .. Beta - 1
  PROVE  LAbsolute(id, l) \in Leaf
<1>1. id - 1 \in Nat /\ id - 1 <= NMax - 1 /\ l \in Nat /\ l <= Beta - 1
  BY ParamTypes, ParamsAssumption DEF Ids
<1>2. (id - 1) * Beta \in Nat /\ (id - 1) * Beta <= (NMax - 1) * Beta
  BY <1>1, ParamTypes, ParamsAssumption
<1>3. (NMax - 1) * Beta = Alpha - Beta
  BY ParamTypes, ParamsAssumption
<1> QED BY <1>1, <1>2, <1>3, ParamTypes DEF LAbsolute, Leaf

LEMMA LAbsoluteInjective ==
  ASSUME NEW id1 \in Ids, NEW id2 \in Ids,
         NEW l1 \in 0 .. Beta - 1, NEW l2 \in 0 .. Beta - 1,
         LAbsolute(id1, l1) = LAbsolute(id2, l2)
  PROVE  id1 = id2 /\ l1 = l2
<1>1. ASSUME NEW a \in Ids, NEW b \in Ids, NEW x \in 0 .. Beta - 1, NEW y \in 0 .. Beta - 1, a < b
      PROVE  LAbsolute(a, x) < LAbsolute(b, y)
  <2>1. (b - 1) * Beta >= a * Beta
    BY <1>1, ParamTypes, ParamsAssumption DEF Ids
  <2>2. a * Beta = (a - 1) * Beta + Beta
    BY <1>1, ParamTypes, ParamsAssumption DEF Ids
  <2> QED BY <1>1, <2>1, <2>2, ParamTypes, ParamsAssumption DEF Ids, LAbsolute
<1>2. LAbsolute(id1, l1) \in Int /\ LAbsolute(id2, l2) \in Int
  BY ParamTypes, ParamsAssumption DEF Ids, LAbsolute
<1>3. id1 = id2
  <2>1. ~ id1 < id2 BY <1>1, <1>2
  <2>2. ~ id2 < id1 BY <1>1, <1>2
  <2> QED BY <2>1, <2>2, ParamsAssumption DEF Ids
<1> QED BY <1>3, ParamTypes, ParamsAssumption DEF Ids, LAbsolute

-------------------------------------------------------------------------------
(***************************************************************************)
(* The shuffle of every SMT(2) is injective: a stable sort gives no two    *)
(* leaves the same rank, whatever the sort values, ties included.          *)
(***************************************************************************)
\* What compute_shuffle sorts before leaf l.
Before(t, l) ==
  {m \in Leaf :
     \/ SortVal[<<t[1], t[2], t[3], m>>] < SortVal[<<t[1], t[2], t[3], l>>]
     \/ /\ SortVal[<<t[1], t[2], t[3], m>>] = SortVal[<<t[1], t[2], t[3], l>>]
        /\ m < l}

LEMMA LeafFinite == IsFiniteSet(Leaf) /\ Cardinality(Leaf) = Alpha
<1>1. 0 \in Int /\ Alpha - 1 \in Int /\ ~ 0 > Alpha - 1
  BY ParamTypes
<1> QED BY <1>1, FS_Interval, ParamTypes DEF Leaf

LEMMA SortValType ==
  ASSUME NEW t \in Fn \X Smtmt \X Leaf, NEW l \in Leaf
  PROVE  SortVal[<<t[1], t[2], t[3], l>>] \in Nat
BY SortValAssumption

LEMMA ShuffleIsRank ==
  ASSUME NEW t \in Fn \X Smtmt \X Leaf, NEW l \in Leaf
  PROVE  Shuffle[t][l] = Cardinality(Before(t, l))
BY DEF Shuffle, ComputeShuffle, Before

LEMMA BeforeFinite ==
  ASSUME NEW t \in Fn \X Smtmt \X Leaf, NEW l \in Leaf
  PROVE  /\ Before(t, l) \in SUBSET Leaf
         /\ IsFiniteSet(Before(t, l))
         /\ Cardinality(Before(t, l)) \in Nat
<1>1. Before(t, l) \in SUBSET Leaf
  BY DEF Before
<1>2. IsFiniteSet(Before(t, l))
  BY <1>1, LeafFinite, FS_Subset
<1> QED BY <1>1, <1>2, FS_CardinalityType

\* compute_shuffle maps the leaves of every SMT(2) to leaves.
LEMMA ShuffleType ==
  ASSUME NEW t \in Fn \X Smtmt \X Leaf, NEW l \in Leaf
  PROVE  Shuffle[t][l] \in Leaf
<1>1. Before(t, l) \in SUBSET Leaf /\ l \notin Before(t, l)
  BY SortValType, ParamTypes DEF Before, Leaf
<1>2. Cardinality(Before(t, l)) <= Cardinality(Leaf)
  BY <1>1, LeafFinite, FS_Subset
<1>3. Cardinality(Before(t, l)) # Cardinality(Leaf)
  BY <1>1, LeafFinite, FS_Subset
<1> QED BY <1>2, <1>3, BeforeFinite, LeafFinite, ShuffleIsRank, ParamTypes DEF Leaf

\* compute_shuffle sends no two leaves of an SMT(2) to the same place.
THEOREM ShuffleInjective ==
  ASSUME NEW t \in Fn \X Smtmt \X Leaf, NEW l1 \in Leaf, NEW l2 \in Leaf,
         Shuffle[t][l1] = Shuffle[t][l2]
  PROVE  l1 = l2
<1>1. ASSUME NEW a \in Leaf, NEW b \in Leaf, a \in Before(t, b)
      PROVE  Shuffle[t][a] # Shuffle[t][b]
  <2>1. Before(t, a) \subseteq Before(t, b)
    <3> SUFFICES ASSUME NEW m \in Before(t, a) PROVE m \in Before(t, b)
      OBVIOUS
    <3>1. m \in Leaf /\ m \in Int /\ a \in Int /\ b \in Int
      BY ParamTypes DEF Before, Leaf
    <3>2. /\ SortVal[<<t[1], t[2], t[3], m>>] \in Nat
          /\ SortVal[<<t[1], t[2], t[3], a>>] \in Nat
          /\ SortVal[<<t[1], t[2], t[3], b>>] \in Nat
      BY <3>1, SortValType
    <3> QED BY <1>1, <3>1, <3>2 DEF Before
  <2>2. a \notin Before(t, a)
    BY SortValType, ParamTypes DEF Before, Leaf
  <2>3. Cardinality(Before(t, b)) # Cardinality(Before(t, a))
    BY <1>1, <2>1, <2>2, BeforeFinite, FS_Subset
  <2> QED BY <2>3, ShuffleIsRank
<1>2. ASSUME l1 # l2
      PROVE  l1 \in Before(t, l2) \/ l2 \in Before(t, l1)
  <2>1. /\ SortVal[<<t[1], t[2], t[3], l1>>] \in Nat
        /\ SortVal[<<t[1], t[2], t[3], l2>>] \in Nat
    BY SortValType
  <2> QED BY <1>2, <2>1, ParamTypes DEF Before, Leaf
<1> QED BY <1>1, <1>2

-------------------------------------------------------------------------------
\* dgmt_open's integer division inverts the interval formula.
LEMMA IntervalDivision ==
  ASSUME NEW id \in Ids, NEW l \in 0 .. Beta - 1
  PROVE  LAbsolute(id, l) \div Beta = id - 1
<1>1. Beta \in Int /\ Beta > 0 /\ id \in Int /\ l \in Int /\ 0 <= l /\ l < Beta
  BY ParamTypes, ParamsAssumption DEF Ids
<1> DEFINE d == LAbsolute(id, l) \div Beta
<1>2. LAbsolute(id, l) \in Int
  BY <1>1 DEF LAbsolute
<1>3. d \in Int /\ Beta * d <= LAbsolute(id, l) /\ LAbsolute(id, l) < Beta * d + Beta
  BY <1>1, <1>2
<1>4. Beta * d <= Beta * (id - 1) + l /\ Beta * (id - 1) + l < Beta * d + Beta
  BY <1>1, <1>3 DEF LAbsolute
<1>5. ~ d < id - 1
  BY <1>1, <1>3, <1>4
<1>6. ~ d > id - 1
  BY <1>1, <1>3, <1>4
<1> QED BY <1>1, <1>3, <1>5, <1>6
===============================================================================
