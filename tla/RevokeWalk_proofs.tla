--------------------------- MODULE RevokeWalk_proofs ---------------------------
(***************************************************************************)
(* Proofs about RevokeWalk for all parameters and any number of walks.     *)
(*                                                                         *)
(* The code carries two versions of the same step: Advance, by which       *)
(* dgmt_key_dist moves the pointer, and WalkAdvance, by which dgmt_revoke  *)
(* moves along.  That a finished walk has listed what was issued needs an  *)
(* invariant of the walk half-way (ListedSoFar: what lies behind `at`, or  *)
(* everything once a walk has finished), one that keeps it from running    *)
(* past the pointer (WalkBehindPointer), and one that says what was issued *)
(* (AllocatedExact).                                                       *)
(***************************************************************************)
EXTENDS RevokeWalk, DgmtParams_proofs

UpTo(p) == {q \in Pointer : AtOrBefore(q, p)}

Behind(p) == {q \in Pointer : Precedes(q, p)}

\* How many positions come before p.
Ordinal(p) == ((p[1] - 1) * Alpha + p[2]) * (Beta - 1) + p[3]

AllocatedExact == allocated = UpTo(pointer) \ {FirstPtr}

WalkBehindPointer == pc = "walk" => AtOrBefore(at, pointer)

WalksCounted == pc = "dist" <=> walks = 0

ListedSoFar ==
  /\ pc = "dist" => listed = {}
  /\ pc = "walk" /\ walks = 1 => listed = Behind(at)
  /\ pc = "walk" /\ walks > 1 => listed = UpTo(pointer)
  /\ pc = "done" => listed = UpTo(pointer)

PushesCounted ==
  /\ pc = "walk" /\ walks = 1 => pushes = Ordinal(at)
  /\ pc = "done" /\ walks = 1 => pushes = Ordinal(pointer) + 1

RInv ==
  /\ TypeOK
  /\ AllocatedExact
  /\ WalkBehindPointer
  /\ WalksCounted
  /\ ListedSoFar
  /\ PushesCounted

-------------------------------------------------------------------------------
(***************************************************************************)
(* The order of positions.                                                 *)
(***************************************************************************)
LEMMA SameStep == \A p : WalkAdvance(p) = Advance(p)
BY DEF WalkAdvance, Advance, LastLocal

LEMMA StuckAtEnd ==
  ASSUME NEW p \in Pointer
  PROVE  WalkIsStuck(p) <=> Exhausted(p)
BY ParamTypes DEF WalkIsStuck, Exhausted, Pointer, Smtmt, Leaf

LEMMA NothingAfterEnd ==
  ASSUME NEW p \in Pointer, Exhausted(p), NEW q \in Pointer
  PROVE  AtOrBefore(q, p)
BY ParamTypes DEF Exhausted, Pointer, Smtmt, Leaf, AtOrBefore, Precedes

LEMMA OrderTotal ==
  ASSUME NEW p \in Pointer, NEW q \in Pointer
  PROVE  /\ AtOrBefore(p, q) \/ Precedes(q, p)
         /\ ~ (AtOrBefore(p, q) /\ Precedes(q, p))
BY ParamTypes DEF Pointer, Smtmt, Leaf, AtOrBefore, Precedes

LEMMA FirstIsFirst ==
  ASSUME NEW p \in Pointer
  PROVE  AtOrBefore(FirstPtr, p) /\ ~ Precedes(p, FirstPtr)
BY ParamTypes DEF Pointer, Smtmt, Leaf, AtOrBefore, Precedes, FirstPtr

LEMMA BehindNext ==
  ASSUME NEW p \in Pointer, ~ Exhausted(p)
  PROVE  /\ Behind(Advance(p)) = UpTo(p)
         /\ UpTo(Advance(p)) = UpTo(p) \cup {Advance(p)}
<1>1. Advance(p) \in Pointer
  BY AdvanceType
<1>2. ~ AtOrBefore(Advance(p), p)
  BY AdvanceIsAfter
<1>3. \A q \in Pointer : AtOrBefore(q, Advance(p)) <=> AtOrBefore(q, p) \/ q = Advance(p)
  BY AdvanceIsNext
<1>4. \A q \in Pointer : Precedes(q, Advance(p)) <=> AtOrBefore(q, Advance(p)) /\ q # Advance(p)
  BY <1>1, OrderTotal DEF AtOrBefore
<1> QED BY <1>1, <1>2, <1>3, <1>4 DEF Behind, UpTo

LEMMA UpToIsBehindAnd ==
  ASSUME NEW p \in Pointer
  PROVE  /\ UpTo(p) = Behind(p) \cup {p}
         /\ p \notin Behind(p)
<1>1. ~ Precedes(p, p)
  BY OrderTotal DEF AtOrBefore
<1> QED BY <1>1 DEF UpTo, Behind, AtOrBefore

\* A walk short of its end is short of it by at least one position.
LEMMA AdvanceStaysBehind ==
  ASSUME NEW p \in Pointer, NEW end \in Pointer, AtOrBefore(p, end), p # end
  PROVE  ~ Exhausted(p) /\ AtOrBefore(Advance(p), end)
<1>1. Precedes(p, end)
  BY DEF AtOrBefore
<1>2. ~ Exhausted(p)
  BY <1>1, NothingAfterEnd, OrderTotal
<1>3. Advance(p) \in Pointer
  BY <1>2, AdvanceType
<1>4. ~ Precedes(end, Advance(p))
  BY <1>1, <1>2, <1>3, AdvanceIsNext, OrderTotal DEF AtOrBefore
<1> QED BY <1>2, <1>3, <1>4, OrderTotal

LEMMA OrdinalType ==
  ASSUME NEW p \in Pointer
  PROVE  Ordinal(p) \in Nat
<1>1. p[1] - 1 \in Nat /\ p[2] \in Nat /\ p[3] \in Nat /\ Beta - 1 \in Nat
  BY ParamTypes DEF Pointer, Smtmt, Leaf
<1>2. (p[1] - 1) * Alpha + p[2] \in Nat
  BY <1>1, ParamTypes
<1>3. ((p[1] - 1) * Alpha + p[2]) * (Beta - 1) \in Nat
  BY <1>1, <1>2
<1> QED BY <1>1, <1>3 DEF Ordinal

LEMMA OrdinalNext ==
  ASSUME NEW p \in Pointer, ~ Exhausted(p)
  PROVE  Ordinal(Advance(p)) = Ordinal(p) + 1
<1>0. /\ p[1] \in Nat /\ p[2] \in Nat /\ p[3] \in Nat /\ p[1] >= 1
      /\ p[2] <= Alpha - 1 /\ p[3] <= Beta - 2
      /\ Alpha \in Nat /\ Beta \in Nat
  BY ParamTypes DEF Pointer, Smtmt, Leaf
<1> DEFINE trees == (p[1] - 1) * Alpha + p[2]
<1>1. trees \in Nat /\ Beta - 1 \in Int
  BY <1>0
<1>2. (trees + 1) * (Beta - 1) = trees * (Beta - 1) + (Beta - 1)
  BY <1>1
<1>3. trees * (Beta - 1) \in Int
  BY <1>1
<1>4. CASE p[3] < LastLocal
  BY <1>0, <1>1, <1>3, <1>4 DEF Advance, Ordinal
<1>5. CASE ~ p[3] < LastLocal /\ p[2] < Alpha - 1
  <2>1. Advance(p) = <<p[1], p[2] + 1, 0>> /\ p[3] = Beta - 2
    BY <1>0, <1>5, ParamTypes DEF Advance
  <2>2. (p[1] - 1) * Alpha + (p[2] + 1) = trees + 1
    BY <1>0
  <2>3. Ordinal(Advance(p)) = (trees + 1) * (Beta - 1) + 0
    BY <2>1, <2>2 DEF Ordinal
  <2> QED BY <1>0, <1>2, <1>3, <2>1, <2>3 DEF Ordinal
<1>6. CASE ~ p[3] < LastLocal /\ ~ p[2] < Alpha - 1
  <2>1. Advance(p) = <<p[1] + 1, 0, 0>> /\ p[3] = Beta - 2 /\ p[2] = Alpha - 1
    BY <1>0, <1>6, ParamTypes DEF Advance
  <2>2. ((p[1] + 1) - 1) * Alpha + 0 = trees + 1
    BY <1>0, <2>1
  <2>3. Ordinal(Advance(p)) = (trees + 1) * (Beta - 1) + 0
    BY <2>1, <2>2 DEF Ordinal
  <2> QED BY <1>0, <1>2, <1>3, <2>1, <2>3 DEF Ordinal
<1> QED BY <1>4, <1>5, <1>6

-------------------------------------------------------------------------------
(***************************************************************************)
(* The invariant.                                                          *)
(***************************************************************************)
LEMMA InitRInv == Init => RInv
<1> SUFFICES ASSUME Init PROVE RInv
  OBVIOUS
<1> USE DEF Init
<1>1. TypeOK
  BY FirstPtrType, MaxWalksAssumption DEF TypeOK
<1>2. UpTo(FirstPtr) = {FirstPtr}
  BY FirstPtrType, FirstIsFirst, OrderTotal DEF UpTo, AtOrBefore
<1> QED BY <1>1, <1>2 DEF RInv, AllocatedExact, WalkBehindPointer, WalksCounted,
                          ListedSoFar, PushesCounted

LEMMA AllocateInv == RInv /\ Allocate => RInv'
<1> SUFFICES ASSUME RInv, Allocate PROVE RInv'
  OBVIOUS
<1> USE DEF Allocate
<1>1. pointer \in Pointer /\ pointer' \in Pointer
  BY AdvanceType DEF RInv, TypeOK
<1>2. TypeOK'
  BY <1>1 DEF RInv, TypeOK
<1>3. AllocatedExact'
  <2>1. UpTo(pointer') = UpTo(pointer) \cup {pointer'}
    BY <1>1, BehindNext
  <2>2. pointer' # FirstPtr
    BY <1>1, AdvanceIsAfter, FirstIsFirst
  <2> QED BY <2>1, <2>2 DEF RInv, AllocatedExact
<1> QED BY <1>2, <1>3 DEF RInv, WalkBehindPointer, WalksCounted, ListedSoFar, PushesCounted

LEMMA StartWalkInv == RInv /\ StartWalk => RInv'
<1> SUFFICES ASSUME RInv, StartWalk PROVE RInv'
  OBVIOUS
<1> USE DEF StartWalk
<1>1. walks \in Nat /\ pointer \in Pointer
  BY MaxWalksAssumption DEF RInv, TypeOK
<1>2. TypeOK'
  BY FirstPtrType, MaxWalksAssumption DEF RInv, TypeOK
<1>3. WalkBehindPointer'
  BY <1>1, FirstIsFirst DEF WalkBehindPointer
<1>4. Behind(FirstPtr) = {}
  BY FirstIsFirst DEF Behind
<1>5. ListedSoFar'
  BY <1>1, <1>4 DEF RInv, WalksCounted, ListedSoFar
<1>6. Ordinal(FirstPtr) = 0
  BY ParamTypes DEF Ordinal, FirstPtr
<1>7. PushesCounted'
  BY <1>6 DEF PushesCounted
<1> QED BY <1>1, <1>2, <1>3, <1>5, <1>7 DEF RInv, AllocatedExact, WalksCounted

\* The walk ends at the pointer and nowhere else: "Should not happen if record
\* is consistent" never does.
LEMMA EndsAtPointer ==
  ASSUME RInv, pc = "walk"
  PROVE  at = pointer \/ WalkIsStuck(at) <=> at = pointer
<1>1. at \in Pointer /\ pointer \in Pointer /\ AtOrBefore(at, pointer)
  BY DEF RInv, TypeOK, WalkBehindPointer
<1>2. WalkIsStuck(at) => at = pointer
  BY <1>1, AdvanceStaysBehind, StuckAtEnd
<1> QED BY <1>2

LEMMA WalkStepInv == RInv /\ WalkStep => RInv'
<1> SUFFICES ASSUME RInv, WalkStep PROVE RInv'
  OBVIOUS
<1>0. pc = "walk" /\ UNCHANGED <<pointer, allocated, walks>>
  BY DEF WalkStep
<1>1. /\ at \in Pointer /\ pointer \in Pointer /\ AtOrBefore(at, pointer)
      /\ listed \in SUBSET Pointer /\ pushes \in Nat /\ walks \in 0 .. MaxWalks
  BY <1>0 DEF RInv, TypeOK, WalkBehindPointer
<1>2. walks = 1 \/ walks > 1
  BY <1>0, <1>1, MaxWalksAssumption DEF RInv, WalksCounted
<1>3. /\ listed' = listed \cup {at}
      /\ pushes' = IF at \in listed THEN pushes ELSE pushes + 1
  BY DEF WalkStep
<1>4. AllocatedExact' /\ WalksCounted'
  BY <1>0, <1>2, <1>3 DEF RInv, AllocatedExact, WalksCounted, WalkStep
<1>5. walks = 1 => at \notin listed /\ listed' = UpTo(at) /\ pushes' = Ordinal(at) + 1
  <2>1. walks = 1 => listed = Behind(at) /\ pushes = Ordinal(at)
    BY <1>0 DEF RInv, ListedSoFar, PushesCounted
  <2> QED BY <1>1, <1>3, <2>1, UpToIsBehindAnd
<1>6. walks > 1 => listed' = UpTo(pointer)
  <2>1. walks > 1 => listed = UpTo(pointer)
    BY <1>0 DEF RInv, ListedSoFar
  <2> QED BY <1>1, <1>3, <2>1 DEF UpTo
<1>7. CASE at = pointer
  <2>1. pc' = "done" /\ at' = at
    BY <1>7 DEF WalkStep
  <2>2. TypeOK'
    BY <1>0, <1>1, <1>3, <2>1 DEF RInv, TypeOK
  <2>3. ListedSoFar' /\ PushesCounted' /\ WalkBehindPointer'
    BY <1>0, <1>2, <1>5, <1>6, <1>7, <2>1
    DEF ListedSoFar, PushesCounted, WalkBehindPointer
  <2> QED BY <1>4, <2>2, <2>3 DEF RInv
<1>8. CASE at # pointer
  <2>1. pc' = "walk" /\ at' = Advance(at)
    BY <1>0, <1>8, EndsAtPointer, SameStep DEF WalkStep
  <2>2. ~ Exhausted(at) /\ AtOrBefore(at', pointer) /\ at' \in Pointer
    BY <1>1, <1>8, <2>1, AdvanceStaysBehind, AdvanceType
  <2>3. TypeOK'
    BY <1>0, <1>1, <1>3, <2>1, <2>2 DEF RInv, TypeOK
  <2>4. UpTo(at) = Behind(at') /\ Ordinal(at') = Ordinal(at) + 1
    BY <1>1, <2>1, <2>2, BehindNext, OrdinalNext
  <2>5. ListedSoFar' /\ PushesCounted' /\ WalkBehindPointer'
    BY <1>0, <1>5, <1>6, <2>1, <2>2, <2>4
    DEF ListedSoFar, PushesCounted, WalkBehindPointer
  <2> QED BY <1>4, <2>3, <2>5 DEF RInv
<1> QED BY <1>7, <1>8

LEMMA NextRInv == RInv /\ [Next]_vars => RInv'
<1> SUFFICES ASSUME RInv, [Next]_vars PROVE RInv'
  OBVIOUS
<1>1. CASE Allocate
  BY <1>1, AllocateInv
<1>2. CASE StartWalk
  BY <1>2, StartWalkInv
<1>3. CASE WalkStep
  BY <1>3, WalkStepInv
<1>4. CASE UNCHANGED vars
  BY <1>4 DEF vars, RInv, TypeOK, AllocatedExact, WalkBehindPointer, WalksCounted,
              ListedSoFar, PushesCounted
<1> QED BY <1>1, <1>2, <1>3, <1>4 DEF Next

LEMMA AlwaysRInv == Spec => []RInv
BY InitRInv, NextRInv, PTL DEF Spec

-------------------------------------------------------------------------------
(***************************************************************************)
(* What follows from it.                                                   *)
(***************************************************************************)
\* Every variable keeps its type; neither pointer leaves the index space.
THEOREM WalkTypes == Spec => []TypeOK
<1>1. RInv => TypeOK
  BY DEF RInv
<1> QED BY <1>1, AlwaysRInv, PTL

\* A finished walk of dgmt_revoke has listed every key dgmt_key_dist built under
\* the node and, besides them, only the starting position.
THEOREM WalkIsComplete == Spec => []WalkListsAllocated
<1>1. RInv => WalkListsAllocated
  <2>1. RInv => FirstPtr \in UpTo(pointer)
    BY FirstPtrType, FirstIsFirst DEF RInv, TypeOK, UpTo
  <2> QED BY <2>1 DEF RInv, WalkListsAllocated, AllocatedExact, ListedSoFar
<1> QED BY <1>1, AlwaysRInv, PTL

\* The iterations of dgmt_revoke add up to the set that Manager lists in one
\* step.
THEOREM WalkIsInterval == Spec => []WalkListsInterval
<1>1. RInv => WalkListsInterval
  BY DEF RInv, WalkListsInterval, ListedSoFar, UpTo
<1> QED BY <1>1, AlwaysRInv, PTL

\* The else branch of the walk, "Should not happen if record is consistent"
\* (revoke.rs), is not what ends it: a walk with no successor is at the pointer.
NeverStuckEarly == pc = "walk" /\ WalkIsStuck(at) => at = pointer

\* The walk of dgmt_revoke never gives up before the end of the interval.
THEOREM WalkNeverStuck == Spec => []NeverStuckEarly
<1>1. RInv => NeverStuckEarly
  BY EndsAtPointer DEF NeverStuckEarly
<1> QED BY <1>1, AlwaysRInv, PTL

\* The safety half of WalkTerminates: each iteration of the loop that does not
\* end it comes one position closer to the pointer and never passes it.
CloserToPointer ==
  [][WalkStep => \/ pc' = "done"
                 \/ /\ Ordinal(pointer) - Ordinal(at') = Ordinal(pointer) - Ordinal(at) - 1
                    /\ Ordinal(pointer) - Ordinal(at') >= 0]_vars

LEMMA OrdinalMonotone ==
  ASSUME NEW p \in Pointer, NEW q \in Pointer, AtOrBefore(p, q)
  PROVE  Ordinal(p) <= Ordinal(q)
<1> DEFINE before(r) == (r[1] - 1) * Alpha + r[2]
<1>1. \A r \in Pointer : /\ r[1] \in Nat /\ r[1] >= 1 /\ r[2] \in 0 .. Alpha - 1
                         /\ r[3] \in 0 .. Beta - 2
  BY ParamTypes DEF Pointer, Smtmt, Leaf
<1>2. \A r \in Pointer : before(r) \in Int
  BY <1>1, ParamTypes
<1>3. before(p) < before(q) => before(p) * (Beta - 1) + (Beta - 1) <= before(q) * (Beta - 1)
  <2>1. ASSUME before(p) < before(q)
        PROVE  (before(p) + 1) * (Beta - 1) <= before(q) * (Beta - 1)
    <3>1. before(p) + 1 <= before(q) /\ Beta - 1 \in Nat
      BY <1>2, <2>1, ParamTypes
    <3> HIDE DEF before
    <3> QED BY <1>2, <3>1
  <2>2. (before(p) + 1) * (Beta - 1) = before(p) * (Beta - 1) + (Beta - 1)
    BY <1>2, ParamTypes
  <2> QED BY <2>1, <2>2
<1>4. \A r \in Pointer : before(r) * (Beta - 1) \in Int
  BY <1>2, ParamTypes
<1>5. CASE p = q
  BY <1>1, <1>4, <1>5, ParamTypes DEF Ordinal
<1>6. CASE p[1] < q[1]
  <2>1. (p[1] - 1) * Alpha + Alpha <= (q[1] - 1) * Alpha
    BY <1>1, <1>6, ParamTypes
  <2>2. before(p) < before(q)
    BY <1>1, <2>1, ParamTypes
  <2> QED BY <1>1, <1>3, <1>4, <2>2, ParamTypes DEF Ordinal
<1>7. CASE p[1] = q[1] /\ p[2] < q[2]
  <2>1. before(p) < before(q)
    BY <1>1, <1>7, ParamTypes
  <2> QED BY <1>1, <1>3, <1>4, <2>1, ParamTypes DEF Ordinal
<1>8. CASE p[1] = q[1] /\ p[2] = q[2] /\ p[3] < q[3]
  BY <1>1, <1>4, <1>8, ParamTypes DEF Ordinal
<1> QED BY <1>5, <1>6, <1>7, <1>8 DEF AtOrBefore, Precedes

\* Each iteration of dgmt_revoke but the last reduces the distance to the pointer.
THEOREM WalkComesCloser == Spec => CloserToPointer
<1> DEFINE Closer == \/ pc' = "done"
                     \/ /\ Ordinal(pointer) - Ordinal(at') = Ordinal(pointer) - Ordinal(at) - 1
                        /\ Ordinal(pointer) - Ordinal(at') >= 0
<1>1. RInv /\ RInv' /\ WalkStep => Closer
  <2> SUFFICES ASSUME RInv, RInv', WalkStep, pc' # "done"
               PROVE  /\ Ordinal(at') = Ordinal(at) + 1
                      /\ Ordinal(at') <= Ordinal(pointer)
                      /\ Ordinal(at) \in Int /\ Ordinal(pointer) \in Int
    OBVIOUS
  <2>1. pc = "walk" /\ pointer' = pointer /\ at \in Pointer /\ pointer \in Pointer
    BY DEF WalkStep, RInv, TypeOK
  <2>2. at' = Advance(at) /\ pc' = "walk" /\ ~ WalkIsStuck(at)
    BY <2>1, SameStep DEF WalkStep
  <2>3. ~ Exhausted(at)
    BY <2>1, <2>2, StuckAtEnd
  <2>4. at' \in Pointer /\ AtOrBefore(at', pointer)
    BY <2>1, <2>2 DEF RInv, TypeOK, WalkBehindPointer
  <2> QED BY <2>1, <2>2, <2>3, <2>4, OrdinalNext, OrdinalMonotone, OrdinalType
<1>2. RInv /\ RInv' /\ [Next]_vars => [WalkStep => Closer]_vars
  BY <1>1
<1> HIDE DEF Closer
<1>3. Spec => [][WalkStep => Closer]_vars
  BY <1>2, AlwaysRInv, PTL DEF Spec
<1> QED BY <1>3 DEF Closer, CloserToPointer

\* revocation_entry_count is never too small: it counts beta leaves for each
\* finished SMT(2), of which the walk visits all but one.
CountExceedsPushes ==
  pc = "done" /\ walks = 1 =>
    EntryCount(pointer) = pushes + (pointer[1] - 1) * Alpha + pointer[2]

\* By how much the count of revocation_entry_count exceeds the entries pushed.
THEOREM CountIsUpperBound == Spec => []CountExceedsPushes
<1>1. RInv => CountExceedsPushes
  <2> SUFFICES ASSUME RInv, pc = "done", walks = 1
               PROVE  EntryCount(pointer) = pushes + (pointer[1] - 1) * Alpha + pointer[2]
    BY DEF CountExceedsPushes
  <2>1. pushes = Ordinal(pointer) + 1
    BY DEF RInv, PushesCounted
  <2>2. pointer[1] - 1 \in Nat /\ pointer[2] \in Nat /\ pointer[3] \in Nat
    BY ParamTypes DEF RInv, TypeOK, Pointer, Smtmt, Leaf
  <2> DEFINE a == pointer[1] - 1
             b == pointer[2]
  <2>3. (a * Alpha + b) * (Beta - 1) = a * Alpha * Beta + b * Beta - (a * Alpha + b)
    <3>1. a * Alpha \in Nat /\ b \in Nat /\ Beta \in Nat
      BY <2>2, ParamTypes
    <3>2. \A t, u, w \in Nat : (t + u) * (w - 1) = t * w + u * w - (t + u)
      OBVIOUS
    <3> QED BY <3>1, <3>2
  <2>4. a * Alpha * Beta \in Int /\ b * Beta \in Int /\ a * Alpha \in Int
    BY <2>2, ParamTypes
  <2> QED BY <2>1, <2>2, <2>3, <2>4 DEF EntryCount, Ordinal
<1> QED BY <1>1, AlwaysRInv, PTL
===============================================================================
