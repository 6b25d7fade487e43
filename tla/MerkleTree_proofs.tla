---------------------------- MODULE MerkleTree_proofs ----------------------------
(***************************************************************************)
(* Proofs about MerkleTree, for a tree of any height, any hash function    *)
(* and any received values: the loops that take a path and use it move up  *)
(* the tree in step, although one counts nodes of the array and the other  *)
(* an index within its level.                                              *)
(***************************************************************************)
EXTENDS MerkleTree, TLAPS

\* The tree is built above position i.
Built ==
  /\ pc # "build" => i = 0
  /\ \A p \in i + 1 .. N - 1 : nodes[p] = Hash[<<nodes[2 * p], nodes[2 * p + 1]>>]

\* A position a is on the level d of the tree.
OnLevel(a, d) == a \in Position /\ PowerOfTwo[d] <= a /\ a < 2 * PowerOfTwo[d]

PathSoFar ==
  LET m == Len(path)
      d == NodeDepth(start)
  IN  /\ m <= d
      /\ current = Ancestor(start, m)
      /\ OnLevel(current, d - m)
      /\ \A k \in 1 .. m : path[k] = nodes[Sibling(Ancestor(start, k - 1))]
      /\ pc = "build" => m = 0
      /\ pc \in {"sent", "root", "done"} => m = d

GenuineUpTo(m) ==
  /\ leaf_value = nodes[claimed]
  /\ \A k \in 1 .. m : auth_path[k] = nodes[Sibling(Ancestor(claimed, k - 1))]

Unaltered == claimed = start /\ leaf_value = nodes[start] /\ auth_path = path

\* The loop of compute_root: index and position name the same node of a level.
RootSoFar ==
  LET a == Ancestor(claimed, level)
      w == PowerOfTwo[height - level]
  IN  /\ Len(auth_path) = height /\ level <= height
      /\ OnLevel(a, height - level)
      /\ \E q \in Nat : current_idx = a - w + q * w
      /\ Unaltered => current_value = nodes[a]
      /\ current_value = nodes[a] => GenuineUpTo(level) \/ Collision

Verification ==
  /\ pc = "root" => verdict = "none" /\ height = NodeDepth(claimed) /\ RootSoFar
  /\ pc \notin {"root", "done"} => verdict = "none"
  /\ pc = "done" => height = NodeDepth(claimed) /\ verdict # "none"
  /\ verdict = "InvalidParameter" => Len(auth_path) # height
  /\ verdict = "MerkleVerificationFailed" => RootSoFar /\ level = height /\ current_value # nodes[1]
  /\ verdict = "Ok" => RootSoFar /\ level = height /\ current_value = nodes[1]

MInv == TypeOK /\ Built /\ PathSoFar /\ Verification

-------------------------------------------------------------------------------
(***************************************************************************)
(* Positions, levels and types.                                            *)
(***************************************************************************)
LEMMA Powers ==
  /\ Height \in Nat /\ N \in Nat \ {0}
  /\ \A d \in 0 .. Height : PowerOfTwo[d] \in Nat \ {0}
  /\ \A d \in 1 .. Height : PowerOfTwo[d] = 2 * PowerOfTwo[d - 1] /\ PowerOfTwo[d] >= 2
<1>1. Height \in Nat /\ \A d \in 0 .. Height : PowerOfTwo[d] \in Nat \ {0}
  BY PowersAssumption
<1>2. ASSUME NEW d \in 1 .. Height
      PROVE  PowerOfTwo[d] = 2 * PowerOfTwo[d - 1] /\ PowerOfTwo[d] >= 2
  <2>1. d - 1 \in 0 .. Height - 1 /\ d = (d - 1) + 1
    BY <1>1
  <2>2. PowerOfTwo[d] = 2 * PowerOfTwo[d - 1]
    BY <2>1, PowersAssumption
  <2>3. PowerOfTwo[d - 1] \in Nat \ {0}
    BY <1>1, <2>1
  <2> QED BY <2>2, <2>3
<1> QED BY <1>1, <1>2 DEF N

\* fallback_node_depth finds the level of each node.
LEMMA DepthIsLevel ==
  ASSUME NEW p \in Position
  PROVE  NodeDepth(p) \in 0 .. Height /\ OnLevel(p, NodeDepth(p))
<1>1. \E d \in 0 .. Height : PowerOfTwo[d] <= p /\ p < 2 * PowerOfTwo[d]
  BY PowersAssumption DEF Position, N
<1> QED BY <1>1 DEF NodeDepth, OnLevel

LEMMA AncestorZero ==
  ASSUME NEW p \in Nat
  PROVE  Ancestor(p, 0) = p
BY PowersAssumption DEF Ancestor

LEMMA AncestorUp ==
  ASSUME NEW p \in Nat, NEW m \in 0 .. Height - 1
  PROVE  Ancestor(p, m + 1) = Ancestor(p, m) \div 2
<1> DEFINE w == PowerOfTwo[m]
           a == p \div w
           b == p \div (2 * w)
<1>1. w \in Nat \ {0} /\ 2 * w \in Nat \ {0} /\ PowerOfTwo[m + 1] = 2 * w
  BY PowersAssumption
<1> HIDE DEF w
<1>2. a \in Nat /\ w * a <= p /\ p < w * a + w
  BY <1>1
<1>3. b \in Nat /\ 2 * w * b <= p /\ p < 2 * w * b + 2 * w
  BY <1>1
<1> HIDE DEF a, b
<1>4. ~ a < 2 * b /\ ~ a > 2 * b + 1
  BY <1>1, <1>2, <1>3
<1>5. a \div 2 = b
  BY <1>2, <1>3, <1>4
<1> QED BY <1>1, <1>5 DEF Ancestor, a, b, w

\* One level up, and the two children of the node there.
LEMMA LevelUp ==
  ASSUME NEW a \in Position, NEW d \in 1 .. Height, OnLevel(a, d)
  PROVE  /\ OnLevel(a \div 2, d - 1)
         /\ a \div 2 \in 1 .. N - 1
         /\ Sibling(a) \in Position
         /\ a % 2 = 0 => a = 2 * (a \div 2) /\ Sibling(a) = 2 * (a \div 2) + 1
         /\ a % 2 # 0 => a = 2 * (a \div 2) + 1 /\ Sibling(a) = 2 * (a \div 2)
<1>1. /\ N \in Nat \ {0} /\ a \in Nat /\ a <= 2 * N - 1
      /\ PowerOfTwo[d - 1] \in Nat \ {0} /\ PowerOfTwo[d] = 2 * PowerOfTwo[d - 1]
      /\ PowerOfTwo[d] <= a /\ a < 2 * PowerOfTwo[d]
  BY Powers DEF OnLevel, Position
<1>2. a \div 2 \in 1 .. N - 1
  BY <1>1
<1>3. OnLevel(a \div 2, d - 1)
  BY <1>1, <1>2 DEF OnLevel, Position
<1> QED BY <1>1, <1>2, <1>3 DEF Sibling, Position

\* The index that compute_root halves has the parity of the position.
LEMMA IndexUp ==
  ASSUME NEW a \in Nat, NEW w \in Nat, NEW r \in Nat, NEW idx,
         a >= 2 * w, idx = a - 2 * w + 2 * r
  PROVE  idx \in Nat /\ idx % 2 = a % 2 /\ idx \div 2 = (a \div 2) - w + r
OBVIOUS

LEMMA ReceivedType ==
  ASSUME NEW sent \in Seq(Digest), NEW received \in Received(sent)
  PROVE  received \in Seq(Digest)
<1>1. CASE received = sent
  BY <1>1
<1>2. ASSUME NEW m \in DOMAIN sent, NEW d \in Digest, received = [sent EXCEPT ![m] = d]
      PROVE  received \in Seq(Digest)
  BY <1>2
<1>3. ASSUME NEW d \in Digest, received = Append(sent, d)
      PROVE  received \in Seq(Digest)
  BY <1>3
<1>4. CASE received = SubSeq(sent, 2, Len(sent))
  <2>1. \A m \in 2 .. Len(sent) : sent[m] \in Digest
    OBVIOUS
  <2> QED BY <1>4, <2>1
<1> QED BY <1>1, <1>2, <1>3, <1>4 DEF Received

LEMMA HashType ==
  ASSUME NEW x \in Digest, NEW y \in Digest
  PROVE  Hash[<<x, y>>] \in Digest
BY HashAssumption

-------------------------------------------------------------------------------
(***************************************************************************)
(* The inductive invariant.                                                *)
(***************************************************************************)
LEMMA InitMInv == Init => MInv
<1> SUFFICES ASSUME Init PROVE MInv
  OBVIOUS
<1>1. N \in Nat \ {0} /\ Height \in Nat /\ 1 \in Position
  BY Powers DEF Position
<1>2. TypeOK
  <2>1. nodes \in [Position -> Digest]
    <3>1. PICK leaves \in [0 .. N - 1 -> Digest] :
            nodes = [p \in Position |-> IF p < N THEN 0 ELSE leaves[p - N]]
      BY InputsAssumption DEF Init
    <3>2. \A p \in Position : ~ p < N => p - N \in 0 .. N - 1
      BY <1>1 DEF Position
    <3> QED BY <3>1, <3>2, HashAssumption
  <2>2. <<>> \in Seq(Digest)
    OBVIOUS
  <2> QED BY <1>1, <2>1, <2>2, HashAssumption DEF Init, TypeOK
<1>3. Built
  BY <1>1 DEF Init, Built
<1>4. PathSoFar
  <2>1. NodeDepth(1) \in 0 .. Height /\ OnLevel(1, NodeDepth(1))
    BY <1>1, DepthIsLevel
  <2>2. Ancestor(1, 0) = 1
    BY AncestorZero
  <2>3. Len(path) = 0 /\ current = 1 /\ start = 1 /\ pc = "build"
    BY DEF Init
  <2> QED BY <2>1, <2>2, <2>3 DEF PathSoFar
<1>5. Verification
  BY DEF Init, Verification
<1> QED BY <1>2, <1>3, <1>4, <1>5 DEF MInv

LEMMA BuildStepInv == MInv /\ BuildStep => MInv'
<1> SUFFICES ASSUME MInv, BuildStep PROVE MInv'
  OBVIOUS
<1>1. /\ N \in Nat \ {0} /\ i \in 1 .. N - 1 /\ nodes \in [Position -> Digest]
      /\ pc = "build"
  BY Powers DEF MInv, TypeOK, BuildStep
<1>2. /\ i \in Position /\ 2 * i \in Position /\ 2 * i + 1 \in Position
      /\ \A p \in 1 .. N - 1 : p \in Position /\ 2 * p \in Position /\ 2 * p + 1 \in Position
  BY <1>1 DEF Position
<1>3. nodes' = [nodes EXCEPT ![i] = Hash[<<nodes[2 * i], nodes[2 * i + 1]>>]]
  BY DEF BuildStep
<1>4. Hash[<<nodes[2 * i], nodes[2 * i + 1]>>] \in Digest
  BY <1>1, <1>2, HashType
<1>5. TypeOK'
  <2>1. nodes' \in [Position -> Digest]
    BY <1>1, <1>3, <1>4
  <2>2. i' \in 0 .. N - 1
    BY <1>1 DEF BuildStep
  <2> QED BY <2>1, <2>2 DEF MInv, TypeOK, BuildStep, pathVars, verifyVars
<1>6. Built'
  <2> SUFFICES ASSUME NEW p \in i .. N - 1
               PROVE  nodes'[p] = Hash[<<nodes'[2 * p], nodes'[2 * p + 1]>>]
    BY <1>1 DEF Built, BuildStep
  <2>1. p \in 1 .. N - 1 /\ p \in Position /\ 2 * p \in Position /\ 2 * p + 1 \in Position
    BY <1>1, <1>2
  <2>2. 2 * p # i /\ 2 * p + 1 # i
    BY <1>1, <2>1
  <2>3. nodes'[2 * p] = nodes[2 * p] /\ nodes'[2 * p + 1] = nodes[2 * p + 1]
    BY <1>1, <1>3, <2>1, <2>2
  <2>4. CASE p = i
    BY <1>1, <1>2, <1>3, <2>3, <2>4
  <2>5. CASE p # i
    <3>1. p \in i + 1 .. N - 1
      BY <1>1, <2>5
    <3>2. nodes'[p] = nodes[p]
      BY <1>1, <1>3, <2>1, <2>5
    <3> QED BY <2>3, <3>1, <3>2 DEF MInv, Built
  <2> QED BY <2>4, <2>5
<1>7. PathSoFar'
  <2>1. Len(path) = 0 /\ Len(path)' = 0
    BY <1>1 DEF MInv, PathSoFar, BuildStep, pathVars
  <2> QED BY <1>1, <2>1 DEF MInv, PathSoFar, BuildStep, pathVars, NodeDepth, Ancestor, OnLevel
<1>8. Verification'
  BY <1>1 DEF MInv, Verification, BuildStep, verifyVars
<1> QED BY <1>5, <1>6, <1>7, <1>8 DEF MInv

LEMMA BuildReturnInv == MInv /\ BuildReturn => MInv'
<1> SUFFICES ASSUME MInv, BuildReturn PROVE MInv'
  OBVIOUS
<1>1. TypeOK' /\ Built'
  BY DEF MInv, TypeOK, Built, BuildReturn, treeVars, pathVars, verifyVars
<1>2. PathSoFar'
  BY DEF MInv, PathSoFar, BuildReturn, treeVars, pathVars, OnLevel, Ancestor, NodeDepth
<1>3. Verification'
  BY DEF MInv, Verification, BuildReturn, verifyVars
<1> QED BY <1>1, <1>2, <1>3 DEF MInv

LEMMA PathBeginInv ==
  ASSUME MInv, NEW p \in Position, PathBegin(p)
  PROVE  MInv'
<1>1. TypeOK'
  <2>1. 1 \in Position /\ 0 \in 0 .. Height /\ 0 \in Digest /\ <<>> \in Seq(Digest)
    BY Powers, HashAssumption DEF Position
  <2>2. pc' \in {"path"} /\ start' \in Position /\ current' \in Position /\ path' \in Seq(Digest)
    BY <2>1 DEF PathBegin
  <2>3. /\ claimed' \in Position /\ leaf_value' \in Digest /\ auth_path' \in Seq(Digest)
        /\ height' \in 0 .. Height /\ current_idx' \in Nat /\ current_value' \in Digest
        /\ level' \in Nat /\ hashed' = {} /\ verdict' = "none"
    BY <2>1 DEF PathBegin, Forget
  <2>4. nodes' \in [Position -> Digest] /\ i' \in 0 .. N - 1
    BY DEF MInv, TypeOK, PathBegin, treeVars
  <2> QED BY <2>2, <2>3, <2>4 DEF TypeOK
<1>2. Built'
  BY DEF MInv, Built, PathBegin, treeVars
<1>3. PathSoFar'
  <2>1. NodeDepth(p) \in 0 .. Height /\ OnLevel(p, NodeDepth(p)) /\ Ancestor(p, 0) = p
    BY DepthIsLevel, AncestorZero DEF Position
  <2>2. start' = p /\ current' = p /\ path' = <<>> /\ pc' = "path"
    BY DEF PathBegin
  <2>3. Len(path') = 0
    BY <2>2
  <2> QED BY <2>1, <2>2, <2>3 DEF PathSoFar, OnLevel, Ancestor, NodeDepth
<1>4. Verification'
  BY DEF Verification, PathBegin, Forget
<1> QED BY <1>1, <1>2, <1>3, <1>4 DEF MInv

LEMMA PathStepInv == MInv /\ PathStep => MInv'
<1> SUFFICES ASSUME MInv, PathStep PROVE MInv'
  OBVIOUS
<1> PICK m \in Nat : m = Len(path)
  BY DEF MInv, TypeOK
<1> PICK d : d = NodeDepth(start)
  OBVIOUS
<1>1. /\ start \in Position /\ current \in Position /\ path \in Seq(Digest)
      /\ d \in 0 .. Height /\ m <= d
      /\ current = Ancestor(start, m) /\ OnLevel(current, d - m) /\ current > 1
      /\ nodes \in [Position -> Digest] /\ pc = "path"
  BY DepthIsLevel DEF MInv, TypeOK, PathSoFar, PathStep
<1>2. d - m \in 1 .. Height
  <2>1. m # d
    <3>1. m = d => d - m = 0
      BY <1>1
    <3>2. OnLevel(current, 0) => ~ current > 1
      BY <1>1, PowersAssumption DEF OnLevel, Position
    <3> QED BY <1>1, <3>1, <3>2
  <2>2. m \in Nat /\ d \in Nat /\ Height \in Nat
    BY <1>1, Powers
  <2> QED BY <1>1, <2>1, <2>2
<1>3. /\ OnLevel(current \div 2, d - (m + 1)) /\ current \div 2 \in Position
      /\ Sibling(current) \in Position
  <2>1. OnLevel(current \div 2, d - m - 1) /\ Sibling(current) \in Position
    BY <1>1, <1>2, LevelUp
  <2>2. d - m - 1 = d - (m + 1)
    BY <1>1
  <2> QED BY <2>1, <2>2 DEF OnLevel
<1>4. current \div 2 = Ancestor(start, m + 1)
  <2>1. m \in 0 .. Height - 1 /\ start \in Nat
    BY <1>1, <1>2, Powers DEF Position
  <2> QED BY <1>1, <2>1, AncestorUp
<1>5. /\ path' = Append(path, nodes[Sibling(current)]) /\ current' = current \div 2
      /\ UNCHANGED <<pc, nodes, i, start>>
  BY DEF PathStep, treeVars
<1>6. /\ Len(path') = m + 1 /\ path' \in Seq(Digest)
      /\ \A k \in 1 .. m : path'[k] = path[k]
      /\ path'[m + 1] = nodes[Sibling(current)]
  BY <1>1, <1>3, <1>5
<1>7. TypeOK'
  BY <1>3, <1>5, <1>6 DEF MInv, TypeOK, PathStep, verifyVars
<1>8. Built'
  BY <1>5 DEF MInv, Built
<1>9. PathSoFar'
  <2>1. \A k \in 1 .. m + 1 : path'[k] = nodes[Sibling(Ancestor(start, k - 1))]
    <3> TAKE k \in 1 .. m + 1
    <3>1. CASE k = m + 1
      BY <1>1, <1>6, <3>1
    <3>2. CASE k # m + 1
      BY <1>6, <3>2 DEF MInv, PathSoFar
    <3> QED BY <3>1, <3>2
  <2>2. m + 1 <= d
    BY <1>1, <1>2
  <2>3. NodeDepth(start)' = d /\ \A k : Ancestor(start, k)' = Ancestor(start, k)
    BY <1>5 DEF NodeDepth, Ancestor
  <2>4. OnLevel(current', d - (m + 1))
    BY <1>3, <1>5
  <2> QED BY <1>1, <1>4, <1>5, <1>6, <2>1, <2>2, <2>3, <2>4 DEF PathSoFar, OnLevel
<1>10. Verification'
  BY <1>1, <1>5 DEF MInv, Verification, PathStep, verifyVars
<1> QED BY <1>7, <1>8, <1>9, <1>10 DEF MInv

LEMMA PathReturnInv == MInv /\ PathReturn => MInv'
<1> SUFFICES ASSUME MInv, PathReturn PROVE MInv'
  OBVIOUS
<1>1. TypeOK' /\ Built'
  BY DEF MInv, TypeOK, Built, PathReturn, treeVars, pathVars, verifyVars
<1>2. PathSoFar'
  <2> PICK m \in Nat : m = Len(path)
    BY DEF MInv, TypeOK
  <2> PICK d : d = NodeDepth(start)
    OBVIOUS
  <2>1. /\ d \in 0 .. Height /\ m <= d /\ OnLevel(current, d - m) /\ ~ current > 1
    BY DepthIsLevel DEF MInv, TypeOK, PathSoFar, PathReturn
  <2>2. m = d
    <3>1. CASE m < d
      <4>1. d - m \in 1 .. Height
        BY <2>1, <3>1, Powers
      <4>2. PowerOfTwo[d - m] >= 2 /\ PowerOfTwo[d - m] \in Nat
        BY <4>1, Powers
      <4> QED BY <2>1, <4>2 DEF OnLevel, Position
    <3> QED BY <2>1, <3>1
  <2> QED BY <2>2 DEF MInv, PathSoFar, PathReturn, treeVars, pathVars, OnLevel, Ancestor, NodeDepth
<1>3. Verification'
  BY DEF MInv, Verification, PathReturn, verifyVars
<1> QED BY <1>1, <1>2, <1>3 DEF MInv

LEMMA ComputeRootInv ==
  ASSUME MInv, NEW p \in Position, NEW wraps \in Nat, NEW value \in Digest,
         NEW received \in Seq(Digest), ComputeRoot(p, wraps, value, received)
  PROVE  MInv'
<1> PICK d : d = NodeDepth(p)
  OBVIOUS
<1>1. /\ d \in 0 .. Height /\ OnLevel(p, d) /\ p \in Nat /\ PowerOfTwo[d] \in Nat \ {0}
      /\ LevelOffset(p) = p - PowerOfTwo[d]
  BY DepthIsLevel, Powers DEF Position, LevelOffset
<1>2. wraps * PowerOfTwo[d] \in Nat
  BY <1>1
<1>3. /\ claimed' = p /\ leaf_value' = value /\ auth_path' = received /\ height' = d
      /\ current_idx' = p - PowerOfTwo[d] + wraps * PowerOfTwo[d]
      /\ current_value' = value /\ level' = 0 /\ hashed' = {}
      /\ UNCHANGED <<nodes, i, start, current, path>>
      /\ pc = "sent"
  BY <1>1 DEF ComputeRoot, treeVars, pathVars
<1>4. current_idx' \in Nat
  <2>1. PICK r \in Nat : r = wraps * PowerOfTwo[d]
    BY <1>2
  <2> QED BY <1>1, <1>3, <2>1 DEF OnLevel
<1>5. TypeOK'
  <2>1. pc' \in {"done", "root"} /\ verdict' \in {"InvalidParameter", "none"}
    BY DEF ComputeRoot
  <2> QED BY <1>1, <1>3, <1>4, <2>1 DEF MInv, TypeOK
<1>6. Built'
  BY <1>3 DEF MInv, Built, ComputeRoot
<1>7. PathSoFar'
  BY <1>3 DEF MInv, PathSoFar, ComputeRoot, OnLevel, Ancestor, NodeDepth
<1>8. Verification'
  <2>1. CASE Len(received) # d
    BY <1>3, <2>1 DEF Verification, ComputeRoot, NodeDepth
  <2>2. CASE Len(received) = d
    <3>1. pc' = "root" /\ verdict' = "none"
      BY <2>2 DEF ComputeRoot
    <3>2. Ancestor(claimed, level)' = p
      <4>1. Ancestor(p, 0) = p
        BY <1>1, AncestorZero
      <4> QED BY <1>3, <4>1 DEF Ancestor
    <3>3. height' - level' = d
      BY <1>1, <1>3
    <3>4. Len(auth_path') = height' /\ level' <= height'
      BY <1>1, <1>3, <2>2
    <3>5. Unaltered' => current_value' = nodes'[p]
      BY <1>3 DEF Unaltered
    <3>6. current_value' = nodes'[p] => GenuineUpTo(0)'
      BY <1>3 DEF GenuineUpTo
    <3>7. RootSoFar'
      BY <1>1, <1>3, <3>2, <3>3, <3>4, <3>5, <3>6 DEF RootSoFar, OnLevel
    <3>8. NodeDepth(claimed)' = height'
      BY <1>3 DEF NodeDepth
    <3> QED BY <3>1, <3>7, <3>8 DEF Verification
  <2> QED BY <2>1, <2>2
<1> QED BY <1>5, <1>6, <1>7, <1>8 DEF MInv

LEMMA RootStepInv == MInv /\ RootStep => MInv'
<1> SUFFICES ASSUME MInv, RootStep PROVE MInv'
  OBVIOUS
<1> PICK a : a = Ancestor(claimed, level)
  OBVIOUS
<1> PICK d : d = height - level
  OBVIOUS
<1> PICK sib : sib = auth_path[level + 1]
  OBVIOUS
<1> PICK pair : pair = Children(current_idx, current_value, sib)
  OBVIOUS
<1>1. /\ pc = "root" /\ verdict = "none" /\ i = 0 /\ nodes \in [Position -> Digest]
      /\ height = NodeDepth(claimed) /\ height \in 0 .. Height /\ level \in Nat
      /\ level < height /\ Len(auth_path) = height /\ auth_path \in Seq(Digest)
      /\ claimed \in Position /\ OnLevel(a, d) /\ a \in Position
      /\ current_value \in Digest /\ hashed \in SUBSET (Digest \X Digest)
  BY DEF MInv, TypeOK, Built, Verification, RootSoFar, RootStep, OnLevel
<1>2. /\ d \in 1 .. Height /\ d - 1 = height - (level + 1) /\ level \in 0 .. Height - 1
      /\ level + 1 \in 1 .. Len(auth_path) /\ sib \in Digest
  BY <1>1, Powers
<1>3. /\ OnLevel(a \div 2, d - 1) /\ a \div 2 \in 1 .. N - 1
      /\ a % 2 = 0 => a = 2 * (a \div 2) /\ Sibling(a) = 2 * (a \div 2) + 1
      /\ a % 2 # 0 => a = 2 * (a \div 2) + 1 /\ Sibling(a) = 2 * (a \div 2)
  BY <1>1, <1>2, LevelUp
<1>4. Ancestor(claimed, level + 1) = a \div 2
  BY <1>1, <1>2, AncestorUp DEF Position
<1>5. /\ current_value' = Hash[pair] /\ hashed' = hashed \cup {pair}
      /\ current_idx' = current_idx \div 2 /\ level' = level + 1
      /\ UNCHANGED <<pc, nodes, i, start, current, path, claimed, leaf_value, auth_path,
                     height, verdict>>
  BY DEF RootStep, treeVars, pathVars
<1>6. /\ current_idx \in Nat /\ current_idx % 2 = a % 2
      /\ \E q \in Nat : current_idx' = (a \div 2) - PowerOfTwo[d - 1] + q * PowerOfTwo[d - 1]
  <2>1. PICK q \in Nat : current_idx = a - PowerOfTwo[d] + q * PowerOfTwo[d]
    BY DEF MInv, Verification, RootSoFar, RootStep
  <2>2. PICK w \in Nat : w = PowerOfTwo[d - 1] /\ PowerOfTwo[d] = 2 * w
    <3>1. d - 1 \in 0 .. Height
      BY <1>2, Powers
    <3> QED BY <1>2, <3>1, Powers
  <2>3. a \in Nat /\ a >= 2 * w
    BY <1>1, <2>2 DEF OnLevel, Position
  <2>4. q * (2 * w) = 2 * (q * w) /\ q * w \in Nat
    OBVIOUS
  <2>5. PICK r \in Nat : r = q * w
    BY <2>4
  <2>6. current_idx = a - 2 * w + 2 * r
    BY <2>1, <2>2, <2>4, <2>5
  <2>7. current_idx \in Nat /\ current_idx % 2 = a % 2 /\ current_idx \div 2 = (a \div 2) - w + r
    BY <2>3, <2>6, IndexUp
  <2>8. current_idx' = (a \div 2) - PowerOfTwo[d - 1] + q * PowerOfTwo[d - 1]
    BY <1>5, <2>2, <2>5, <2>7
  <2> QED BY <2>7, <2>8
<1>7. /\ pair \in Digest \X Digest /\ Hash[pair] \in Digest
      /\ a % 2 = 0 => pair = <<current_value, sib>>
      /\ a % 2 # 0 => pair = <<sib, current_value>>
  BY <1>1, <1>2, <1>6, HashType DEF Children
<1>8. /\ nodes[a \div 2] = Hash[<<nodes[2 * (a \div 2)], nodes[2 * (a \div 2) + 1]>>]
  BY <1>1, <1>3 DEF MInv, Built
<1>9. TypeOK'
  <2>1. current_idx' \in Nat /\ level' \in Nat
    BY <1>1, <1>5, <1>6
  <2>2. current_value' \in Digest /\ hashed' \in SUBSET (Digest \X Digest)
    BY <1>1, <1>5, <1>7
  <2> QED BY <1>5, <2>1, <2>2 DEF MInv, TypeOK
<1>10. Built' /\ PathSoFar'
  BY <1>5 DEF MInv, Built, PathSoFar, OnLevel, Ancestor, NodeDepth
<1>11. Unaltered => current_value' = nodes[a \div 2]
  <2> SUFFICES ASSUME Unaltered PROVE current_value' = nodes[a \div 2]
    OBVIOUS
  <2>1. current_value = nodes[a]
    BY <1>1 DEF MInv, Verification, RootSoFar
  <2>2. sib = nodes[Sibling(a)]
    <3>1. level + 1 \in 1 .. Len(path) /\ (level + 1) - 1 = level
      BY <1>1, <1>2 DEF Unaltered
    <3>2. path[level + 1] = nodes[Sibling(Ancestor(start, (level + 1) - 1))]
      BY <3>1 DEF MInv, PathSoFar
    <3> QED BY <3>1, <3>2 DEF Unaltered
  <2> QED BY <1>3, <1>5, <1>7, <1>8, <2>1, <2>2
<1>12. current_value' = nodes[a \div 2] => GenuineUpTo(level + 1) \/ Collision'
  <2> SUFFICES ASSUME Hash[pair] = nodes[a \div 2]
               PROVE  GenuineUpTo(level + 1) \/ Collision'
    BY <1>5
  <2>1. CASE pair # <<nodes[2 * (a \div 2)], nodes[2 * (a \div 2) + 1]>>
    <3>1. pair \in hashed' /\ UNCHANGED nodes
      BY <1>5
    <3> QED BY <1>3, <2>1, <3>1 DEF Collision
  <2>2. CASE pair = <<nodes[2 * (a \div 2)], nodes[2 * (a \div 2) + 1]>>
    <3>1. current_value = nodes[a] /\ sib = nodes[Sibling(a)]
      BY <1>3, <1>7, <2>2
    <3>2. GenuineUpTo(level) \/ Collision
      BY <1>1, <3>1 DEF MInv, Verification, RootSoFar
    <3>3. Collision => Collision'
      BY <1>5 DEF Collision
    <3>4. ASSUME GenuineUpTo(level) PROVE GenuineUpTo(level + 1)
      <4> SUFFICES ASSUME NEW k \in 1 .. level + 1
                   PROVE  auth_path[k] = nodes[Sibling(Ancestor(claimed, k - 1))]
        BY <3>4 DEF GenuineUpTo
      <4>1. CASE k = level + 1
        <5>1. k - 1 = level
          BY <1>1, <4>1
        <5> QED BY <3>1, <4>1, <5>1
      <4>2. CASE k # level + 1
        <5>1. k \in 1 .. level
          BY <1>1, <4>2
        <5> QED BY <3>4, <5>1 DEF GenuineUpTo
      <4> QED BY <4>1, <4>2
    <3> QED BY <3>2, <3>3, <3>4
  <2> QED BY <2>1, <2>2
<1>13. RootSoFar'
  <2>1. /\ Ancestor(claimed, level)' = a \div 2 /\ height' - level' = d - 1
        /\ Len(auth_path') = height' /\ level' <= height'
    BY <1>1, <1>2, <1>4, <1>5 DEF Ancestor
  <2>2. Unaltered' <=> Unaltered
    BY <1>5 DEF Unaltered
  <2>3. GenuineUpTo(level + 1) => GenuineUpTo(level)'
    BY <1>5 DEF GenuineUpTo, Ancestor
  <2>4. OnLevel(a \div 2, d - 1)
    BY <1>3
  <2> QED BY <1>5, <1>6, <1>11, <1>12, <2>1, <2>2, <2>3, <2>4 DEF RootSoFar
<1>14. Verification'
  BY <1>1, <1>5, <1>13 DEF Verification, NodeDepth
<1> QED BY <1>9, <1>10, <1>14 DEF MInv

LEMMA CompareInv == MInv /\ Compare => MInv'
<1> SUFFICES ASSUME MInv, Compare PROVE MInv'
  OBVIOUS
<1>1. TypeOK' /\ Built'
  BY DEF MInv, TypeOK, Built, Compare, treeVars, pathVars
<1>2. PathSoFar'
  BY DEF MInv, PathSoFar, Compare, treeVars, pathVars, OnLevel, Ancestor, NodeDepth
<1>3. UNCHANGED <<nodes, start, path, claimed, leaf_value, auth_path, height, current_idx,
                 current_value, level, hashed>>
  BY DEF Compare, treeVars, pathVars
<1>4. RootSoFar /\ level = height /\ height = NodeDepth(claimed)
  BY DEF MInv, Verification, RootSoFar, Compare
<1>5. RootSoFar' /\ level' = height' /\ height' = NodeDepth(claimed)'
  BY <1>3, <1>4 DEF RootSoFar, OnLevel, Ancestor, Unaltered, GenuineUpTo, Collision, NodeDepth
<1>6. /\ pc' = "done" /\ verdict' \in {"Ok", "MerkleVerificationFailed"}
      /\ verdict' = "Ok" <=> current_value' = nodes'[1]
  BY <1>3 DEF Compare
<1>7. Verification'
  BY <1>5, <1>6 DEF Verification
<1> QED BY <1>1, <1>2, <1>7 DEF MInv

LEMMA NextMInv == MInv /\ [Next]_vars => MInv'
<1> SUFFICES ASSUME MInv, [Next]_vars PROVE MInv'
  OBVIOUS
<1>1. CASE BuildStep \/ BuildReturn \/ PathStep \/ PathReturn \/ RootStep \/ Compare
  BY <1>1, BuildStepInv, BuildReturnInv, PathStepInv, PathReturnInv, RootStepInv, CompareInv
<1>2. /\ \A leaf_idx \in 0 .. N - 1 : N + leaf_idx \in Position
      /\ \A fallback_idx \in 1 .. 2 * N - 2 : fallback_idx + 1 \in Position
  BY Powers DEF Position
<1>3. ASSUME NEW leaf_idx \in 0 .. N - 1, AuthPath(leaf_idx)
      PROVE  MInv'
  BY <1>2, <1>3, PathBeginInv DEF AuthPath
<1>4. ASSUME NEW fallback_idx \in 1 .. 2 * N - 2, ImtAuthPath(fallback_idx)
      PROVE  MInv'
  BY <1>2, <1>4, PathBeginInv DEF ImtAuthPath
<1>5. ASSUME NEW value \in Digest, NEW received \in Received(path),
             \/ \E fallback_idx \in 1 .. 2 * N - 2 :
                  ComputeRoot(fallback_idx + 1, 0, value, received)
             \/ \E leaf_idx \in 0 .. N - 1, wraps \in Wraps :
                  ComputeRoot(N + leaf_idx, wraps, value, received)
      PROVE  MInv'
  <2>1. received \in Seq(Digest)
    BY <1>5, ReceivedType DEF MInv, TypeOK
  <2> QED BY <1>2, <1>5, <2>1, ComputeRootInv, InputsAssumption
<1>6. CASE UNCHANGED vars
  BY <1>6 DEF vars, treeVars, pathVars, verifyVars, MInv, TypeOK, Built, PathSoFar, Verification,
              RootSoFar, OnLevel, Ancestor, Unaltered, GenuineUpTo, Collision, NodeDepth
<1> QED BY <1>1, <1>3, <1>4, <1>5, <1>6 DEF Next

LEMMA MInvariance == Spec => []MInv
BY InitMInv, NextMInv, PTL DEF Spec

LEMMA AtTheRoot ==
  ASSUME TypeOK, RootSoFar, level = height
  PROVE  Ancestor(claimed, level) = 1
<1>1. OnLevel(Ancestor(claimed, level), 0)
  BY DEF RootSoFar, TypeOK
<1> QED BY <1>1, PowersAssumption DEF OnLevel, Position

LEMMA OwnPath == MInv => OwnPathVerifies
<1> SUFFICES ASSUME MInv, pc = "done", Unaltered
             PROVE  verdict = "Ok"
  BY DEF OwnPathVerifies, Unaltered
<1>1. verdict # "InvalidParameter"
  BY DEF MInv, PathSoFar, Verification, Unaltered
<1>2. verdict # "MerkleVerificationFailed"
  <2> SUFFICES ASSUME verdict = "MerkleVerificationFailed" PROVE FALSE
    OBVIOUS
  <2>1. RootSoFar /\ level = height /\ current_value # nodes[1]
    BY DEF MInv, Verification
  <2>2. current_value = nodes[Ancestor(claimed, level)]
    BY <2>1 DEF RootSoFar
  <2> QED BY <2>1, <2>2, AtTheRoot DEF MInv
<1> QED BY <1>1, <1>2 DEF MInv, TypeOK, Verification

LEMMA Accepted == MInv => AcceptedIsGenuine
<1> SUFFICES ASSUME MInv, verdict = "Ok" PROVE Genuine \/ Collision
  BY DEF AcceptedIsGenuine
<1>1. RootSoFar /\ level = height /\ pc = "done"
  BY DEF MInv, Verification, TypeOK
<1>2. GenuineUpTo(height) => Genuine
  BY DEF GenuineUpTo, Genuine
<1>3. Ancestor(claimed, level) = 1
  BY <1>1, AtTheRoot DEF MInv
<1>4. current_value = nodes[Ancestor(claimed, level)]
  BY <1>3 DEF MInv, Verification
<1>5. GenuineUpTo(level) \/ Collision
  BY <1>1, <1>4 DEF RootSoFar
<1> QED BY <1>1, <1>2, <1>5

-------------------------------------------------------------------------------
\* The array is never indexed outside the tree, by build, by the two path
\* functions or by the verifier's arithmetic.
THEOREM TreeTypes == Spec => []TypeOK
BY MInvariance, PTL DEF MInv

\* auth_path with compute_root, and imt_auth_path with the offset that
\* dgmt_verify computes, give the root for each leaf and each fallback node.
THEOREM PathsVerify == Spec => []OwnPathVerifies
<1>1. MInv => OwnPathVerifies
  BY OwnPath
<1> QED BY <1>1, MInvariance, PTL

\* compute_root gives the root for nothing but a node of the claimed level and
\* place and its siblings, or a collision of merkle_node_hash is at hand.
THEOREM AcceptanceIsSound == Spec => []AcceptedIsGenuine
<1>1. MInv => AcceptedIsGenuine
  BY Accepted
<1> QED BY <1>1, MInvariance, PTL
===============================================================================
