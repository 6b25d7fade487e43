------------------------------- MODULE MerkleTree -------------------------------
(***************************************************************************)
(* Merkle trees in an array in breadth-first order: built from the leaves  *)
(* up, authentication paths for leaves (SMT(1), SMT(2)) and for inner      *)
(* nodes (the fallback nodes of the IMT), and the recomputation of the     *)
(* root from a value, an index and a path as they were received, which may *)
(* differ from what was sent.                                              *)
(*                                                                         *)
(* Source: crates/knee-tie-crypto/src/merkle.rs, dgmt/keygen.rs,           *)
(* dgmt/params.rs, dgmt/verify.rs.                                         *)
(***************************************************************************)
EXTENDS Integers, Sequences

CONSTANTS
  Height,      \* MerkleTree.height
  PowerOfTwo,  \* PowerOfTwo[d] is 1 << d
  Digest,      \* the hash values, 0 among them
  Hash,        \* merkle_node_hash
  LeafInputs,  \* the arguments build is called with, leaf 0 first
  Wraps        \* bound: multiples of the tree width added to a leaf index

ASSUME HashAssumption ==
  /\ 0 \in Digest
  /\ Hash \in [Digest \X Digest -> Digest]

\* The last conjunct is the logarithm that leading_zeros computes.
ASSUME PowersAssumption ==
  /\ Height \in Nat
  /\ PowerOfTwo \in [0 .. Height -> Nat \ {0}]
  /\ PowerOfTwo[0] = 1
  /\ \A d \in 0 .. Height - 1 : PowerOfTwo[d + 1] = 2 * PowerOfTwo[d]
  /\ \A p \in 1 .. 2 * PowerOfTwo[Height] - 1 :
       \E d \in 0 .. Height : PowerOfTwo[d] <= p /\ p < 2 * PowerOfTwo[d]

N        == PowerOfTwo[Height]
Position == 1 .. 2 * N - 1

ASSUME InputsAssumption ==
  /\ LeafInputs \subseteq [0 .. N - 1 -> Digest]
  /\ Wraps \subseteq Nat

VARIABLES
  pc,             \* which function runs
  nodes,          \* MerkleTree.nodes, without the unused nodes[0]
  i,              \* build: the loop variable
  start,          \* the position a path is taken for
  current, path,  \* locals of auth_path and imt_auth_path
  claimed,        \* verification: the position the received indices name
  leaf_value, auth_path, height,        \* arguments of compute_root
  current_idx, current_value, level,    \* its locals; level: siblings used
  hashed,         \* history: the pairs this verification has hashed
  verdict

treeVars   == <<nodes, i>>
pathVars   == <<start, current, path>>
verifyVars == <<claimed, leaf_value, auth_path, height, current_idx, current_value,
                level, hashed, verdict>>
vars       == <<pc, treeVars, pathVars, verifyVars>>

\* Flip the last bit of the BFS index.
Sibling(p) == IF p % 2 = 0 THEN p + 1 ELSE p - 1

\* Mutant: the bit length itself.
BitLength(p) == 1 + CHOOSE d \in 0 .. Height :
                      PowerOfTwo[d] <= p /\ p < 2 * PowerOfTwo[d]

\* fallback_node_depth, for the node at BFS position p.
NodeDepth(p) == CHOOSE d \in 0 .. Height :
                  PowerOfTwo[d] <= p /\ p < 2 * PowerOfTwo[d]

\* Mutant: the index among all fallback nodes.
OffsetAmongAll(p) == p - 2

\* 0-based index within its level; for a leaf, leaf_idx.
LevelOffset(p) == p - PowerOfTwo[NodeDepth(p)]

\* The locals of a finished verification are gone.
Forget ==
  /\ claimed' = 1 /\ leaf_value' = 0 /\ auth_path' = <<>> /\ height' = 0
  /\ current_idx' = 0 /\ current_value' = 0 /\ level' = 0
  /\ hashed' = {} /\ verdict' = "none"

Init ==
  /\ pc = "build"
  /\ \E leaves \in LeafInputs :
       nodes = [p \in Position |-> IF p < N THEN 0 ELSE leaves[p - N]]
  /\ i = N - 1
  /\ start = 1 /\ current = 1 /\ path = <<>>
  /\ claimed = 1 /\ leaf_value = 0 /\ auth_path = <<>> /\ height = 0
  /\ current_idx = 0 /\ current_value = 0 /\ level = 0
  /\ hashed = {} /\ verdict = "none"

-------------------------------------------------------------------------------
(***************************************************************************)
(* MerkleTree::build: internal nodes, bottom-up.                           *)
(***************************************************************************)
BuildStep ==
  /\ pc = "build"
  /\ i >= 1
  /\ nodes' = [nodes EXCEPT ![i] = Hash[<<nodes[2 * i], nodes[2 * i + 1]>>]]
  /\ i' = i - 1
  /\ UNCHANGED <<pc, pathVars, verifyVars>>

BuildReturn ==
  /\ pc = "build"
  /\ i = 0
  /\ pc' = "ready"
  /\ UNCHANGED <<treeVars, pathVars, verifyVars>>

(***************************************************************************)
(* auth_path(leaf_idx) and imt_auth_path(fallback_idx): one loop.          *)
(***************************************************************************)
PathBegin(p) ==
  /\ pc \in {"ready", "done"}
  /\ pc' = "path"
  /\ start' = p
  /\ current' = p
  /\ path' = <<>>
  /\ Forget
  /\ UNCHANGED treeVars

AuthPath(leaf_idx)        == PathBegin(N + leaf_idx)
ImtAuthPath(fallback_idx) == PathBegin(fallback_idx + 1)

PathStep ==
  /\ pc = "path"
  /\ current > 1
  /\ path' = Append(path, nodes[Sibling(current)])
  /\ current' = current \div 2
  /\ UNCHANGED <<pc, treeVars, start, verifyVars>>

PathReturn ==
  /\ pc = "path"
  /\ ~ current > 1
  /\ pc' = "sent"
  /\ UNCHANGED <<treeVars, pathVars, verifyVars>>

-------------------------------------------------------------------------------
(***************************************************************************)
(* Verification of a value and a path that were received.                  *)
(***************************************************************************)
\* The path as it was sent, or with one sibling altered, added or lost.
Received(sent) ==
  {sent} \cup {[sent EXCEPT ![m] = d] : m \in DOMAIN sent, d \in Digest}
         \cup {Append(sent, d) : d \in Digest}
         \cup {SubSeq(sent, 2, Len(sent))}

\* Mutant: the length of the path is not compared with the height.
ComputeRootUnchecked(p, wraps, value, received) ==
  /\ pc = "sent"
  /\ claimed' = p
  /\ leaf_value' = value
  /\ auth_path' = received
  /\ height' = Len(received)
  /\ current_idx' = LevelOffset(p) + wraps * PowerOfTwo[NodeDepth(p)]
  /\ current_value' = value
  /\ level' = 0
  /\ hashed' = {}
  /\ pc' = "root"
  /\ verdict' = "none"
  /\ UNCHANGED <<treeVars, pathVars>>

\* compute_root up to its loop.  Nothing bounds the index a signature carries
\* for a leaf: wraps is what it exceeds the width of the tree by.
ComputeRoot(p, wraps, value, received) ==
  /\ pc = "sent"
  /\ claimed' = p
  /\ leaf_value' = value
  /\ auth_path' = received
  /\ height' = NodeDepth(p)
  /\ current_idx' = LevelOffset(p) + wraps * PowerOfTwo[NodeDepth(p)]
  /\ current_value' = value
  /\ level' = 0
  /\ hashed' = {}
  /\ IF Len(received) # NodeDepth(p)
     THEN pc' = "done" /\ verdict' = "InvalidParameter"
     ELSE pc' = "root" /\ verdict' = "none"
  /\ UNCHANGED <<treeVars, pathVars>>

\* The two inputs of merkle_node_hash, the left one first.
Children(idx, value, sibling) ==
  IF idx % 2 = 0 THEN <<value, sibling>> ELSE <<sibling, value>>

RootStep ==
  /\ pc = "root"
  /\ level < Len(auth_path)
  /\ LET pair == Children(current_idx, current_value, auth_path[level + 1])
     IN  /\ current_value' = Hash[pair]
         /\ hashed' = hashed \cup {pair}
  /\ current_idx' = current_idx \div 2
  /\ level' = level + 1
  /\ UNCHANGED <<pc, treeVars, pathVars, claimed, leaf_value, auth_path, height, verdict>>

\* verify_leaf_membership, and the comparison with gpk in dgmt_verify.
Compare ==
  /\ pc = "root"
  /\ level = Len(auth_path)
  /\ pc' = "done"
  /\ verdict' = IF current_value = nodes[1] THEN "Ok" ELSE "MerkleVerificationFailed"
  /\ UNCHANGED <<treeVars, pathVars, claimed, leaf_value, auth_path, height,
                 current_idx, current_value, level, hashed>>

Next ==
  \/ BuildStep
  \/ BuildReturn
  \/ \E leaf_idx \in 0 .. N - 1 : AuthPath(leaf_idx)
  \/ \E fallback_idx \in 1 .. 2 * N - 2 : ImtAuthPath(fallback_idx)
  \/ PathStep
  \/ PathReturn
  \/ \E value \in Digest, received \in Received(path) :
       \/ \E fallback_idx \in 1 .. 2 * N - 2 :
            ComputeRoot(fallback_idx + 1, 0, value, received)
       \/ \E leaf_idx \in 0 .. N - 1, wraps \in Wraps :
            ComputeRoot(N + leaf_idx, wraps, value, received)
  \/ RootStep
  \/ Compare

Spec == Init /\ [][Next]_vars

-------------------------------------------------------------------------------
\* Every variable has its type; positions stay in the tree.
TypeOK ==
  /\ pc \in {"build", "ready", "path", "sent", "root", "done"}
  /\ nodes \in [Position -> Digest]
  /\ i \in 0 .. N - 1
  /\ start \in Position /\ current \in Position
  /\ path \in Seq(Digest) /\ auth_path \in Seq(Digest)
  /\ claimed \in Position
  /\ height \in 0 .. Height
  /\ leaf_value \in Digest /\ current_value \in Digest
  /\ current_idx \in Nat /\ level \in Nat
  /\ hashed \in SUBSET (Digest \X Digest)
  /\ verdict \in {"none", "Ok", "InvalidParameter", "MerkleVerificationFailed"}

\* Position p, m levels up.
Ancestor(p, m) == p \div PowerOfTwo[m]

\* A node, leaf or inner, with the path taken for it recomputes the root: the
\* lengths agree, and the side at each level is that of the position.
OwnPathVerifies ==
  pc = "done" /\ claimed = start /\ leaf_value = nodes[start] /\ auth_path = path
    => verdict = "Ok"

\* What was received is what the tree holds at and beside the claimed position.
Genuine ==
  /\ leaf_value = nodes[claimed]
  /\ \A m \in 1 .. height : auth_path[m] = nodes[Sibling(Ancestor(claimed, m - 1))]

\* Two different pairs with one hash value: one in the tree, one hashed now.
Collision ==
  \E pair \in hashed, p \in 1 .. N - 1 :
    /\ Hash[pair] = nodes[p]
    /\ pair # <<nodes[2 * p], nodes[2 * p + 1]>>

\* Whatever was altered on the way, acceptance means that the value and each
\* sibling are the tree's, unless the hash function collides: no node passes as
\* a node of another level or place.
AcceptedIsGenuine == verdict = "Ok" => Genuine \/ Collision
===============================================================================
