--------------------------------- MODULE Group ---------------------------------
(***************************************************************************)
(* A DGMT group at work: the manager of module Manager, its members, who   *)
(* sign with the keys they received, and verifiers, each with the copy of  *)
(* the public parameters it downloaded last.                               *)
(*                                                                         *)
(* Source: crates/knee-tie-crypto/src/dgmt/{sign,verify,open,keygen}.rs.   *)
(***************************************************************************)
EXTENDS Manager

CONSTANTS
  Verifiers,   \* holders of a downloaded copy of DgmtPublicParams
  Messages,    \* what members sign
  MaxSigs,     \* bound: signatures made
  MaxKeys      \* bound: keys a member draws

ASSUME BoundsAssumption == MaxSigs \in Nat /\ MaxKeys \in Nat

VARIABLES
  sigs,        \* the signatures in circulation; `by` is known to no program
  rl_copy      \* per verifier, the rl of its copy of the public parameters

groupVars == <<vars, sigs, rl_copy>>

DgmtSignature == [by : Ids, message : Messages, key : SigningKey]

GroupInit ==
  /\ Init
  /\ sigs = {}
  /\ rl_copy = [v \in Verifiers |-> {}]

\* The bounded manager: a member asks for no more than MaxKeys keys.
ManagerStep ==
  /\ Next
  /\ \A id \in Ids :
       Running(id)' => Cardinality(wallet[id]) + call'[id].b <= MaxKeys
  /\ UNCHANGED <<sigs, rl_copy>>

\* dgmt_sign only borrows the key; "the caller must mark the key as used", so
\* a key that has signed is not taken again.
Sign(id, key, message) ==
  /\ key \in wallet[id]
  /\ \A s \in sigs : ~ (s.by = id /\ s.key = key)
  /\ Cardinality(sigs) < MaxSigs
  /\ sigs' = sigs \cup {[by |-> id, message |-> message, key |-> key]}
  /\ UNCHANGED <<vars, rl_copy>>

\* A verifier downloads the public parameters (no code of this crate moves
\* them; the library hands out clones of pp).
DownloadRl(v) ==
  /\ rl_copy' = [rl_copy EXCEPT ![v] = rl]
  /\ UNCHANGED <<vars, sigs>>

GroupNext ==
  \/ ManagerStep
  \/ \E id \in Ids, message \in Messages :
       \E key \in wallet[id] : Sign(id, key, message)
  \/ \E v \in Verifiers : DownloadRl(v)

GroupSpec == GroupInit /\ [][GroupNext]_groupVars

-------------------------------------------------------------------------------
(***************************************************************************)
(* Verification and opening read the state and change nothing.             *)
(***************************************************************************)
\* The tag hashed into leaf l' of SMT(2)_{i,j,k}: that of the l which the
\* shuffle sends there (inv_shuffle in build_signing_key).
LeafTags(i, j, k, l_prime) ==
  {<<i, j, k, l>> : l \in {m \in Leaf : Shuffle[<<i, j, k>>][m] = l_prime}}

\* dgmt_verify against revocation list `list`: a listed tag fails; the roots
\* come out as gpk exactly for a leaf whose tag is the one the tree was built
\* with; the fallback key of (i, j) must exist.
Verifies(key, list) ==
  /\ key.dgmt_pos \notin list
  /\ key.dgmt_pos \in LeafTags(key.i, key.j, key.k, key.l_prime)
  /\ (key.i - 1) * Gamma + (key.j - 1) < NumFn * Gamma

\* verify_open_consistency of the indices opened from tag t with a signature.
OpenConsistent(t, key) ==
  /\ t[1] = key.i
  /\ t[2] = key.j
  /\ t[3] = key.k

-------------------------------------------------------------------------------
\* Every variable of the group has its type.
GroupTypeOK ==
  /\ TypeOK
  /\ sigs \in SUBSET DgmtSignature
  /\ rl_copy \in [Verifiers -> SUBSET DgmtPos]

\* Against the current revocation list a signature verifies exactly while its
\* signer is active, whenever the key was issued and the signature was made.
CurrentListVerdict ==
  \A s \in sigs : Verifies(s.key, rl) <=> status[s.by] = "Active"

\* A verifier with an old list never turns an active member's signature down.
OldListAcceptsActive ==
  \A v \in Verifiers, s \in sigs :
    status[s.by] = "Active" => Verifies(s.key, rl_copy[v])

\* Whatever list a verifier holds, it turns down all signatures of a member,
\* past and later ones, or none of them.
VerdictIsPerMember ==
  \A v \in Verifiers : \A s, t \in sigs :
    s.by = t.by => (Verifies(s.key, rl_copy[v]) <=> Verifies(t.key, rl_copy[v]))

\* A verifier that has turned a signature down never accepts it later.
RejectionIsFinal ==
  [][\A v \in Verifiers : \A s \in sigs :
       ~ Verifies(s.key, rl_copy[v]) => ~ Verifies(s.key, rl_copy'[v])]_groupVars

\* Opening a signature names its signer and fits its index fields.
OpeningIdentifiesSigner ==
  \A s \in sigs :
    /\ OpenTag(s.key.dgmt_pos) = s.by
    /\ OpenConsistent(s.key.dgmt_pos, s.key)

\* "A valid opening must satisfy: ... recovered.l_global maps to sig.l_prime
\* via the shuffle" (open.rs): an opening that verify_open_consistency accepts
\* for a signature maps to the leaf of that signature.
ConsistentOpeningFitsLeaf ==
  \A s, t \in sigs : OpenConsistent(s.key.dgmt_pos, t.key) =>
    s.key.dgmt_pos \in LeafTags(t.key.i, t.key.j, t.key.k, t.key.l_prime)
===============================================================================
