----------------------------- MODULE SignatureChain -----------------------------
(***************************************************************************)
(* The chain from a message to the group public key: key generation with   *)
(* its table of fallback keys, the signing keys the manager builds, what a *)
(* member signs with them, and verification of what arrived, link by link: *)
(* message, SMT(2), SMT(1), fallback key, IMT.  The links that are modules *)
(* of their own appear by their results: a one-time signature recovers its *)
(* key from the value it was made for and nothing from another (Wots), a   *)
(* path recomputes its root from its own leaf and nothing known from       *)
(* another (MerkleTree).                                                   *)
(*                                                                         *)
(* Source: crates/knee-tie-crypto/src/dgmt/{keygen,join,sign,verify}.rs.   *)
(***************************************************************************)
EXTENDS DgmtParams, Sprp

CONSTANTS
  Bits, Word,  \* width of u32, and 2^Bits
  ImtNode,     \* the values of the fallback nodes
  Gpk,         \* the root of the IMT
  Smt1Root,    \* r_ij
  Zero,        \* the block FK is filled with at first
  Messages,
  Handed,      \* bound: the leaves <<i, j, k, l>> whose keys were handed out
  Strays,      \* bound: what hashing a value off the trees may yield
  MaxSigs,     \* bound: signatures made
  MaxListed    \* bound: tags on the list

U32 == 0 .. Word - 1

\* The sizes the index arithmetic of the code needs: (hI, gamma) may not
\* exhaust u32.  DgmtParams::new does not check it.
ASSUME WidthAssumption ==
  /\ Bits \in Nat \ {0} /\ Word \in Nat /\ Word = 2 ^ Bits
  /\ NumFn * Gamma <= Word
  /\ NumFn + 1 < Word
  /\ Gamma < Word
  /\ 2 * Alpha <= Word

\* No two of these hashes collide.
ASSUME TreesAssumption ==
  /\ ImtNode \in [Fn -> Block]
  /\ \A i, n \in Fn : ImtNode[i] = ImtNode[n] => i = n
  /\ Gpk \in Block /\ \A i \in Fn : ImtNode[i] # Gpk
  /\ Smt1Root \in [Fn \X Smtmt -> Block]
  /\ \A s, t \in Fn \X Smtmt : Smt1Root[s] = Smt1Root[t] => s = t
  /\ Zero \in Block
  /\ Handed \subseteq DgmtPos
  /\ Strays \subseteq Block
  /\ \A t \in Fn \X Smtmt : Smt1Root[t] \notin Strays

VARIABLES
  loop,          \* <<i, j>> of build_public_params
  fk, rl,        \* of DgmtPublicParams
  sigs,          \* the signatures members made
  sig, message,  \* the arguments of dgmt_verify
  r_ij,          \* its local: the SMT(1) root it recomputed
  verdict

ppVars     == <<loop, fk, rl>>
verifyVars == <<sig, message, r_ij, verdict>>
vars       == <<ppVars, sigs, verifyVars>>

FkIndices == 0 .. NumFn * Gamma - 1

Init ==
  /\ loop = <<1, 1>>
  /\ fk = [n \in FkIndices |-> Zero]
  /\ rl = {}
  /\ sigs = {}
  /\ sig = <<>> /\ message = <<>> /\ r_ij = Zero /\ verdict = "none"

-------------------------------------------------------------------------------
(***************************************************************************)
(* build_public_params: one fallback key per SMTMT.                        *)
(***************************************************************************)
\* Mutant: the inner loop takes one turn more.
SetupStepInclusive ==
  LET i == loop[1]
      j == loop[2]
  IN  /\ i \in Fn
      /\ fk' = [fk EXCEPT ![((i - 1) * Gamma + (j - 1)) % Word] =
                   sprp_eval(Smt1Root[<<i, ((j - 1) % Gamma) + 1>>], ImtNode[i])]
      /\ loop' = IF j <= Gamma THEN <<i, j + 1>> ELSE <<i + 1, 1>>
      /\ UNCHANGED <<rl, sigs, verifyVars>>

SetupStep ==
  LET i == loop[1]
      j == loop[2]
  IN  /\ i \in Fn
      /\ fk' = [fk EXCEPT ![((i - 1) * Gamma + (j - 1)) % Word] =
                   sprp_eval(Smt1Root[<<i, j>>], ImtNode[i])]
      /\ loop' = IF j < Gamma THEN <<i, j + 1>> ELSE <<i + 1, 1>>
      /\ UNCHANGED <<rl, sigs, verifyVars>>

Published == loop = <<NumFn + 1, 1>>

-------------------------------------------------------------------------------
(***************************************************************************)
(* Trees and one-time signatures.  A one-time key is named by its place:   *)
(* <<i, j, k, l'>> in SMT(2), <<i, j, k>> in SMT(1); <<>> is any hash or   *)
(* key that belongs to no tree.  A path names its tree and leaf.           *)
(***************************************************************************)
WotsSign(ots_key, hash) == [by |-> ots_key, of |-> hash]

WotsPkFromSig(wots_sig, hash) ==
  IF hash = wots_sig.of THEN wots_sig.by ELSE <<>>

\* Mutant: the tag is left out of the leaf.
LeafWithoutTag(pk, dgmt_pos) ==
  IF pk = <<>> THEN <<>> ELSE <<pk>>

dgmt_leaf_hash(pk, dgmt_pos) == <<pk, dgmt_pos>>

\* Leaf l' of SMT(2)_{i,j,k}, with the tag of inv_shuffle[l'].
Smt2Leaf(i, j, k, l_prime) ==
  LET l == CHOOSE m \in Leaf : ComputeShuffle(i, j, k)[m] = l_prime
  IN  dgmt_leaf_hash(<<i, j, k, l_prime>>, <<i, j, k, l>>)

\* compute_root looks at the low bits of the index only.
Smt2Root(leaf, index, path) ==
  LET t == path.tree
  IN  IF leaf = Smt2Leaf(t[1], t[2], t[3], path.leaf) /\ index % Alpha = path.leaf
      THEN t ELSE <<>>

\* The leaf of SMT(1) is the hash of the key alone.
Smt1RootFrom(pk, index, path, stray) ==
  LET t == path.tree
  IN  IF pk = <<t[1], t[2], path.leaf>> /\ index % Alpha = path.leaf
      THEN Smt1Root[t] ELSE stray

LeadingZeros(x) == Cardinality({d \in 0 .. Bits - 1 : x < 2 ^ d})

\* For i = u32::MAX, where bfs_idx wraps to 0, the depth does as well.
FallbackNodeDepth(i) == (Bits - LeadingZeros((i + 1) % Word) - 1) % Word

\* bfs_idx - (1u32 << depth)
LevelOffset(i) == (i + 1 - 2 ^ (FallbackNodeDepth(i) % Bits)) % Word

-------------------------------------------------------------------------------
(***************************************************************************)
(* The manager's keys and dgmt_sign.                                       *)
(***************************************************************************)
BuildSigningKey(i, j, k, l) ==
  LET l_prime == ComputeShuffle(i, j, k)[l]
  IN  [i |-> i, j |-> j, k |-> k, l_prime |-> l_prime,
       ots_sk |-> <<i, j, k, l_prime>>,
       dgmt_pos |-> <<i, j, k, l>>,
       auth_path_smt2 |-> [tree |-> <<i, j, k>>, leaf |-> l_prime],
       smt1_ots_sk |-> <<i, j, k>>,
       auth_path_smt1 |-> [tree |-> <<i, j>>, leaf |-> k],
       auth_path_imt |-> i]

\* Mutant: the SMT(1) key signs the leaf, not the root above it.
DgmtSignLeaf(m, key) ==
  [i |-> key.i, j |-> key.j, k |-> key.k, l_prime |-> key.l_prime,
   sig_message |-> WotsSign(key.ots_sk, <<m, FallbackNodeDepth(key.i)>>),
   dgmt_pos |-> key.dgmt_pos,
   auth_path_smt2 |-> key.auth_path_smt2,
   sig_smt2_root |-> WotsSign(key.smt1_ots_sk, dgmt_leaf_hash(key.ots_sk, key.dgmt_pos)),
   auth_path_smt1 |-> key.auth_path_smt1,
   auth_path_imt |-> key.auth_path_imt]

DgmtSign(m, key) ==
  LET leaf_val == dgmt_leaf_hash(key.ots_sk, key.dgmt_pos)
      r_ijk    == Smt2Root(leaf_val, key.l_prime, key.auth_path_smt2)
  IN  [i |-> key.i, j |-> key.j, k |-> key.k, l_prime |-> key.l_prime,
       sig_message |-> WotsSign(key.ots_sk, <<m, FallbackNodeDepth(key.i)>>),
       dgmt_pos |-> key.dgmt_pos,
       auth_path_smt2 |-> key.auth_path_smt2,
       sig_smt2_root |-> WotsSign(key.smt1_ots_sk, r_ijk),
       auth_path_smt1 |-> key.auth_path_smt1,
       auth_path_imt |-> key.auth_path_imt]

\* "The caller must mark the key as used": a key signs once.
Sign(t, m) ==
  LET key == BuildSigningKey(t[1], t[2], t[3], t[4])
  IN  /\ Published
      /\ verdict = "none"
      /\ Cardinality(sigs) < MaxSigs
      /\ \A s \in sigs : s.sig_message.by # key.ots_sk
      /\ sigs' = sigs \cup {DgmtSign(m, key)}
      /\ UNCHANGED <<ppVars, verifyVars>>

Revoke(t) ==
  /\ Published
  /\ verdict = "none"
  /\ Cardinality(rl) < MaxListed
  /\ rl' = rl \cup {t}
  /\ UNCHANGED <<loop, fk, sigs, verifyVars>>

-------------------------------------------------------------------------------
(***************************************************************************)
(* dgmt_verify.                                                            *)
(***************************************************************************)
FkIdx(i, j) == ((i - 1) * Gamma + (j - 1)) % Word

\* Where a build with overflow checks panics; others wrap.
Overflows(i, j) ==
  \/ i = Word - 1
  \/ i = 0 \/ j = 0
  \/ (i - 1) * Gamma + (j - 1) >= Word

\* The SMT(1) root recomputed for message m from signature s.
RootIj(m, s, stray) ==
  LET m_prime == <<m, FallbackNodeDepth(s.i)>>
      leaf    == dgmt_leaf_hash(WotsPkFromSig(s.sig_message, m_prime), s.dgmt_pos)
      r_ijk   == Smt2Root(leaf, s.l_prime, s.auth_path_smt2)
  IN  Smt1RootFrom(WotsPkFromSig(s.sig_smt2_root, r_ijk), s.k, s.auth_path_smt1, stray)

\* The value a path of the IMT starts from.  Node 0 is the root itself: its path
\* is empty, and compute_root returns what it is given.
ImtValue(n) == IF n = 0 THEN Gpk ELSE ImtNode[n]

\* The IMT root comes out as gpk for node n, taken for the one s.i names,
\* exactly if that is its place and fn_i its value.
ReachesGpk(fn_i, s) ==
  LET n == s.auth_path_imt
  IN  fn_i = ImtValue(n) /\ LevelOffset(s.i) = LevelOffset(n)

\* The checks in their order: the list, the range of the table, the length of
\* the IMT path (those of the SMTs are as long as their trees are high), gpk.
Verdict(s, root, checked) ==
  LET fk_idx == FkIdx(s.i, s.j)
  IN  IF s.dgmt_pos \in rl THEN "Failed"
      ELSE IF checked /\ Overflows(s.i, s.j) THEN "Panic"
      ELSE IF \/ fk_idx \notin FkIndices
              \/ FallbackNodeDepth(s.auth_path_imt) # FallbackNodeDepth(s.i)
           THEN "InvalidParameter"
      ELSE IF ReachesGpk(sprp_inv(root, fk[fk_idx]), s) THEN "Ok"
      ELSE "Failed"

\* Verification keeps no state: one stands for all.
DgmtVerify(s, m) ==
  /\ sig' = s /\ message' = m
  /\ \E stray \in Strays, checked \in BOOLEAN :
       /\ r_ij' = RootIj(m, s, stray)
       /\ verdict' = Verdict(s, r_ij', checked)
  /\ UNCHANGED <<ppVars, sigs>>

Fields == {"i", "j", "k", "l_prime", "sig_message", "dgmt_pos", "auth_path_smt2",
           "sig_smt2_root", "auth_path_smt1", "auth_path_imt"}

Spliced(s, t, from) == [f \in Fields |-> IF f \in from THEN s[f] ELSE t[f]]

Renumbered(s, f1, n1, f2, n2) ==
  [f \in Fields |-> IF f = f1 THEN n1 ELSE IF f = f2 THEN n2 ELSE s[f]]

\* What arrives: a signature with some fields of another one, or one with other
\* indices of its leaves or of its tree, its IMT path left as it was or emptied.
Received ==
  {Spliced(s, t, from) : s \in sigs, t \in sigs, from \in SUBSET Fields}
  \cup {Renumbered(s, "i", n1, "j", n2) : s \in sigs, n1 \in U32, n2 \in U32}
  \cup {[Renumbered(s, "i", n1, "j", n2) EXCEPT !.auth_path_imt = 0] :
          s \in sigs, n1 \in U32, n2 \in U32}
  \cup {Renumbered(s, "k", n1, "l_prime", n2) :
          s \in sigs, n1 \in 0 .. 2 * Alpha - 1, n2 \in 0 .. 2 * Alpha - 1}

Next ==
  \/ SetupStep
  \/ \E t \in Handed, m \in Messages : Sign(t, m)
  \/ \E t \in Handed : Revoke(t)
  \/ /\ verdict = "none"
     /\ \E s \in Received, m \in Messages : DgmtVerify(s, m)

Spec == Init /\ [][Next]_vars

-------------------------------------------------------------------------------
(***************************************************************************)
(* Properties.                                                             *)
(***************************************************************************)
\* The loop of build_public_params stays inside the trees it has, the table
\* holds blocks, and each verification ends in one of its answers.
TypeOK ==
  /\ loop \in (Fn \X Smtmt) \cup {<<NumFn + 1, 1>>}
  /\ fk \in [FkIndices -> Block]
  /\ rl \subseteq DgmtPos
  /\ r_ij \in Block
  /\ verdict \in {"none", "Ok", "Failed", "Panic", "InvalidParameter"}

\* A signature that arrives as it was made verifies for its message, in every
\* tree and under each build, unless its tag is listed: signing, the table of
\* fallback keys and verification agree on every index.
OwnSignatureVerifies ==
  (verdict # "none" /\ sig \in sigs /\ message = sig.sig_message.of[1]) =>
    (verdict = "Ok" <=> sig.dgmt_pos \notin rl)

\* compute_root reduces k and l' to the width of the trees silently; all other
\* fields of the verified signature are those of u.
SameUpToWidth(u) ==
  /\ sig.k % Alpha = u.k
  /\ sig.l_prime % Alpha = u.l_prime
  /\ \A f \in Fields \ {"k", "l_prime"} : sig[f] = u[f]

\* The fallback key was made under another root than the one it was undone
\* with, and gave the node, or gpk for an empty path, all the same.
SprpCoincidence ==
  LET fk_idx == FkIdx(sig.i, sig.j)
  IN  /\ r_ij # Smt1Root[<<(fk_idx \div Gamma) + 1, (fk_idx % Gamma) + 1>>]
      /\ sprp_inv(r_ij, fk[fk_idx]) = ImtValue(sig.auth_path_imt)

\* What verifies is one member's signature of that very message, in all its
\* parts, with a tag that is not listed: parts of two signatures do not make a
\* third, and no index outside the trees, wrapped or not, is accepted.
AcceptedIsGenuine ==
  verdict = "Ok" =>
    /\ sig.dgmt_pos \notin rl
    /\ \/ \E u \in sigs : u.sig_message.of[1] = message /\ SameUpToWidth(u)
       \/ SprpCoincidence

\* The SMT(1) key <<i, j, k>> is handed to every member with a leaf below it
\* and used by each of them: it signs one value only.
InnerKeySignsOneRoot ==
  \A s, t \in sigs :
    s.sig_smt2_root.by = t.sig_smt2_root.by => s.sig_smt2_root = t.sig_smt2_root
===============================================================================
