------------------------- MODULE SignatureChain_proofs -------------------------
(***************************************************************************)
(* Proofs about SignatureChain, for all parameters, trees and bounds: the  *)
(* permutation inverts, signatures verify, and what verifies was signed.   *)
(***************************************************************************)
EXTENDS SignatureChain, DgmtParams_proofs

-------------------------------------------------------------------------------
(***************************************************************************)
(* The permutation.                                                        *)
(***************************************************************************)
LEMMA SprpTypes ==
  ASSUME NEW key \in Block, NEW x \in Block
  PROVE  sprp_eval(key, x) \in Block /\ sprp_inv(key, x) \in Block
BY SprpAssumption DEF Block, sprp_eval, sprp_inv

\* sprp_inv undoes sprp_eval and the other way round, under every key, whatever
\* function AES is: a fallback node is recovered from its key and a leaf index
\* from its tag.
THEOREM SprpInverts ==
  ASSUME NEW key \in Block, NEW x \in Block
  PROVE  /\ sprp_inv(key, sprp_eval(key, x)) = x
         /\ sprp_eval(key, sprp_inv(key, x)) = x
<1> DEFINE round(n, h) == Aes128[<<key[n], h>>]
<1>1. key[1] \in Half /\ key[2] \in Half /\ x[1] \in Half /\ x[2] \in Half /\ x = <<x[1], x[2]>>
  BY DEF Block
<1>2. \A h \in Half : round(1, h) \in Half /\ round(2, h) \in Half
  BY <1>1, SprpAssumption
<1>3. \A a, b \in Half : Xor[<<Xor[<<a, b>>], b>>] = a /\ Xor[<<a, b>>] \in Half
  BY SprpAssumption
<1>4. sprp_inv(key, sprp_eval(key, x)) = x
  <2> DEFINE yl == Xor[<<x[2], round(1, x[1])>>]
             yr == Xor[<<x[1], round(2, yl)>>]
             xl == Xor[<<yr, round(2, yl)>>]
  <2>1. sprp_eval(key, x) = <<yl, yr>>
    BY DEF sprp_eval
  <2>2. sprp_inv(key, <<yl, yr>>) = <<xl, Xor[<<yl, round(1, xl)>>]>>
    BY DEF sprp_inv
  <2>3. yl \in Half
    BY <1>1, <1>2, <1>3
  <2> HIDE DEF round
  <2>4. xl = x[1]
    BY <1>1, <1>2, <1>3, <2>3
  <2>5. Xor[<<yl, round(1, x[1])>>] = x[2]
    BY <1>1, <1>2, <1>3
  <2> QED BY <1>1, <2>1, <2>2, <2>4, <2>5
<1>5. sprp_eval(key, sprp_inv(key, x)) = x
  <2> DEFINE xl == Xor[<<x[2], round(2, x[1])>>]
             xr == Xor[<<x[1], round(1, xl)>>]
             yl == Xor[<<xr, round(1, xl)>>]
  <2>1. sprp_inv(key, x) = <<xl, xr>>
    BY DEF sprp_inv
  <2>2. sprp_eval(key, <<xl, xr>>) = <<yl, Xor[<<xl, round(2, yl)>>]>>
    BY DEF sprp_eval
  <2>3. xl \in Half
    BY <1>1, <1>2, <1>3
  <2> HIDE DEF round
  <2>4. yl = x[1]
    BY <1>1, <1>2, <1>3, <2>3
  <2>5. Xor[<<xl, round(2, x[1])>>] = x[2]
    BY <1>1, <1>2, <1>3
  <2> QED BY <1>1, <2>1, <2>2, <2>4, <2>5
<1> QED BY <1>4, <1>5

-------------------------------------------------------------------------------
(***************************************************************************)
(* Arithmetic.                                                             *)
(***************************************************************************)
\* Numbers less than w apart are equal if they are equal modulo w.
LEMMA ModCancel ==
  ASSUME NEW w \in Nat \ {0}, NEW x \in Int, NEW y \in Int, x % w = y % w, x - y < w, y - x < w
  PROVE  x = y
<1>1. PICK q \in Int : q = x \div w /\ x = w * q + (x % w)
  <2>1. x \div w \in Int /\ x = w * (x \div w) + (x % w)
    OBVIOUS
  <2> QED BY <2>1
<1>2. PICK r \in Int : r = y \div w /\ y = w * r + (y % w)
  <2>1. y \div w \in Int /\ y = w * (y \div w) + (y % w)
    OBVIOUS
  <2> QED BY <2>1
<1>3. x - y = w * q - w * r
  BY <1>1, <1>2
<1>4. ASSUME NEW a \in Int, NEW b \in Int, a < b PROVE w * b - w * a >= w
  <2>1. w * b - w * a = w * (b - a)
    OBVIOUS
  <2>2. b - a - 1 \in Nat /\ w * (b - a) = w + w * (b - a - 1)
    BY <1>4
  <2>3. w * (b - a - 1) >= 0
    BY <2>2
  <2> QED BY <2>1, <2>2, <2>3
<1>5. ~ q < r /\ ~ r < q
  BY <1>3, <1>4
<1> QED BY <1>1, <1>2, <1>5

LEMMA Widths ==
  /\ Word \in Nat \ {0} /\ Bits \in Nat \ {0}
  /\ Fn \subseteq U32 /\ Smtmt \subseteq U32 /\ Leaf \subseteq U32
  /\ \A i \in Fn : i # 0 /\ i # Word - 1
  /\ \A j \in Smtmt : j # 0
<1>1. NumFn \in Nat /\ Gamma \in Nat /\ Alpha \in Nat
  BY ParamsAssumption, ParamTypes
<1> QED BY <1>1, WidthAssumption DEF Fn, Smtmt, Leaf, U32

\* Depth and shift are numbers, for every index, wrapped or not.
LEMMA DepthType ==
  ASSUME NEW i \in U32
  PROVE  /\ FallbackNodeDepth(i) \in U32
         /\ 2 ^ (FallbackNodeDepth(i) % Bits) \in Int
<1> DEFINE zeros == {d \in 0 .. Bits - 1 : (i + 1) % Word < 2 ^ d}
<1>1. IsFiniteSet(0 .. Bits - 1)
  BY Widths, FS_Interval
<1>2. Cardinality(zeros) \in Nat
  BY <1>1, FS_Subset, FS_CardinalityType
<1>3. FallbackNodeDepth(i) = (Bits - Cardinality(zeros) - 1) % Word
  BY DEF FallbackNodeDepth, LeadingZeros
<1> HIDE DEF zeros
<1>4. FallbackNodeDepth(i) \in 0 .. Word - 1
  BY <1>2, <1>3, Widths
<1>5. FallbackNodeDepth(i) % Bits \in Nat
  BY <1>4, Widths
<1>6. \A d \in Nat : 2 ^ d \in Int
  BY SMT
<1> QED BY <1>4, <1>5, <1>6 DEF U32

\* A wrapped or shifted index that is at the depth and offset of node n is n.
LEMMA DepthAndOffset ==
  ASSUME NEW i \in U32, NEW n \in U32,
         FallbackNodeDepth(i) = FallbackNodeDepth(n), LevelOffset(i) = LevelOffset(n)
  PROVE  i = n
<1>1. PICK p \in Int : p = 2 ^ (FallbackNodeDepth(i) % Bits)
  BY DepthType
<1>2. (i + 1 - p) % Word = (n + 1 - p) % Word
  BY <1>1 DEF LevelOffset
<1>3. i + 1 - p \in Int /\ n + 1 - p \in Int /\ (i + 1 - p) - (n + 1 - p) < Word
      /\ (n + 1 - p) - (i + 1 - p) < Word
  BY <1>1, Widths DEF U32
<1>4. i + 1 - p = n + 1 - p
  BY <1>2, <1>3, ModCancel, Widths
<1> QED BY <1>1, <1>4, Widths DEF U32

\* Within the trees, the index of the table neither wraps nor overflows.
LEMMA FkIdxInTrees ==
  ASSUME NEW i \in Fn, NEW j \in Smtmt
  PROVE  /\ FkIdx(i, j) = (i - 1) * Gamma + (j - 1)
         /\ FkIdx(i, j) \in FkIndices
         /\ ~ Overflows(i, j)
         /\ FkIdx(i, j) \div Gamma = i - 1
         /\ FkIdx(i, j) % Gamma = j - 1
<1>1. /\ NumFn \in Nat /\ Gamma \in Nat \ {0} /\ i - 1 \in Nat /\ i - 1 < NumFn
      /\ j - 1 \in 0 .. Gamma - 1
  BY ParamsAssumption DEF Fn, Smtmt
<1> DEFINE a == i - 1
           b == j - 1
<1> HIDE DEF a, b
<1>2. a \in Nat /\ b \in 0 .. Gamma - 1 /\ a < NumFn
  BY <1>1 DEF a, b
<1>3. Gamma * NumFn >= Gamma * a + Gamma
  BY <1>1, <1>2, MulGrows
<1>4. a * Gamma = Gamma * a /\ NumFn * Gamma = Gamma * NumFn /\ Gamma * a \in Nat /\ Gamma * NumFn \in Nat
  BY <1>1, <1>2
<1> DEFINE x == a * Gamma + b
<1>5. x \in Nat /\ x < NumFn * Gamma /\ x < Word /\ x = Gamma * a + b
  BY <1>1, <1>2, <1>3, <1>4, WidthAssumption
<1> HIDE DEF x
<1>6. x % Word = x
  BY <1>5, WidthAssumption
<1>7. FkIdx(i, j) = x
  BY <1>6 DEF FkIdx, a, b, x
<1>8. x \div Gamma = a
  BY <1>1, <1>2, <1>5, DivUnique
<1>9. x % Gamma = b
  <2>1. /\ x \div Gamma \in Nat /\ x % Gamma \in 0 .. Gamma - 1
        /\ x = Gamma * (x \div Gamma) + (x % Gamma)
    <3>1. x \in Nat /\ Gamma \in Nat \ {0}
      BY <1>1, <1>5
    <3> QED BY <3>1
  <2>2. x = Gamma * a + (x % Gamma)
    BY <2>1, <1>8
  <2> QED BY <2>1, <2>2, <1>2, <1>4, <1>5
<1>10. ~ Overflows(i, j)
  <2>1. i \in Int /\ j \in Int /\ i # 0 /\ j # 0 /\ i # Word - 1
    BY Widths DEF Fn, Smtmt
  <2>2. (i - 1) * Gamma + (j - 1) = x
    BY DEF a, b, x
  <2> QED BY <2>1, <2>2, <1>5, WidthAssumption DEF Overflows
<1>11. x \in FkIndices
  BY <1>5, <1>1, <1>4 DEF FkIndices
<1> QED BY <1>7, <1>8, <1>9, <1>10, <1>11 DEF a, b, x

-------------------------------------------------------------------------------
(***************************************************************************)
(* What signing makes.                                                     *)
(***************************************************************************)
LPrime(t) == ComputeShuffle(t[1], t[2], t[3])[t[4]]

\* The signature of message m by the key of leaf t, in full.
Made(m, t) ==
  [i |-> t[1], j |-> t[2], k |-> t[3], l_prime |-> LPrime(t),
   sig_message |-> [by |-> <<t[1], t[2], t[3], LPrime(t)>>, of |-> <<m, FallbackNodeDepth(t[1])>>],
   dgmt_pos |-> <<t[1], t[2], t[3], t[4]>>,
   auth_path_smt2 |-> [tree |-> <<t[1], t[2], t[3]>>, leaf |-> LPrime(t)],
   sig_smt2_root |-> [by |-> <<t[1], t[2], t[3]>>, of |-> <<t[1], t[2], t[3]>>],
   auth_path_smt1 |-> [tree |-> <<t[1], t[2]>>, leaf |-> t[3]],
   auth_path_imt |-> t[1]]

LEMMA PosParts ==
  ASSUME NEW t \in DgmtPos
  PROVE  /\ t[1] \in Fn /\ t[2] \in Smtmt /\ t[3] \in Leaf /\ t[4] \in Leaf
         /\ t = <<t[1], t[2], t[3], t[4]>>
         /\ LPrime(t) \in Leaf
<1>1. t[1] \in Fn /\ t[2] \in Smtmt /\ t[3] \in Leaf /\ t[4] \in Leaf /\ t = <<t[1], t[2], t[3], t[4]>>
  BY DEF DgmtPos
<1>2. <<t[1], t[2], t[3]>> \in Fn \X Smtmt \X Leaf
  BY <1>1
<1>3. Shuffle[<<t[1], t[2], t[3]>>][t[4]] \in Leaf
  BY <1>1, <1>2, ShuffleType
<1>4. Shuffle[<<t[1], t[2], t[3]>>] = ComputeShuffle(t[1], t[2], t[3])
  BY <1>2 DEF Shuffle
<1> QED BY <1>1, <1>3, <1>4 DEF LPrime

\* A leaf of an SMT(2) holds the tag of the leaf index the shuffle sent to it.
LEMMA LeafHolds ==
  ASSUME NEW t \in DgmtPos
  PROVE  Smt2Leaf(t[1], t[2], t[3], LPrime(t)) = <<<<t[1], t[2], t[3], LPrime(t)>>, t>>
<1> DEFINE u == <<t[1], t[2], t[3]>>
           l == CHOOSE m \in Leaf : ComputeShuffle(t[1], t[2], t[3])[m] = LPrime(t)
<1>1. u \in Fn \X Smtmt \X Leaf /\ t[4] \in Leaf /\ Shuffle[u] = ComputeShuffle(t[1], t[2], t[3])
  BY PosParts DEF Shuffle
<1>2. l \in Leaf /\ ComputeShuffle(t[1], t[2], t[3])[l] = ComputeShuffle(t[1], t[2], t[3])[t[4]]
  BY <1>1 DEF LPrime
<1>3. Smt2Leaf(t[1], t[2], t[3], LPrime(t)) = <<<<t[1], t[2], t[3], LPrime(t)>>, <<t[1], t[2], t[3], l>>>>
  BY DEF Smt2Leaf, dgmt_leaf_hash
<1> HIDE DEF u, l
<1>4. l = t[4]
  BY <1>1, <1>2, ShuffleInjective
<1> QED BY <1>3, <1>4, PosParts

LEMMA SignMakes ==
  ASSUME NEW m \in Messages, NEW t \in Handed
  PROVE  DgmtSign(m, BuildSigningKey(t[1], t[2], t[3], t[4])) = Made(m, t)
<1> DEFINE key  == BuildSigningKey(t[1], t[2], t[3], t[4])
           leaf == dgmt_leaf_hash(key.ots_sk, key.dgmt_pos)
<1>1. t \in DgmtPos
  BY TreesAssumption
<1>2. key = [i |-> t[1], j |-> t[2], k |-> t[3], l_prime |-> LPrime(t),
             ots_sk |-> <<t[1], t[2], t[3], LPrime(t)>>,
             dgmt_pos |-> <<t[1], t[2], t[3], t[4]>>,
             auth_path_smt2 |-> [tree |-> <<t[1], t[2], t[3]>>, leaf |-> LPrime(t)],
             smt1_ots_sk |-> <<t[1], t[2], t[3]>>,
             auth_path_smt1 |-> [tree |-> <<t[1], t[2]>>, leaf |-> t[3]],
             auth_path_imt |-> t[1]]
  BY DEF BuildSigningKey, LPrime
<1> HIDE DEF key
<1>3. leaf = Smt2Leaf(t[1], t[2], t[3], LPrime(t))
  BY <1>1, <1>2, LeafHolds, PosParts DEF dgmt_leaf_hash
<1>4. LPrime(t) \in Leaf /\ LPrime(t) % Alpha = LPrime(t)
  BY <1>1, PosParts, ParamTypes DEF Leaf
<1>5. Smt2Root(leaf, key.l_prime, key.auth_path_smt2) = <<t[1], t[2], t[3]>>
  BY <1>2, <1>3, <1>4 DEF Smt2Root
<1>6. DgmtSign(m, key) =
        [i |-> key.i, j |-> key.j, k |-> key.k, l_prime |-> key.l_prime,
         sig_message |-> WotsSign(key.ots_sk, <<m, FallbackNodeDepth(key.i)>>),
         dgmt_pos |-> key.dgmt_pos,
         auth_path_smt2 |-> key.auth_path_smt2,
         sig_smt2_root |-> WotsSign(key.smt1_ots_sk, <<t[1], t[2], t[3]>>),
         auth_path_smt1 |-> key.auth_path_smt1,
         auth_path_imt |-> key.auth_path_imt]
  BY <1>5 DEF DgmtSign
<1>7. DgmtSign(m, key) = Made(m, t)
  BY <1>2, <1>6 DEF Made, WotsSign
<1> QED BY <1>7 DEF key

\* Every signature in circulation was made for a leaf that was handed out.
SigsGenuine == \A u \in sigs : \E m \in Messages, t \in Handed : u = Made(m, t)

\* Field f of s comes from some signature in circulation.
PartOf(s, f) ==
  \E m \in Messages, t \in Handed : Made(m, t) \in sigs /\ s[f] = Made(m, t)[f]

Copied == Fields \ {"i", "j", "k", "l_prime", "auth_path_imt"}

LEMMA CopiedFields == Copied \cup {"auth_path_imt"} \subseteq Fields
BY DEF Copied, Fields

\* Whatever arrives has indices of the right types, and its other parts were
\* made by members, but for an IMT path that is empty.
LEMMA ReceivedParts ==
  ASSUME SigsGenuine, NEW s \in Received
  PROVE  /\ s.i \in U32 /\ s.j \in U32 /\ s.k \in Nat /\ s.l_prime \in Nat
         /\ \A f \in Copied : PartOf(s, f)
         /\ s.auth_path_imt = 0 \/ PartOf(s, "auth_path_imt")
<1>1. ASSUME NEW u \in sigs
      PROVE  /\ u.i \in U32 /\ u.j \in U32 /\ u.k \in Nat /\ u.l_prime \in Nat
             /\ \A f \in Fields : PartOf(u, f)
  <2>1. PICK m \in Messages, t \in Handed : u = Made(m, t)
    BY <1>1 DEF SigsGenuine
  <2>2. u.i = t[1] /\ u.j = t[2] /\ u.k = t[3] /\ u.l_prime = LPrime(t)
    BY <2>1 DEF Made
  <2>3. t \in DgmtPos
    BY TreesAssumption
  <2>4. u.i \in U32 /\ u.j \in U32 /\ u.k \in U32 /\ u.l_prime \in U32
    BY <2>2, <2>3, PosParts, Widths
  <2>5. \A f \in Fields : PartOf(u, f)
    BY <2>1 DEF PartOf
  <2> QED BY <2>4, <2>5, Widths DEF U32
<1>2. CASE \E u \in sigs, v \in sigs, from \in SUBSET Fields : s = Spliced(u, v, from)
  <2>1. PICK u \in sigs, v \in sigs, from \in SUBSET Fields : s = Spliced(u, v, from)
    BY <1>2
  <2>2. \A f \in Fields : s[f] = u[f] \/ s[f] = v[f]
    BY <2>1 DEF Spliced
  <2>3. \A f \in Fields : PartOf(s, f)
    BY <1>1, <2>2 DEF PartOf
  <2>4. /\ s.i = u.i \/ s.i = v.i
        /\ s.j = u.j \/ s.j = v.j
        /\ s.k = u.k \/ s.k = v.k
        /\ s.l_prime = u.l_prime \/ s.l_prime = v.l_prime
    BY <2>2 DEF Fields
  <2> QED BY <1>1, <2>3, <2>4 DEF Copied, Fields
<1>3. CASE \E u \in sigs, n1 \in U32, n2 \in U32 : s = Renumbered(u, "i", n1, "j", n2)
  <2>1. PICK u \in sigs, n1 \in U32, n2 \in U32 : s = Renumbered(u, "i", n1, "j", n2)
    BY <1>3
  <2>2. s.i = n1 /\ s.j = n2 /\ s.k = u.k /\ s.l_prime = u.l_prime
    BY <2>1 DEF Renumbered, Fields
  <2>3. \A f \in Copied \cup {"auth_path_imt"} : s[f] = u[f]
    BY <2>1 DEF Renumbered, Copied, Fields
  <2>4. \A f \in Copied \cup {"auth_path_imt"} : PartOf(s, f)
    BY <1>1, <2>3, CopiedFields DEF PartOf
  <2> QED BY <1>1, <2>2, <2>4
<1>4. CASE \E u \in sigs, n1 \in U32, n2 \in U32 :
             s = [Renumbered(u, "i", n1, "j", n2) EXCEPT !.auth_path_imt = 0]
  <2>1. PICK u \in sigs, n1 \in U32, n2 \in U32 :
               s = [Renumbered(u, "i", n1, "j", n2) EXCEPT !.auth_path_imt = 0]
    BY <1>4
  <2>2. s.i = n1 /\ s.j = n2 /\ s.k = u.k /\ s.l_prime = u.l_prime /\ s.auth_path_imt = 0
    BY <2>1 DEF Renumbered, Fields
  <2>3. \A f \in Copied : s[f] = u[f]
    BY <2>1 DEF Renumbered, Copied, Fields
  <2>4. \A f \in Copied : PartOf(s, f)
    BY <1>1, <2>3, CopiedFields DEF PartOf
  <2> QED BY <1>1, <2>2, <2>4
<1>5. CASE \E u \in sigs, n1 \in 0 .. 2 * Alpha - 1, n2 \in 0 .. 2 * Alpha - 1 :
             s = Renumbered(u, "k", n1, "l_prime", n2)
  <2>1. PICK u \in sigs, n1 \in 0 .. 2 * Alpha - 1, n2 \in 0 .. 2 * Alpha - 1 :
               s = Renumbered(u, "k", n1, "l_prime", n2)
    BY <1>5
  <2>2. s.i = u.i /\ s.j = u.j /\ s.k = n1 /\ s.l_prime = n2
    BY <2>1 DEF Renumbered, Fields
  <2>3. \A f \in Copied \cup {"auth_path_imt"} : s[f] = u[f]
    BY <2>1 DEF Renumbered, Copied, Fields
  <2>4. \A f \in Copied \cup {"auth_path_imt"} : PartOf(s, f)
    BY <1>1, <2>3, CopiedFields DEF PartOf
  <2>5. n1 \in Nat /\ n2 \in Nat
    BY ParamTypes
  <2> QED BY <1>1, <2>2, <2>4, <2>5
<1> QED BY <1>2, <1>3, <1>4, <1>5 DEF Received

-------------------------------------------------------------------------------
(***************************************************************************)
(* The roots verification recomputes.                                      *)
(***************************************************************************)
\* The root is a stray one, or one signature of this very message has all the
\* parts that were used, its indices k and l' up to the width of the trees.
FromOne(s, m, root, t) ==
  /\ Made(m, t) \in sigs
  /\ root = Smt1Root[<<t[1], t[2]>>]
  /\ s.k % Alpha = t[3]
  /\ s.l_prime % Alpha = LPrime(t)
  /\ s.sig_message = Made(m, t).sig_message
  /\ s.dgmt_pos = Made(m, t).dgmt_pos
  /\ s.auth_path_smt2 = Made(m, t).auth_path_smt2
  /\ s.sig_smt2_root = Made(m, t).sig_smt2_root
  /\ s.auth_path_smt1 = Made(m, t).auth_path_smt1

LEMMA ReceivedRoot ==
  ASSUME SigsGenuine, NEW s \in Received, NEW m \in Messages, NEW stray
  PROVE  \/ RootIj(m, s, stray) = stray
         \/ \E t \in Handed : FromOne(s, m, RootIj(m, s, stray), t)
<1>1. \A f \in Copied : PartOf(s, f)
  BY ReceivedParts
<1>2. PICK m1 \in Messages, t1 \in Handed :
        Made(m1, t1) \in sigs /\ s.sig_message = Made(m1, t1).sig_message
  BY <1>1 DEF PartOf, Copied, Fields
<1>3. PICK m2 \in Messages, t2 \in Handed : s.auth_path_smt2 = Made(m2, t2).auth_path_smt2
  BY <1>1 DEF PartOf, Copied, Fields
<1>4. PICK m3 \in Messages, t3 \in Handed : s.sig_smt2_root = Made(m3, t3).sig_smt2_root
  BY <1>1 DEF PartOf, Copied, Fields
<1>5. PICK m4 \in Messages, t4 \in Handed : s.auth_path_smt1 = Made(m4, t4).auth_path_smt1
  BY <1>1 DEF PartOf, Copied, Fields
<1>6. t1 \in DgmtPos /\ t2 \in DgmtPos /\ t3 \in DgmtPos /\ t4 \in DgmtPos
  BY TreesAssumption
<1> DEFINE pk    == WotsPkFromSig(s.sig_message, <<m, FallbackNodeDepth(s.i)>>)
           r_ijk == Smt2Root(dgmt_leaf_hash(pk, s.dgmt_pos), s.l_prime, s.auth_path_smt2)
           pk1   == WotsPkFromSig(s.sig_smt2_root, r_ijk)
<1>7. RootIj(m, s, stray) = Smt1RootFrom(pk1, s.k, s.auth_path_smt1, stray)
  BY DEF RootIj
<1>8. \/ pk = <<>>
      \/ pk = <<t1[1], t1[2], t1[3], LPrime(t1)>> /\ m = m1
  BY <1>2 DEF WotsPkFromSig, Made
<1>9. \/ r_ijk = <<>>
      \/ /\ r_ijk = <<t2[1], t2[2], t2[3]>>
         /\ pk = <<t2[1], t2[2], t2[3], LPrime(t2)>> /\ s.dgmt_pos = t2
         /\ s.l_prime % Alpha = LPrime(t2)
  <2> HIDE DEF pk
  <2>1. s.auth_path_smt2 = [tree |-> <<t2[1], t2[2], t2[3]>>, leaf |-> LPrime(t2)]
    BY <1>3 DEF Made
  <2>2. Smt2Leaf(t2[1], t2[2], t2[3], LPrime(t2)) = <<<<t2[1], t2[2], t2[3], LPrime(t2)>>, t2>>
    BY <1>6, LeafHolds
  <2> QED BY <2>1, <2>2 DEF Smt2Root, dgmt_leaf_hash
<1>10. \/ pk1 = <<>>
       \/ pk1 = <<t3[1], t3[2], t3[3]>> /\ r_ijk = <<t3[1], t3[2], t3[3]>>
  <2> HIDE DEF r_ijk
  <2> QED BY <1>4 DEF WotsPkFromSig, Made
<1>11. \/ RootIj(m, s, stray) = stray
       \/ /\ pk1 = <<t4[1], t4[2], t4[3]>> /\ s.k % Alpha = t4[3]
          /\ RootIj(m, s, stray) = Smt1Root[<<t4[1], t4[2]>>]
  <2> HIDE DEF pk1
  <2> QED BY <1>5, <1>7 DEF Smt1RootFrom, Made
<1> HIDE DEF pk, r_ijk, pk1
<1> SUFFICES ASSUME RootIj(m, s, stray) # stray
             PROVE  FromOne(s, m, RootIj(m, s, stray), t1)
  OBVIOUS
<1>12. t3[1] = t4[1] /\ t3[2] = t4[2] /\ t3[3] = t4[3] /\ r_ijk = <<t4[1], t4[2], t4[3]>>
  <2>1. pk1 = <<t4[1], t4[2], t4[3]>>
    BY <1>11
  <2>2. pk1 # <<>>
    BY <2>1
  <2>3. <<t3[1], t3[2], t3[3]>> = <<t4[1], t4[2], t4[3]>> /\ r_ijk = <<t3[1], t3[2], t3[3]>>
    BY <1>10, <2>1, <2>2
  <2> QED BY <2>3
<1>13. t2[1] = t4[1] /\ t2[2] = t4[2] /\ t2[3] = t4[3] /\ pk = <<t2[1], t2[2], t2[3], LPrime(t2)>>
       /\ s.dgmt_pos = t2 /\ s.l_prime % Alpha = LPrime(t2)
  BY <1>9, <1>12
<1>14. t1[1] = t2[1] /\ t1[2] = t2[2] /\ t1[3] = t2[3] /\ LPrime(t1) = LPrime(t2) /\ m = m1
  BY <1>8, <1>13
<1>15. t1 = t2
  <2> DEFINE u == <<t1[1], t1[2], t1[3]>>
  <2>1. u \in Fn \X Smtmt \X Leaf /\ t1[4] \in Leaf /\ t2[4] \in Leaf
    BY <1>6, PosParts
  <2>2. Shuffle[u] = ComputeShuffle(t1[1], t1[2], t1[3])
    BY <2>1 DEF Shuffle
  <2>3. Shuffle[u][t1[4]] = Shuffle[u][t2[4]]
    BY <1>14, <2>2 DEF LPrime
  <2> HIDE DEF u
  <2>4. t1[4] = t2[4]
    BY <2>1, <2>3, ShuffleInjective
  <2> QED BY <1>6, <1>14, <2>4, PosParts
<1>16. s.auth_path_smt2 = Made(m, t1).auth_path_smt2 /\ s.sig_message = Made(m, t1).sig_message
       /\ Made(m, t1) \in sigs /\ s.dgmt_pos = Made(m, t1).dgmt_pos
  <2>1. s.auth_path_smt2 = Made(m, t1).auth_path_smt2
    BY <1>3, <1>15 DEF Made
  <2>2. s.dgmt_pos = Made(m, t1).dgmt_pos
    BY <1>6, <1>13, <1>15, PosParts DEF Made
  <2> QED BY <1>2, <1>14, <2>1, <2>2
<1>17. s.sig_smt2_root = Made(m, t1).sig_smt2_root
  BY <1>4, <1>12, <1>13, <1>14 DEF Made
<1>18. s.auth_path_smt1 = Made(m, t1).auth_path_smt1
  BY <1>5, <1>13, <1>14 DEF Made
<1> QED BY <1>11, <1>13, <1>14, <1>15, <1>16, <1>17, <1>18 DEF FromOne

\* An unaltered signature recomputes the root it hangs below.
LEMMA OwnRoot ==
  ASSUME NEW m \in Messages, NEW t \in Handed, NEW stray
  PROVE  RootIj(m, Made(m, t), stray) = Smt1Root[<<t[1], t[2]>>]
<1> DEFINE s     == Made(m, t)
           pk    == <<t[1], t[2], t[3], LPrime(t)>>
           r_ijk == <<t[1], t[2], t[3]>>
<1>1. t \in DgmtPos
  BY TreesAssumption
<1>2. /\ LPrime(t) % Alpha = LPrime(t) /\ t[3] % Alpha = t[3]
      /\ s.dgmt_pos = t
  BY <1>1, PosParts, ParamTypes DEF Made, Leaf
<1>3. WotsPkFromSig(s.sig_message, <<m, FallbackNodeDepth(s.i)>>) = pk
  BY DEF WotsPkFromSig, Made
<1>4. Smt2Root(<<pk, t>>, s.l_prime, s.auth_path_smt2) = r_ijk
  BY <1>1, <1>2, LeafHolds DEF Smt2Root, Made
<1>5. WotsPkFromSig(s.sig_smt2_root, r_ijk) = r_ijk
  BY DEF WotsPkFromSig, Made
<1>6. Smt1RootFrom(r_ijk, s.k, s.auth_path_smt1, stray) = Smt1Root[<<t[1], t[2]>>]
  BY <1>2 DEF Smt1RootFrom, Made
<1> HIDE DEF s, pk, r_ijk
<1>7. RootIj(m, s, stray) = Smt1Root[<<t[1], t[2]>>]
  BY <1>2, <1>3, <1>4, <1>5, <1>6 DEF RootIj, dgmt_leaf_hash
<1> QED BY <1>7 DEF s

-------------------------------------------------------------------------------
(***************************************************************************)
(* The table of fallback keys.                                             *)
(***************************************************************************)
\* build_public_params has been at <<i, j>>.
Visited(i, j) == i < loop[1] \/ (i = loop[1] /\ j < loop[2])

FkBuilt ==
  \A i \in Fn, j \in Smtmt :
    Visited(i, j) => fk[FkIdx(i, j)] = sprp_eval(Smt1Root[<<i, j>>], ImtNode[i])

\* Every entry of the finished table belongs to one SMTMT.
LEMMA TableEntry ==
  ASSUME FkBuilt, Published, NEW n \in FkIndices
  PROVE  LET i == (n \div Gamma) + 1
             j == (n % Gamma) + 1
         IN  /\ i \in Fn /\ j \in Smtmt
             /\ FkIdx(i, j) = n
             /\ fk[n] = sprp_eval(Smt1Root[<<i, j>>], ImtNode[i])
<1>1. NumFn \in Nat /\ Gamma \in Nat \ {0} /\ n \in Nat /\ n < NumFn * Gamma
  BY ParamsAssumption DEF FkIndices
<1>2. PICK q \in Nat, r \in 0 .. Gamma - 1 : q = n \div Gamma /\ r = n % Gamma /\ n = Gamma * q + r
  BY <1>1
<1>3. q < NumFn
  <2>1. CASE NumFn = q
    BY <1>1, <1>2, <2>1
  <2>2. CASE NumFn < q
    <3>1. Gamma * q >= Gamma * NumFn + Gamma
      BY <1>1, <1>2, <2>2, MulGrows
    <3> QED BY <1>1, <1>2, <3>1
  <2> QED BY <1>1, <1>2, <2>1, <2>2
<1>4. q + 1 \in Fn /\ r + 1 \in Smtmt
  BY <1>1, <1>2, <1>3 DEF Fn, Smtmt
<1>5. FkIdx(q + 1, r + 1) = n
  <2>1. FkIdx(q + 1, r + 1) = ((q + 1) - 1) * Gamma + ((r + 1) - 1)
    BY <1>4, FkIdxInTrees
  <2>2. (q + 1) - 1 = q /\ (r + 1) - 1 = r
    BY <1>2, <1>1
  <2>3. q * Gamma = Gamma * q
    BY <1>1, <1>2
  <2> QED BY <1>2, <2>1, <2>2, <2>3
<1>6. Visited(q + 1, r + 1)
  BY <1>3, <1>4, <1>1, <1>2 DEF Visited, Published
<1> QED BY <1>2, <1>4, <1>5, <1>6 DEF FkBuilt

\* Two places of the trees that share an index of the table are the same.
LEMMA FkIdxInjective ==
  ASSUME NEW i1 \in Fn, NEW j1 \in Smtmt, NEW i2 \in Fn, NEW j2 \in Smtmt,
         FkIdx(i1, j1) = FkIdx(i2, j2)
  PROVE  i1 = i2 /\ j1 = j2
<1>1. i1 - 1 = i2 - 1 /\ j1 - 1 = j2 - 1
  BY FkIdxInTrees
<1> QED BY <1>1 DEF Fn, Smtmt

\* An index j, wrapped or not, that reaches the entry of <<i, n>> is n.
LEMMA FkIdxNamesSmtmt ==
  ASSUME NEW i \in Fn, NEW j \in U32, NEW n \in Smtmt, FkIdx(i, j) = FkIdx(i, n)
  PROVE  j = n
<1>1. PICK a \in Int : a = (i - 1) * Gamma
  <2>1. (i - 1) * Gamma \in Int
    BY ParamsAssumption DEF Fn
  <2> QED BY <2>1
<1>2. (a + (j - 1)) % Word = (a + (n - 1)) % Word
  BY <1>1 DEF FkIdx
<1>3. n \in U32 /\ j \in Int /\ n \in Int
  BY Widths DEF U32
<1>4. /\ a + (j - 1) \in Int /\ a + (n - 1) \in Int
      /\ (a + (j - 1)) - (a + (n - 1)) < Word /\ (a + (n - 1)) - (a + (j - 1)) < Word
  BY <1>1, <1>3, Widths DEF U32
<1>5. a + (j - 1) = a + (n - 1)
  BY <1>2, <1>4, ModCancel, Widths
<1> QED BY <1>1, <1>3, <1>5

-------------------------------------------------------------------------------
(***************************************************************************)
(* The invariant.                                                          *)
(***************************************************************************)
\* The verdict is the one on what was received, and nothing has happened since.
Verified ==
  verdict # "none" =>
    /\ Published
    /\ sig \in Received
    /\ message \in Messages
    /\ \E stray \in Strays, checked \in BOOLEAN :
         /\ r_ij = RootIj(message, sig, stray)
         /\ verdict = Verdict(sig, r_ij, checked)

\* Nobody signs before the public parameters are complete.
SignedAfterSetup == sigs # {} => Published

IInv ==
  /\ TypeOK
  /\ FkBuilt
  /\ SigsGenuine
  /\ SignedAfterSetup
  /\ Verified

LEMMA OwnVerifies == IInv => OwnSignatureVerifies
<1> SUFFICES ASSUME IInv, verdict # "none", sig \in sigs, message = sig.sig_message.of[1]
             PROVE  verdict = "Ok" <=> sig.dgmt_pos \notin rl
  BY DEF OwnSignatureVerifies
<1>1. PICK m \in Messages, t \in Handed : sig = Made(m, t)
  BY DEF IInv, SigsGenuine
<1>2. message = m
  BY <1>1 DEF Made
<1>3. PICK stray \in Strays, checked \in BOOLEAN :
        r_ij = RootIj(m, sig, stray) /\ verdict = Verdict(sig, r_ij, checked)
  BY <1>2 DEF IInv, Verified
<1>4. t \in DgmtPos /\ t[1] \in Fn /\ t[2] \in Smtmt
  BY TreesAssumption, PosParts
<1> DEFINE root == Smt1Root[<<t[1], t[2]>>]
           n    == FkIdx(t[1], t[2])
<1>5. root \in Block /\ ImtNode[t[1]] \in Block
  BY <1>4, TreesAssumption
<1>6. r_ij = root
  BY <1>1, <1>3, OwnRoot
<1>7. fk[n] = sprp_eval(root, ImtNode[t[1]])
  <2>1. loop = <<NumFn + 1, 1>>
    BY DEF IInv, Verified, Published
  <2>2. Visited(t[1], t[2])
    BY <1>4, <2>1, ParamsAssumption DEF Visited, Fn
  <2> QED BY <1>4, <2>2 DEF IInv, FkBuilt
<1>8. n \in FkIndices /\ ~ Overflows(t[1], t[2])
  BY <1>4, FkIdxInTrees
<1>9. sig.i = t[1] /\ sig.j = t[2] /\ sig.auth_path_imt = t[1]
  BY <1>1 DEF Made
<1>10. ReachesGpk(sprp_inv(root, fk[n]), sig)
  <2>1. ImtValue(t[1]) = ImtNode[t[1]]
    BY <1>4, ParamTypes DEF ImtValue, Fn
  <2> QED BY <1>5, <1>7, <1>9, <2>1, SprpInverts DEF ReachesGpk
<1>11. Verdict(sig, root, checked) = IF sig.dgmt_pos \in rl THEN "Failed" ELSE "Ok"
  BY <1>8, <1>9, <1>10 DEF Verdict
<1> QED BY <1>3, <1>6, <1>11

LEMMA AcceptedGenuine == IInv => AcceptedIsGenuine
<1> SUFFICES ASSUME IInv, verdict = "Ok"
             PROVE  /\ sig.dgmt_pos \notin rl
                    /\ \/ \E u \in sigs : u.sig_message.of[1] = message /\ SameUpToWidth(u)
                       \/ SprpCoincidence
  BY DEF AcceptedIsGenuine
<1> USE DEF IInv
<1>1. Published /\ sig \in Received /\ message \in Messages
  BY DEF Verified
<1>2. PICK stray \in Strays, checked \in BOOLEAN :
        r_ij = RootIj(message, sig, stray) /\ verdict = Verdict(sig, r_ij, checked)
  BY DEF Verified
<1> DEFINE fk_idx == FkIdx(sig.i, sig.j)
           i      == (fk_idx \div Gamma) + 1
           j      == (fk_idx % Gamma) + 1
           n      == sig.auth_path_imt
<1>3. /\ sig.dgmt_pos \notin rl
      /\ fk_idx \in FkIndices
      /\ FallbackNodeDepth(n) = FallbackNodeDepth(sig.i)
      /\ ReachesGpk(sprp_inv(r_ij, fk[fk_idx]), sig)
  BY <1>2 DEF Verdict
<1> SUFFICES ASSUME ~ SprpCoincidence
             PROVE  \E u \in sigs : u.sig_message.of[1] = message /\ SameUpToWidth(u)
  BY <1>3
<1>4. /\ i \in Fn /\ j \in Smtmt /\ FkIdx(i, j) = fk_idx
      /\ fk[fk_idx] = sprp_eval(Smt1Root[<<i, j>>], ImtNode[i])
  BY <1>1, <1>3, TableEntry
<1>5. sprp_inv(r_ij, fk[fk_idx]) = ImtValue(n) /\ LevelOffset(sig.i) = LevelOffset(n)
  BY <1>3 DEF ReachesGpk
<1>6. r_ij = Smt1Root[<<i, j>>]
  BY <1>5 DEF SprpCoincidence
<1>7. r_ij \notin Strays /\ r_ij # stray
  BY <1>4, <1>6, TreesAssumption
<1>8. PICK t \in Handed : FromOne(sig, message, r_ij, t)
  BY <1>1, <1>2, <1>7, ReceivedRoot
<1>9. t \in DgmtPos /\ t[1] \in Fn /\ t[2] \in Smtmt
  BY TreesAssumption, PosParts
<1> HIDE DEF i, j, fk_idx
<1>10. t[1] = i /\ t[2] = j
  <2>1. Smt1Root[<<t[1], t[2]>>] = Smt1Root[<<i, j>>]
    BY <1>6, <1>8 DEF FromOne
  <2>2. <<t[1], t[2]>> \in Fn \X Smtmt /\ <<i, j>> \in Fn \X Smtmt
    BY <1>4, <1>9
  <2>3. <<t[1], t[2]>> = <<i, j>>
    BY <2>1, <2>2, TreesAssumption
  <2> QED BY <2>3
<1>11. n \in Fn /\ sig.i \in U32 /\ sig.j \in U32 /\ ImtNode[n] = ImtNode[i]
  <2>1. sig.i \in U32 /\ sig.j \in U32 /\ (n = 0 \/ PartOf(sig, "auth_path_imt"))
    BY <1>1, ReceivedParts
  <2>2. sprp_inv(Smt1Root[<<i, j>>], sprp_eval(Smt1Root[<<i, j>>], ImtNode[i])) = ImtNode[i]
    BY <1>4, TreesAssumption, SprpInverts
  <2>3. ImtValue(n) = ImtNode[i]
    BY <1>4, <1>5, <1>6, <2>2
  <2>4. n # 0
    BY <1>4, <2>3, TreesAssumption DEF ImtValue
  <2>5. PICK m1 \in Messages, t1 \in Handed : n = Made(m1, t1).auth_path_imt
    BY <2>1, <2>4 DEF PartOf
  <2>6. t1[1] \in Fn
    BY TreesAssumption, PosParts
  <2> QED BY <2>1, <2>3, <2>4, <2>5, <2>6 DEF Made, ImtValue
<1>12. n = i
  BY <1>4, <1>11, TreesAssumption
<1>13. sig.i = n
  BY <1>3, <1>5, <1>11, DepthAndOffset, Widths
<1>14. sig.j = j
  BY <1>4, <1>11, <1>12, <1>13, FkIdxNamesSmtmt DEF fk_idx
<1> DEFINE u == Made(message, t)
<1>15. u \in sigs /\ u.sig_message.of[1] = message
  BY <1>8 DEF FromOne, Made
<1>16. SameUpToWidth(u)
  <2>1. sig.k % Alpha = u.k /\ sig.l_prime % Alpha = u.l_prime
    BY <1>8 DEF FromOne, Made
  <2>2. sig.i = u.i /\ sig.j = u.j /\ sig.auth_path_imt = u.auth_path_imt
    BY <1>10, <1>12, <1>13, <1>14 DEF Made
  <2>3. \A f \in Fields \ {"k", "l_prime"} : sig[f] = u[f]
    BY <1>8, <2>2 DEF FromOne, Fields
  <2> QED BY <2>1, <2>3 DEF SameUpToWidth
<1> QED BY <1>15, <1>16

LEMMA InnerKeyOneRoot == IInv => InnerKeySignsOneRoot
<1> SUFFICES ASSUME IInv, NEW s \in sigs, NEW t \in sigs, s.sig_smt2_root.by = t.sig_smt2_root.by
             PROVE  s.sig_smt2_root = t.sig_smt2_root
  BY DEF InnerKeySignsOneRoot
<1>1. \A u \in sigs : u.sig_smt2_root = [by |-> u.sig_smt2_root.by, of |-> u.sig_smt2_root.by]
  BY DEF IInv, SigsGenuine, Made
<1> QED BY <1>1

-------------------------------------------------------------------------------
(***************************************************************************)
(* The invariant is inductive.                                             *)
(***************************************************************************)
LEMMA FirstPlace == <<1, 1>> \in (Fn \X Smtmt) \cup {<<NumFn + 1, 1>>}
BY ParamsAssumption DEF Fn, Smtmt

LEMMA InitInv == Init => IInv
<1> SUFFICES ASSUME Init PROVE IInv
  OBVIOUS
<1>1. TypeOK
  BY FirstPlace, TreesAssumption DEF Init, TypeOK
<1>2. FkBuilt
  BY DEF Init, FkBuilt, Visited, Fn, Smtmt
<1>3. SigsGenuine /\ SignedAfterSetup /\ Verified
  BY DEF Init, SigsGenuine, SignedAfterSetup, Verified
<1> QED BY <1>1, <1>2, <1>3 DEF IInv

\* The next place of the table is the first the loop has not been at.
LEMMA VisitedNext ==
  ASSUME loop \in Fn \X Smtmt, NEW i \in Fn, NEW j \in Smtmt, SetupStep, Visited(i, j)'
  PROVE  Visited(i, j) \/ <<i, j>> = loop
<1>1. loop = <<loop[1], loop[2]>> /\ loop[1] \in Fn /\ loop[2] \in Smtmt
  OBVIOUS
<1>2. loop' = IF loop[2] < Gamma THEN <<loop[1], loop[2] + 1>> ELSE <<loop[1] + 1, 1>>
  BY DEF SetupStep
<1>3. i < loop'[1] \/ (i = loop'[1] /\ j < loop'[2])
  BY DEF Visited
<1>4. i \in Int /\ j \in Int /\ 1 <= j /\ j <= Gamma /\ loop[1] \in Int /\ loop[2] \in Int /\ Gamma \in Int
  BY <1>1, ParamsAssumption DEF Fn, Smtmt
<1>5. CASE loop[2] < Gamma
  BY <1>1, <1>2, <1>3, <1>4, <1>5 DEF Visited
<1>6. CASE ~ loop[2] < Gamma
  BY <1>1, <1>2, <1>3, <1>4, <1>6 DEF Visited, Smtmt
<1> QED BY <1>5, <1>6

LEMMA SetupStepInv ==
  ASSUME IInv, SetupStep
  PROVE  IInv'
<1> USE DEF IInv
<1>1. loop \in Fn \X Smtmt /\ loop = <<loop[1], loop[2]>> /\ loop[1] \in Fn /\ loop[2] \in Smtmt
  BY ParamsAssumption DEF TypeOK, SetupStep, Fn
<1> DEFINE i == loop[1]
           j == loop[2]
           entry == sprp_eval(Smt1Root[<<i, j>>], ImtNode[i])
<1>2. entry \in Block /\ FkIdx(i, j) \in FkIndices
  BY <1>1, SprpTypes, TreesAssumption, FkIdxInTrees
<1>3. fk' = [fk EXCEPT ![FkIdx(i, j)] = entry]
  BY DEF SetupStep, FkIdx
<1>4. UNCHANGED <<rl, sigs, sig, message, r_ij, verdict>>
  BY DEF SetupStep, verifyVars
<1>5. ~ Published
  BY <1>1, ParamsAssumption DEF Published, Fn
<1>6. TypeOK'
  <2>1. loop' \in (Fn \X Smtmt) \cup {<<NumFn + 1, 1>>}
    <3>1. loop' = IF j < Gamma THEN <<i, j + 1>> ELSE <<i + 1, 1>>
      BY DEF SetupStep
    <3>2. CASE j < Gamma
      BY <1>1, <3>1, <3>2, ParamsAssumption DEF Smtmt
    <3>3. CASE ~ j < Gamma /\ i < NumFn
      <4>1. i + 1 \in Fn /\ 1 \in Smtmt
        BY <1>1, <3>3, ParamsAssumption DEF Fn, Smtmt
      <4> QED BY <3>1, <3>3, <4>1
    <3>4. CASE ~ j < Gamma /\ ~ i < NumFn
      <4>1. i = NumFn
        BY <1>1, <3>4, ParamsAssumption DEF Fn
      <4> QED BY <3>1, <3>4, <4>1
    <3> QED BY <3>2, <3>3, <3>4
  <2>2. fk' \in [FkIndices -> Block]
    BY <1>2, <1>3 DEF TypeOK
  <2> QED BY <2>1, <2>2, <1>4 DEF TypeOK
<1>7. FkBuilt'
  <2> SUFFICES ASSUME NEW a \in Fn, NEW b \in Smtmt, Visited(a, b)'
               PROVE  fk'[FkIdx(a, b)] = sprp_eval(Smt1Root[<<a, b>>], ImtNode[a])
    BY DEF FkBuilt
  <2>1. Visited(a, b) \/ <<a, b>> = loop
    BY <1>1, VisitedNext
  <2>2. fk \in [FkIndices -> Block] /\ FkIdx(a, b) \in FkIndices
    BY FkIdxInTrees DEF TypeOK
  <2>3. CASE <<a, b>> = loop
    <3>1. a = i /\ b = j
      BY <2>3, <1>1
    <3> QED BY <3>1, <1>2, <1>3, <2>2
  <2>4. CASE Visited(a, b) /\ <<a, b>> # loop
    <3>1. FkIdx(a, b) # FkIdx(i, j)
      BY <1>1, <2>4, FkIdxInjective
    <3>2. fk'[FkIdx(a, b)] = fk[FkIdx(a, b)]
      BY <1>3, <2>2, <3>1
    <3> QED BY <2>4, <3>2 DEF FkBuilt
  <2> QED BY <2>1, <2>3, <2>4
<1>8. SigsGenuine' /\ SignedAfterSetup' /\ Verified'
  BY <1>4, <1>5 DEF SigsGenuine, SignedAfterSetup, Verified
<1> QED BY <1>6, <1>7, <1>8

LEMMA SignInv ==
  ASSUME IInv, NEW t \in Handed, NEW m \in Messages, Sign(t, m)
  PROVE  IInv'
<1> USE DEF IInv
<1>1. /\ UNCHANGED <<loop, fk, rl, sig, message, r_ij, verdict>>
      /\ verdict = "none" /\ Published
      /\ sigs' = sigs \cup {Made(m, t)}
  BY SignMakes DEF Sign, ppVars, verifyVars
<1>2. TypeOK' /\ FkBuilt'
  BY <1>1 DEF TypeOK, FkBuilt, Visited
<1>3. SigsGenuine' /\ SignedAfterSetup' /\ Verified'
  BY <1>1 DEF SigsGenuine, SignedAfterSetup, Published, Verified
<1> QED BY <1>2, <1>3

LEMMA RevokeInv ==
  ASSUME IInv, NEW t \in Handed, Revoke(t)
  PROVE  IInv'
<1> USE DEF IInv
<1>1. /\ UNCHANGED <<loop, fk, sigs, sig, message, r_ij, verdict>>
      /\ verdict = "none" /\ Published
      /\ rl' = rl \cup {t}
  BY DEF Revoke, verifyVars
<1>2. TypeOK' /\ FkBuilt'
  BY <1>1, TreesAssumption DEF TypeOK, FkBuilt, Visited
<1>3. SigsGenuine' /\ SignedAfterSetup' /\ Verified'
  BY <1>1 DEF SigsGenuine, SignedAfterSetup, Published, Verified
<1> QED BY <1>2, <1>3

LEMMA VerifyInv ==
  ASSUME IInv, verdict = "none", NEW s \in Received, NEW m \in Messages, DgmtVerify(s, m)
  PROVE  IInv'
<1> USE DEF IInv
<1>1. /\ UNCHANGED <<loop, fk, rl, sigs>>
      /\ sig' = s /\ message' = m
  BY DEF DgmtVerify, ppVars
<1>2. PICK stray \in Strays, checked \in BOOLEAN :
        r_ij' = RootIj(m, s, stray) /\ verdict' = Verdict(s, r_ij', checked)
  BY DEF DgmtVerify
<1>3. r_ij' \in Block
  <2>1. CASE RootIj(m, s, stray) = stray
    BY <1>2, <2>1, TreesAssumption
  <2>2. CASE \E t \in Handed : FromOne(s, m, RootIj(m, s, stray), t)
    BY <1>2, <2>2, PosParts, TreesAssumption DEF FromOne
  <2> QED BY <2>1, <2>2, ReceivedRoot
<1>4. verdict' \in {"Ok", "Failed", "Panic", "InvalidParameter"}
  BY <1>2 DEF Verdict
<1>5. TypeOK' /\ FkBuilt' /\ SigsGenuine'
  BY <1>1, <1>3, <1>4 DEF TypeOK, FkBuilt, Visited, SigsGenuine
<1>6. SignedAfterSetup' /\ Published'
  BY <1>1 DEF SignedAfterSetup, Received, Published
<1>7. Verified'
  <2>1. sig' \in Received'
    BY <1>1 DEF Received
  <2>2. r_ij' = RootIj(message', sig', stray)
    BY <1>1, <1>2
  <2>3. verdict' = Verdict(sig, r_ij, checked)'
    BY <1>1, <1>2 DEF Verdict
  <2> QED BY <1>1, <1>6, <2>1, <2>2, <2>3 DEF Verified
<1> QED BY <1>5, <1>6, <1>7

LEMMA NextInv == IInv /\ [Next]_vars => IInv'
<1> SUFFICES ASSUME IInv, [Next]_vars PROVE IInv'
  OBVIOUS
<1>1. CASE SetupStep
  BY <1>1, SetupStepInv
<1>2. CASE \E t \in Handed, m \in Messages : Sign(t, m)
  BY <1>2, SignInv
<1>3. CASE \E t \in Handed : Revoke(t)
  BY <1>3, RevokeInv
<1>4. CASE verdict = "none" /\ \E s \in Received, m \in Messages : DgmtVerify(s, m)
  BY <1>4, VerifyInv
<1>5. CASE UNCHANGED vars
  <2>1. UNCHANGED <<loop, fk, rl, sigs, sig, message, r_ij, verdict>>
    BY <1>5 DEF vars, ppVars, verifyVars
  <2>2. TypeOK' /\ FkBuilt' /\ SigsGenuine' /\ SignedAfterSetup'
    BY <2>1 DEF IInv, TypeOK, FkBuilt, Visited, SigsGenuine, SignedAfterSetup, Published
  <2>3. Verified'
    BY <2>1 DEF IInv, Verified, Published, Received, Verdict
  <2> QED BY <2>2, <2>3 DEF IInv
<1> QED BY <1>1, <1>2, <1>3, <1>4, <1>5 DEF Next

LEMMA Inductive == Spec => []IInv
BY InitInv, NextInv, PTL DEF Spec

-------------------------------------------------------------------------------
\* The loop of build_public_params stays in the trees, and the table of
\* fallback keys and the verdicts keep their types, for all parameters.
THEOREM ChainTypes == Spec => []TypeOK
<1>1. IInv => TypeOK
  BY DEF IInv
<1> QED BY <1>1, Inductive, PTL

\* dgmt_verify accepts what dgmt_sign made, for all parameters that fit into
\* u32, unless the tag is listed.
THEOREM SignaturesVerify == Spec => []OwnSignatureVerifies
BY Inductive, OwnVerifies, PTL

\* Whatever combination of parts and indices dgmt_verify accepts is one
\* member's signature of that message, or the permutation has coincided.
THEOREM AcceptanceIsSound == Spec => []AcceptedIsGenuine
BY Inductive, AcceptedGenuine, PTL

\* An SMT(1) key, shared by the members below it, signs one SMT(2) root only.
THEOREM InnerKeysSignOnce == Spec => []InnerKeySignsOneRoot
BY Inductive, InnerKeyOneRoot, PTL
===============================================================================
