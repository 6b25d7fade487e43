--------------------------- MODULE Handshake_proofs ---------------------------
(***************************************************************************)
(* Proofs about the handshake, for every field and line that               *)
(* FieldAssumption admits, every base point, every length of strings, any  *)
(* number of attempts and every choice of strings that the exposed parties *)
(* are given.  CurveAssumption is used where a secret must not be Err.     *)
(***************************************************************************)
EXTENDS Handshake, KummerLine_proofs

-------------------------------------------------------------------------------
(***************************************************************************)
(* The handshake.                                                          *)
(***************************************************************************)
LEMMA StringFacts ==
  /\ 0 \in Strings /\ \A bits \in Strings : bits \in Nat
  /\ \A s \in Strings : ClampScalar(s) \in Strings
  /\ \A bits \in Strings : BitsToField(bits) \in Field
<1> DEFINE a == PowerOfTwo[Bits - 2]
<1>1. Bits \in Nat /\ Bits - 2 \in Nat /\ (Bits - 2) + 1 = Bits - 1 /\ Bits - 1 \in Nat
      /\ (Bits - 1) + 1 = Bits
  BY HandshakeAssumption
<1>2. a \in Nat /\ a > 0 /\ PowerOfTwo[Bits - 1] = 2 * a
  <2>1. PowerOfTwo[Bits - 2] \in Nat /\ PowerOfTwo[Bits - 2] > Bits - 2
    BY <1>1, PowerOfTwoFacts
  <2>2. PowerOfTwo[(Bits - 2) + 1] = 2 * PowerOfTwo[Bits - 2]
    BY <1>1, PowerOfTwoFacts
  <2> QED BY <1>1, <2>1, <2>2
<1>3. PowerOfTwo[Bits] = 4 * a
  <2>1. PowerOfTwo[(Bits - 1) + 1] = 2 * PowerOfTwo[Bits - 1]
    BY <1>1, PowerOfTwoFacts
  <2> QED BY <1>1, <1>2, <2>1
<1>4. Strings = 0 .. 4 * a - 1
  BY <1>3 DEF Strings
<1>5. ASSUME NEW s \in Strings PROVE ClampScalar(s) \in Strings
  <2> DEFINE m == s % a
  <2>1. m \in Nat /\ m < a
    <3>1. \A u, n \in Nat : n > 0 => u % n \in Nat /\ u % n < n
      OBVIOUS
    <3> QED BY <1>2, <1>4, <3>1
  <2>2. ClampScalar(s) = a + (m \div 8) * 8
    BY DEF ClampScalar
  <2> HIDE DEF a, m
  <2>3. (m \div 8) * 8 \in Nat /\ (m \div 8) * 8 <= m
    BY <2>1
  <2> QED BY <1>2, <1>4, <2>1, <2>2, <2>3
<1>6. ASSUME NEW bits \in Strings PROVE BitsToField(bits) \in Field
  <2> DEFINE b == PowerOfTwo[Bits - 1]
             m == bits % b
  <2>1. b \in Nat /\ b > 0
    BY <1>2
  <2>2. m \in Int
    <3>1. \A u, n \in Nat : n > 0 => u % n \in Int
      OBVIOUS
    <3> HIDE DEF b
    <3> QED BY <1>2, <1>4, <2>1, <3>1
  <2> HIDE DEF m
  <2>3. m % P \in Field
    BY <2>2, Remainder
  <2> QED BY <2>3 DEF BitsToField, m
<1> HIDE DEF a
<1>7. 0 \in Strings /\ \A bits \in Strings : bits \in Nat
  BY <1>2, <1>4
<1> QED BY <1>5, <1>6, <1>7

LEMMA CandidateType ==
  ASSUME NEW k \in Strings
  PROVE  Candidate(k) = None \/ Candidate(k) \in 0 .. (P - 1) \div 2
<1>1. Base \in LinePoints
  BY HandshakeAssumption, Closed DEF Base, LinePoints
<1>2. k \in Nat
  BY StringFacts
<1>3. ScalarMult(k, Base) \in LinePoints
  BY <1>1, <1>2, ScalarMultType
<1> QED BY <1>3, DecodeType DEF Candidate

LEMMA SharedSecretType ==
  ASSUME NEW k \in Strings, NEW bits \in Strings
  PROVE  SharedSecret(k, bits) = Err \/ SharedSecret(k, bits) \in Field
<1> DEFINE theirs == Encode(BitsToField(bits))
           shared == ScalarMult(k, theirs)
<1>1. theirs \in LinePoints
  <2>1. BitsToField(bits) \in Field
    BY StringFacts
  <2> HIDE DEF theirs
  <2>2. theirs = [x |-> theirs.x, z |-> theirs.z] /\ theirs.x \in Field /\ theirs.z \in Field
    BY <2>1, EncodeTypes DEF theirs
  <2> QED BY <2>2 DEF LinePoints
<1>2. k \in Nat
  BY StringFacts
<1>3. shared \in LinePoints
  <2> HIDE DEF theirs
  <2> QED BY <1>1, <1>2, ScalarMultType
<1>4. shared.z # 0 => Mul(shared.x, Inv[shared.z]) \in Field
  <2> HIDE DEF shared
  <2>1. shared.x \in Int /\ shared.z \in Field
    BY <1>3, Closed DEF LinePoints
  <2>2. shared.z # 0 => Inv[shared.z] \in Int
    BY <2>1, Closed
  <2> QED BY <2>1, <2>2, Closed
<1>5. SharedSecret(k, bits) =
        IF theirs.z = 0 \/ shared.z = 0 THEN Err ELSE Mul(shared.x, Inv[shared.z])
  BY DEF SharedSecret
<1> HIDE DEF theirs, shared
<1> QED BY <1>4, <1>5

\* Every variable keeps its type: the value that a party transmits is in the
\* canonical half, and the x-coordinate it ends with an element of the field.
THEOREM HandshakeTypes == Spec => []TypeOK
<1>1. Init => TypeOK
  BY StringFacts, HandshakeAssumption DEF Init, TypeOK
<1>2. TypeOK /\ [Next]_vars => TypeOK'
  <2> SUFFICES ASSUME TypeOK, [Next]_vars PROVE TypeOK'
    OBVIOUS
  <2>1. ASSUME NEW party \in Party, DhInitiate(party) PROVE TypeOK'
    BY <2>1, HandshakeAssumption DEF DhInitiate, TypeOK
  <2>2. ASSUME NEW party \in Party, GiveUp(party) PROVE TypeOK'
    BY <2>2 DEF GiveUp, TypeOK
  <2>3. ASSUME NEW party \in Party, NEW s \in Strings, Found(party, ClampScalar(s))
        PROVE  TypeOK'
    <3> DEFINE k == ClampScalar(s)
               t == Candidate(k)
    <3>1. k \in Strings
      BY StringFacts
    <3>2. t \in 0 .. (P - 1) \div 2
      <4> HIDE DEF k
      <4> QED BY <2>3, <3>1, CandidateType DEF Found, k
    <3> QED BY <2>3, <3>1, <3>2 DEF Found, TypeOK, FieldToBits
  <2>4. ASSUME NEW party \in Party, NEW k, Retry(party, k) PROVE TypeOK'
    <3>1. attempts[party] \in 0 .. MaxAttempts /\ attempts[party] < MaxAttempts
      BY <2>4 DEF Retry, TypeOK
    <3>2. attempts[party] + 1 \in 0 .. MaxAttempts
      BY <3>1, HandshakeAssumption
    <3> QED BY <2>4, <3>2 DEF Retry, TypeOK
  <2>5. ASSUME NEW party \in Party, NEW bits \in Strings, DhComplete(party, bits)
        PROVE  TypeOK'
    <3>1. scalar[party] \in Strings
      BY DEF TypeOK
    <3>2. SharedSecret(scalar[party], bits) \in {Err} \cup Field
      BY <3>1, SharedSecretType
    <3> QED BY <2>5, <3>2 DEF DhComplete, TypeOK
  <2>6. CASE UNCHANGED vars
    BY <2>6 DEF vars, TypeOK
  <2> QED BY <2>1, <2>2, <2>3, <2>4, <2>5, <2>6 DEF Next
<1> QED BY <1>1, <1>2, PTL DEF Spec

\* Whatever string a party completes with, the point it decodes to has one
\* canonical preimage, which elligator_k1_decode finds from every representative.
THEOREM EveryStringRoundTrips == Spec => []RoundTrip
<1>1. TypeOK => RoundTrip
  <2> SUFFICES ASSUME TypeOK, NEW party \in Party, received[party] # NoString
               PROVE  LET theirs == Encode(BitsToField(received[party]))
                          t == Decode(theirs)
                      IN  /\ t \in 0 .. (P - 1) \div 2
                          /\ ProjectivelyEqual(Encode(t), theirs)
                          /\ \A c \in {2, P - 1} :
                               Decode([x |-> Mul(c, theirs.x), z |-> Mul(c, theirs.z)]) = t
    BY DEF RoundTrip
  <2>1. received[party] \in Strings
    BY DEF TypeOK
  <2> DEFINE e == BitsToField(received[party])
  <2>2. e \in Field
    BY <2>1, StringFacts
  <2>3. {2, P - 1} \subseteq Field \ {0}
    BY FieldElements, PrimeFacts
  <2>4. \A p : ProjectivelyEqual(p, p)
    BY DEF ProjectivelyEqual
  <2> HIDE DEF e
  <2>5. LET theirs == Encode(e)
            t == Decode(theirs)
        IN  /\ t \in 0 .. (P - 1) \div 2
            /\ Encode(t) = theirs
            /\ \A c \in Field \ {0} :
                 Decode([x |-> Mul(c, theirs.x), z |-> Mul(c, theirs.z)]) = t
    BY <2>2, MapRoundTrip
  <2> QED BY <2>3, <2>4, <2>5 DEF e
<1> QED BY <1>1, HandshakeTypes, PTL

-------------------------------------------------------------------------------
(***************************************************************************)
(* Scalars, public values and secrets.                                     *)
(***************************************************************************)
LEMMA ClampFacts ==
  ASSUME NEW s \in Strings
  PROVE  \E j \in Nat \ {0} : ClampScalar(s) = 8 * j
<1> DEFINE n == Bits - 5
           e == PowerOfTwo[n]
           a == PowerOfTwo[Bits - 2]
           m == s % a
           i == m \div 8
<1>1. n \in Nat /\ n + 1 \in Nat /\ (n + 1) + 1 \in Nat /\ ((n + 1) + 1) + 1 = Bits - 2
      /\ Bits - 2 \in Nat
  BY HandshakeAssumption
<1>2. e \in Nat /\ e > 0
  BY <1>1, PowerOfTwoFacts
<1>3. a = 8 * e
  <2> HIDE DEF n
  <2>1. PowerOfTwo[n + 1] = 2 * e /\ PowerOfTwo[(n + 1) + 1] = 2 * PowerOfTwo[n + 1]
        /\ PowerOfTwo[((n + 1) + 1) + 1] = 2 * PowerOfTwo[(n + 1) + 1]
    BY <1>1, PowerOfTwoFacts
  <2>2. a = 2 * (2 * (2 * e))
    BY <1>1, <2>1
  <2> QED BY <1>2, <2>2
<1>4. s \in Nat /\ a \in Nat \ {0}
  BY <1>2, <1>3, StringFacts
<1>5. m \in Nat
  <2> HIDE DEF a
  <2> QED BY <1>4, NaturalRemainder
<1>6. i \in Nat
  <2> HIDE DEF m
  <2> QED BY <1>5, NaturalRemainder
<1>7. ClampScalar(s) = a + i * 8
  BY DEF ClampScalar
<1> HIDE DEF a, i, e
<1>8. ClampScalar(s) = 8 * (e + i) /\ e + i \in Nat \ {0}
  BY <1>2, <1>3, <1>6, <1>7
<1> QED BY <1>8

\* The free bit of a string does not reach the number it carries.
LEMMA CarriedValue ==
  ASSUME NEW value \in 0 .. (P - 1) \div 2, NEW bits, Carries(bits, value)
  PROVE  BitsToField(bits) = value
<1> DEFINE h == PowerOfTwo[Bits - 1]
<1>1. h \in Nat \ {0} /\ P < h
  <2>1. Bits - 1 \in Nat
    BY HandshakeAssumption
  <2>2. PowerOfTwo[Bits - 1] \in Nat /\ PowerOfTwo[Bits - 1] > Bits - 1
    BY <2>1, PowerOfTwoFacts
  <2> QED BY <2>1, <2>2, HandshakeAssumption
<1>2. value \in Field /\ value \in Nat /\ value < P
  BY HalfFacts, PrimeFacts DEF Half, Field
<1>3. bits = value \/ bits = value + h
  BY DEF Carries
<1> HIDE DEF h
<1>4. bits % h = value
  <2>1. value = 0 * h + value /\ value + h = 1 * h + value /\ value < h /\ value + h \in Nat
        /\ 0 \in Nat /\ 1 \in Nat
    BY <1>1, <1>2, PrimeFacts
  <2>2. value % h = value
    BY <1>1, <1>2, <2>1, RemainderUnique
  <2>3. (value + h) % h = value
    BY <1>1, <1>2, <2>1, RemainderUnique
  <2> QED BY <1>3, <2>2, <2>3
<1>5. value % P = value
  BY <1>2, ElementRemainder
<1> QED BY <1>4, <1>5 DEF BitsToField, h

LEMMA BaseOnLine == Base \in LinePoints /\ Base.z # 0
  BY HandshakeAssumption, Closed DEF Base, LinePoints

\* A multiple with z # 0 is one of a point of the curve.
LEMMA MultipleHasPoint ==
  ASSUME NEW k \in Nat, NEW p \in LinePoints, p.z # 0, ScalarMult(k, p).z # 0
  PROVE  PointsOf(p) # {}
<1> DEFINE x == ToLegendreX(p)
           y == Sqrt[Cubic(x)]
<1>1. x = None => PointsOf(p) = {Infinity}
  BY PointsOfLine, FieldElements DEF None
<1>2. CASE x # None
  <2>1. x \in Field /\ PointsOf(p) = {pt \in CurvePoints : pt[1] = x}
    BY <1>2, PointsOfLine
  <2>2. y # None
    <3>1. y = None => ScalarMult(k, p) = KummerInfinity
      BY DEF ScalarMult
    <3> HIDE DEF y
    <3> QED BY <3>1 DEF KummerInfinity
  <2> HIDE DEF x
  <2>3. <<x, y>> \in CurvePoints
    BY <2>1, <2>2, RootOnCurve
  <2>4. <<x, y>>[1] = x
    OBVIOUS
  <2> QED BY <2>1, <2>3, <2>4
<1> QED BY <1>1, <1>2

\* A candidate names the multiple of the base point.
LEMMA CandidateFacts ==
  ASSUME NEW k \in Nat, Candidate(k) # None
  PROVE  /\ Candidate(k) \in Field /\ PointsOf(Base) # {}
         /\ \A pt \in PointsOf(Base) :
              /\ pt \in Curve /\ Times[k][pt] \in CurvePoints
              /\ Times[k][pt] \in PointsOf(Encode(Candidate(k)))
<1> DEFINE p == ScalarMult(k, Base)
<1>1. Candidate(k) = Decode(p) /\ p.z # 0
  BY DEF Candidate
<1> HIDE DEF p
<1>2. PointsOf(Base) # {}
  BY <1>1, BaseOnLine, MultipleHasPoint DEF p
<1>3. ASSUME NEW pt \in PointsOf(Base)
      PROVE  /\ pt \in Curve /\ Times[k][pt] \in CurvePoints
             /\ Times[k][pt] \in PointsOf(Encode(Candidate(k)))
             /\ Candidate(k) \in Field
  <2> DEFINE m == Times[k][pt]
  <2>1. pt \in Curve /\ p = LineOf(m)
    BY BaseOnLine, LineMultiple DEF p
  <2>2. m \in Curve
    BY <2>1, TimesSteps
  <2> HIDE DEF m
  <2>3. m # Infinity
    BY <1>1, <2>1 DEF LineOf, KummerInfinity
  <2>4. m \in CurvePoints /\ p = FromLegendreX(m[1])
    BY <2>1, <2>2, <2>3, CurveCases DEF LineOf
  <2>5. Candidate(k) \in Field /\ Encode(Candidate(k)) = FromLegendreX(m[1])
    BY <1>1, <2>4, DecodedPreimage
  <2>6. m \in PointsOf(FromLegendreX(m[1]))
    BY <2>4, PointOfImage
  <2> QED BY <2>1, <2>4, <2>5, <2>6 DEF m
<1> QED BY <1>2, <1>3

\* The secret that a point of the curve gives.
SecretOf(pt) ==
  IF LineOf(pt).z = 0 THEN Err ELSE Mul(LineOf(pt).x, Inv[LineOf(pt).z])

LEMMA SecretFacts ==
  ASSUME NEW pt \in Curve
  PROVE  SecretOf(pt) = Err <=> pt = Infinity \/ pt = <<1, 0>>
<1> DEFINE p == LineOf(pt)
<1>1. p \in LinePoints /\ (p.z = 0 <=> pt = Infinity \/ pt = <<1, 0>>)
  BY MultipleIsZero
<1> HIDE DEF p
<1>2. ASSUME p.z # 0 PROVE Mul(p.x, Inv[p.z]) # Err
  <2>1. p.x \in Int /\ p.z \in Field \ {0}
    BY <1>1, <1>2, Closed DEF LinePoints
  <2>2. Inv[p.z] \in Int
    BY <2>1, Closed
  <2>3. Mul(p.x, Inv[p.z]) \in Field
    BY <2>1, <2>2, Closed
  <2> QED BY <2>3, FieldElements DEF Err
<1> QED BY <1>1, <1>2 DEF SecretOf, p

LEMMA SharedSecretFacts ==
  ASSUME NEW k \in Nat, NEW bits \in Strings,
         NEW pt \in PointsOf(Encode(BitsToField(bits)))
  PROVE  pt \in Curve /\ SharedSecret(k, bits) = SecretOf(Times[k][pt])
<1> DEFINE theirs == Encode(BitsToField(bits))
           shared == ScalarMult(k, theirs)
<1>1. theirs \in LinePoints /\ theirs.z # 0
  BY StringFacts, EncodeOnCurve
<1>2. SharedSecret(k, bits) =
        IF theirs.z = 0 \/ shared.z = 0 THEN Err ELSE Mul(shared.x, Inv[shared.z])
  BY DEF SharedSecret
<1> HIDE DEF theirs
<1>3. pt \in Curve /\ shared = LineOf(Times[k][pt])
  BY <1>1, LineMultiple DEF theirs
<1> QED BY <1>1, <1>2, <1>3 DEF SecretOf

\* A multiple of 8 of a point gives Err only as the neutral element.
LEMMA MultipleOfEight ==
  ASSUME NEW j \in Nat, NEW pt \in Curve
  PROVE  /\ Times[8 * j][pt] \in Curve
         /\ SecretOf(Times[8 * j][pt]) = Err <=> Times[8 * j][pt] = Infinity
<1>1. 8 \in Nat /\ 8 * j \in Nat
  OBVIOUS
<1>2. Times[8 * j][pt] = Times[8][Times[j][pt]]
  BY <1>1, TimesProduct
<1>3. Times[j][pt] \in Curve /\ Times[8 * j][pt] \in Curve
  BY <1>1, TimesSteps
<1>4. Times[8 * j][pt] # <<1, 0>>
  BY <1>2, <1>3, CurveAssumption
<1> QED BY <1>3, <1>4, SecretFacts

LEMMA PrimeOrder ==
  ASSUME NEW q \in Nat, q >= 3, \A d \in 2 .. q - 1 : q % d # 0,
         NEW pt \in Curve, pt # Infinity, Times[q][pt] = Infinity
  PROVE  Order[pt] = q
<1> DEFINE d == Order[pt]
<1>1. d \in Nat \ {0} /\ Times[d][pt] = Infinity /\ d <= q
  BY OrderFacts
<1>2. q % d = 0
  BY OrderDivides
<1> HIDE DEF d
<1>3. d # 1
  BY <1>1, TimesOne
<1>4. d \notin 2 .. q - 1
  BY <1>2
<1>5. d = q
  BY <1>1, <1>3, <1>4
<1> QED BY <1>5 DEF d

\* If two multiples of 8 of the base point are not the neutral element, nor is
\* their common multiple.
LEMMA CommonMultiple ==
  ASSUME NEW a \in Nat, NEW b \in Nat, NEW pt \in PointsOf(Base), pt \in Curve,
         Times[8 * a][pt] # Infinity, Times[8 * b][pt] # Infinity
  PROVE  Times[8 * b][Times[8 * a][pt]] # Infinity
<1> DEFINE g == Times[8][pt]
           c == Times[a][g]
           e == Times[b][g]
<1>1. PICK q \in 3 .. Cardinality(Curve) : /\ \A d \in 2 .. q - 1 : q % d # 0
                                           /\ Killed(8 * q, Base)
  BY CurveAssumption
<1>2. q \in Nat /\ q >= 3 /\ 8 \in Nat /\ 8 * q \in Nat /\ q * 8 = 8 * q
      /\ a * 8 = 8 * a /\ b * 8 = 8 * b
  BY <1>1, CurveIsFinite
<1>3. Times[8 * q][pt] = Infinity
  BY <1>1, <1>2, OrderDivides DEF Killed
<1>4. g \in Curve
  BY TimesSteps
<1>5. c = Times[8 * a][pt] /\ e = Times[8 * b][pt]
  <2>1. Times[a * 8][pt] = c /\ Times[b * 8][pt] = e
    BY <1>2, TimesProduct
  <2> QED BY <1>2, <2>1
<1>6. Times[q][g] = Infinity
  BY <1>2, <1>3, TimesProduct
<1> HIDE DEF g
<1>7. ASSUME NEW n \in Nat PROVE Times[q][Times[n][g]] = Infinity
  <2>1. q * n = n * q
    BY <1>2
  <2>2. Times[q * n][g] = Times[q][Times[n][g]] /\ Times[n * q][g] = Times[n][Times[q][g]]
    BY <1>2, <1>4, TimesProduct
  <2>3. Times[n][Times[q][g]] = Infinity
    BY <1>6, TimesOfInfinity
  <2> QED BY <2>1, <2>2, <2>3
<1>8. c \in Curve /\ e \in Curve /\ Times[q][c] = Infinity /\ Times[q][e] = Infinity
  BY <1>4, <1>7, TimesSteps
<1>9. c # Infinity /\ e # Infinity
  BY <1>5
<1>10. SUFFICES ASSUME Times[8 * b][c] = Infinity PROVE FALSE
  BY <1>5
<1>11. Order[c] = q /\ Order[e] = q
  <2> HIDE DEF c, e
  <2> QED BY <1>1, <1>2, <1>8, <1>9, PrimeOrder
<1>12. (8 * b) % q = 0 /\ 8 * b \in Nat
  <2>1. 8 * b \in Nat
    OBVIOUS
  <2> DEFINE n == 8 * b
  <2>2. Times[n][c] = Infinity
    BY <1>10
  <2> HIDE DEF n
  <2>3. n % Order[c] = 0
    BY <1>8, <2>1, <2>2, OrderDivides DEF n
  <2> QED BY <1>11, <2>1, <2>3 DEF n
<1>13. Times[8 * b][g] = Infinity
  <2>1. g = Infinity \/ Order[g] = q
    BY <1>1, <1>2, <1>4, <1>6, PrimeOrder
  <2>2. g # Infinity
    BY <1>9, TimesOfInfinity
  <2> QED BY <1>4, <1>12, <2>1, <2>2, OrderDivides
<1>14. Times[8][e] = Infinity
  BY <1>2, <1>4, <1>13, TimesProduct
<1>15. 8 % q = 0 /\ q <= 8
  BY <1>2, <1>8, <1>11, <1>14, OrderDivides, OrderFacts
<1>16. q \in 3 .. 8
  BY <1>1, <1>2, <1>15
<1>17. q \in {4, 8}
  BY <1>15, <1>16
<1>18. 2 \in 2 .. q - 1 /\ q % 2 = 0
  BY <1>17
<1> QED BY <1>1, <1>18

-------------------------------------------------------------------------------
(***************************************************************************)
(* What the parties hold.                                                  *)
(***************************************************************************)
\* A party that has keys has those of one clamped scalar whose candidate it
\* sends, and what it completed with is the value of compute_shared_secret.
KeysMatch ==
  \A party \in Party :
    /\ phase[party] = "ready" =>
         /\ \E s \in Strings : scalar[party] = ClampScalar(s)
         /\ Candidate(scalar[party]) # None
         /\ public[party] = Candidate(scalar[party])
    /\ public[party] # NoString => phase[party] = "ready"
    /\ secret[party] # NoSecret =>
         /\ phase[party] = "ready" /\ received[party] \in Strings
         /\ secret[party] = SharedSecret(scalar[party], received[party])

LEMMA KeysMatchHolds == Spec => [](TypeOK /\ KeysMatch)
<1>1. Init => KeysMatch
  BY DEF Init, KeysMatch
<1>2. TypeOK /\ KeysMatch /\ [Next]_vars => KeysMatch'
  <2> SUFFICES ASSUME TypeOK, KeysMatch, [Next]_vars PROVE KeysMatch'
    OBVIOUS
  <2> USE DEF KeysMatch
  <2>1. ASSUME NEW party \in Party, DhInitiate(party) PROVE KeysMatch'
    BY <2>1 DEF DhInitiate, TypeOK
  <2>2. ASSUME NEW party \in Party, GiveUp(party) PROVE KeysMatch'
    BY <2>2 DEF GiveUp, TypeOK
  <2>3. ASSUME NEW party \in Party, NEW s \in Strings, Found(party, ClampScalar(s))
        PROVE  KeysMatch'
    <3> DEFINE k == ClampScalar(s)
    <3>1. /\ phase[party] = "sampling" /\ Candidate(k) # None
          /\ phase' = [phase EXCEPT ![party] = "ready"]
          /\ scalar' = [scalar EXCEPT ![party] = k]
          /\ public' = [public EXCEPT ![party] = Candidate(k)]
          /\ UNCHANGED <<received, secret>>
      BY <2>3 DEF Found, FieldToBits
    <3>2. \E r \in Strings : k = ClampScalar(r)
      OBVIOUS
    <3> HIDE DEF k
    <3> SUFFICES ASSUME NEW other \in Party
                 PROVE  /\ phase'[other] = "ready" =>
                             /\ \E r \in Strings : scalar'[other] = ClampScalar(r)
                             /\ Candidate(scalar'[other]) # None
                             /\ public'[other] = Candidate(scalar'[other])
                        /\ public'[other] # NoString => phase'[other] = "ready"
                        /\ secret[other] # NoSecret =>
                             /\ phase'[other] = "ready" /\ received[other] \in Strings
                             /\ secret[other] = SharedSecret(scalar'[other], received[other])
      BY <3>1
    <3>3. CASE other = party
      BY <3>1, <3>2, <3>3 DEF TypeOK
    <3>4. CASE other # party
      <4>1. /\ phase'[other] = phase[other] /\ scalar'[other] = scalar[other]
            /\ public'[other] = public[other]
        BY <3>1, <3>4 DEF TypeOK
      <4> QED BY <4>1
    <3> QED BY <3>3, <3>4
  <2>4. ASSUME NEW party \in Party, NEW k, Retry(party, k) PROVE KeysMatch'
    BY <2>4 DEF Retry
  <2>5. ASSUME NEW party \in Party, NEW bits \in Strings, DhComplete(party, bits)
        PROVE  KeysMatch'
    <3>1. /\ phase[party] = "ready"
          /\ received' = [received EXCEPT ![party] = bits]
          /\ secret' = [secret EXCEPT ![party] = SharedSecret(scalar[party], bits)]
          /\ UNCHANGED <<phase, attempts, scalar, public>>
      BY <2>5 DEF DhComplete
    <3> QED BY <3>1 DEF TypeOK
  <2>6. CASE UNCHANGED vars
    BY <2>6 DEF vars
  <2> QED BY <2>1, <2>2, <2>3, <2>4, <2>5, <2>6 DEF Next
<1>3. Spec => []TypeOK
  BY HandshakeTypes
<1> QED BY <1>1, <1>2, <1>3, PTL DEF Spec

\* The public value and the scalar of a party that has keys.
LEMMA ReadyFacts ==
  ASSUME TypeOK, KeysMatch, NEW party \in Party, phase[party] = "ready"
  PROVE  /\ \E j \in Nat : scalar[party] = 8 * j
         /\ scalar[party] \in Nat
         /\ public[party] \in 0 .. (P - 1) \div 2
         /\ PointsOf(Base) # {}
         /\ \A pt \in PointsOf(Base) :
              /\ pt \in Curve /\ Times[scalar[party]][pt] \in CurvePoints
              /\ Times[scalar[party]][pt] \in PointsOf(Encode(public[party]))
<1>1. PICK s \in Strings : scalar[party] = ClampScalar(s)
  BY DEF KeysMatch
<1>2. PICK j \in Nat \ {0} : scalar[party] = 8 * j
  BY <1>1, ClampFacts
<1>3. scalar[party] \in Nat
  BY <1>2
<1>4. Candidate(scalar[party]) # None /\ public[party] = Candidate(scalar[party])
  BY DEF KeysMatch
<1>5. public[party] \in 0 .. (P - 1) \div 2
  <2>1. scalar[party] \in Strings
    BY DEF TypeOK
  <2> QED BY <1>4, <2>1, CandidateType
<1> QED BY <1>2, <1>3, <1>4, <1>5, CandidateFacts

LEMMA OwnString ==
  ASSUME NEW value \in 0 .. (P - 1) \div 2
  PROVE  BitsToField(value) = value
BY CarriedValue DEF Carries

\* Whatever scalar a party finds, the string it sends decodes to that multiple
\* of the base point.
THEOREM StringsNameMultiples == Spec => []PublicNamesMultiple
<1>1. TypeOK /\ KeysMatch => PublicNamesMultiple
  <2> SUFFICES ASSUME TypeOK, KeysMatch, NEW party \in Party, phase[party] = "ready"
               PROVE  \E pt \in PointsOf(Base) :
                        Times[scalar[party] % Order[pt]][pt]
                          \in PointsOf(Encode(BitsToField(public[party])))
    BY DEF PublicNamesMultiple
  <2>1. PICK pt \in PointsOf(Base) : TRUE
    BY ReadyFacts
  <2>2. pt \in Curve /\ scalar[party] \in Nat
        /\ Times[scalar[party]][pt] \in PointsOf(Encode(public[party]))
    BY ReadyFacts
  <2>3. Times[scalar[party] % Order[pt]][pt] = Times[scalar[party]][pt]
    BY <2>2, OrderDivides
  <2>4. BitsToField(public[party]) = public[party]
    BY ReadyFacts, OwnString
  <2> QED BY <2>2, <2>3, <2>4
<1> QED BY <1>1, KeysMatchHolds, PTL

\* Completing fails when the multiple is the neutral element and only then, for
\* whatever string a party is given.
THEOREM ErrOnlyOnIdentity == Spec => []ErrExactlyOnIdentity
<1>1. TypeOK /\ KeysMatch => ErrExactlyOnIdentity
  <2> SUFFICES ASSUME TypeOK, KeysMatch, NEW party \in Party, secret[party] # NoSecret
               PROVE  LET theirs == Encode(BitsToField(received[party]))
                      IN  /\ secret[party] = Err <=> Killed(scalar[party], theirs)
                          /\ Killed(8, theirs) => secret[party] = Err
    BY DEF ErrExactlyOnIdentity
  <2> DEFINE theirs == Encode(BitsToField(received[party]))
             k == scalar[party]
  <2>1. phase[party] = "ready" /\ received[party] \in Strings
        /\ secret[party] = SharedSecret(k, received[party])
    BY DEF KeysMatch
  <2>2. PICK j \in Nat : k = 8 * j
    BY <2>1, ReadyFacts
  <2>3. k \in Nat
    BY <2>2
  <2>4. PointsOf(theirs) # {}
    BY <2>1, StringFacts, EncodeOnCurve
  <2>5. ASSUME NEW pt \in PointsOf(theirs)
        PROVE  /\ pt \in Curve
               /\ secret[party] = Err <=> k % Order[pt] = 0
               /\ 8 % Order[pt] = 0 => secret[party] = Err
    <3>1. pt \in Curve /\ secret[party] = SecretOf(Times[k][pt])
      BY <2>1, <2>3, SharedSecretFacts
    <3> HIDE DEF k
    <3>2. secret[party] = Err <=> Times[k][pt] = Infinity
      BY <2>2, <3>1, MultipleOfEight
    <3>3. Times[k][pt] = Infinity <=> k % Order[pt] = 0
      BY <2>3, <3>1, OrderDivides
    <3>4. 8 % Order[pt] = 0 => Times[k][pt] = Infinity
      <4> SUFFICES ASSUME 8 % Order[pt] = 0 PROVE Times[k][pt] = Infinity
        OBVIOUS
      <4>1. 8 \in Nat /\ j * 8 = k
        BY <2>2
      <4>2. Times[8][pt] = Infinity
        BY <3>1, <4>1, OrderDivides
      <4>3. Times[j * 8][pt] = Times[j][Times[8][pt]]
        BY <3>1, <4>1, TimesProduct
      <4> QED BY <4>1, <4>2, <4>3, TimesOfInfinity
    <3> QED BY <3>1, <3>2, <3>3, <3>4
  <2> HIDE DEF theirs, k
  <2>6. /\ secret[party] = Err <=> Killed(k, theirs)
        /\ Killed(8, theirs) => secret[party] = Err
    BY <2>4, <2>5 DEF Killed
  <2> QED BY <2>6 DEF theirs, k
<1> QED BY <1>1, KeysMatchHolds, PTL

-------------------------------------------------------------------------------
(***************************************************************************)
(* Agreement.                                                              *)
(***************************************************************************)
LEMMA TwoParties ==
  \E a, b \in Party : a # b /\ Party = {a, b} /\ Peer(a) = b /\ Peer(b) = a
<1>1. IsFiniteSet(Party) /\ Cardinality(Party) = 2
  BY HandshakeAssumption
<1>2. Party # {}
  BY <1>1, FS_EmptySet
<1>3. PICK a \in Party : TRUE
  BY <1>2
<1>4. IsFiniteSet(Party \ {a}) /\ Cardinality(Party \ {a}) = 1
  BY <1>1, FS_RemoveElement
<1>5. PICK b : Party \ {a} = {b}
  BY <1>4, FS_Singleton
<1>6. b \in Party /\ a # b /\ Party = {a, b}
  BY <1>5
<1>7. Peer(a) = b /\ Peer(b) = a
  BY <1>6 DEF Peer
<1> QED BY <1>6, <1>7

\* What a party makes of its peer's string.
LEMMA CompletedWithPeer ==
  ASSUME TypeOK, KeysMatch, NEW a \in Party, NEW b \in Party,
         secret[a] # NoSecret, public[b] # NoString, Carries(received[a], public[b]),
         NEW pt \in PointsOf(Base)
  PROVE  /\ phase[a] = "ready" /\ phase[b] = "ready" /\ pt \in Curve
         /\ secret[a] = SecretOf(Times[scalar[a]][Times[scalar[b]][pt]])
<1>1. phase[a] = "ready" /\ phase[b] = "ready" /\ received[a] \in Strings
      /\ secret[a] = SharedSecret(scalar[a], received[a])
  BY DEF KeysMatch
<1>2. scalar[a] \in Nat /\ pt \in Curve
  BY <1>1, ReadyFacts
<1>3. public[b] \in 0 .. (P - 1) \div 2
      /\ Times[scalar[b]][pt] \in PointsOf(Encode(public[b]))
  BY <1>1, ReadyFacts
<1>4. BitsToField(received[a]) = public[b]
  BY <1>1, <1>3, CarriedValue
<1> QED BY <1>1, <1>2, <1>3, <1>4, SharedSecretFacts

\* Parties that complete with each other's strings share a secret: both
\* products are one multiple of the base point, which is not the neutral element.
THEOREM Agreement == Spec => []SharedSecretsAgree
<1>1. TypeOK /\ KeysMatch => SharedSecretsAgree
  <2> SUFFICES ASSUME TypeOK, KeysMatch,
                      \A party \in Party : /\ secret[party] # NoSecret
                                           /\ public[Peer(party)] # NoString
                                           /\ Carries(received[party], public[Peer(party)])
               PROVE  /\ Err \notin {secret[party] : party \in Party}
                      /\ Cardinality({secret[party] : party \in Party}) = 1
    BY DEF SharedSecretsAgree
  <2>1. PICK a, b \in Party : a # b /\ Party = {a, b} /\ Peer(a) = b /\ Peer(b) = a
    BY TwoParties
  <2>2. phase[a] = "ready" /\ phase[b] = "ready"
    BY DEF KeysMatch
  <2>3. PICK pt \in PointsOf(Base) : TRUE
    BY <2>2, ReadyFacts
  <2> DEFINE m == scalar[a]
             n == scalar[b]
  <2>4. PICK i \in Nat : m = 8 * i
    BY <2>2, ReadyFacts
  <2>5. PICK j \in Nat : n = 8 * j
    BY <2>2, ReadyFacts
  <2>6. /\ pt \in Curve /\ Times[m][pt] \in CurvePoints /\ Times[n][pt] \in CurvePoints
    BY <2>2, ReadyFacts
  <2>7. /\ secret[a] = SecretOf(Times[m][Times[n][pt]])
        /\ secret[b] = SecretOf(Times[n][Times[m][pt]])
    BY <2>1, CompletedWithPeer
  <2> HIDE DEF m, n
  <2>8. Times[m][Times[n][pt]] = Times[n][Times[m][pt]]
    <3>1. m \in Nat /\ n \in Nat /\ m * n = n * m
      BY <2>4, <2>5
    <3>2. Times[m * n][pt] = Times[m][Times[n][pt]] /\ Times[n * m][pt] = Times[n][Times[m][pt]]
      BY <2>6, <3>1, TimesProduct
    <3> QED BY <3>1, <3>2
  <2>9. Times[n][Times[m][pt]] # Infinity
    BY <2>4, <2>5, <2>6, CurveCases, CommonMultiple
  <2>10. SecretOf(Times[n][Times[m][pt]]) # Err
    BY <2>5, <2>6, <2>9, CurveCases, MultipleOfEight
  <2>11. {secret[party] : party \in Party} = {secret[b]}
    BY <2>1, <2>7, <2>8
  <2>12. Cardinality({secret[b]}) = 1
    BY FS_Singleton
  <2> QED BY <2>7, <2>10, <2>11, <2>12
<1> QED BY <1>1, KeysMatchHolds, PTL
===============================================================================
