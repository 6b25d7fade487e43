----------------------------- MODULE KummerLine -----------------------------
(***************************************************************************)
(* The arithmetic under the Elligator-K1 key exchange: the prime field     *)
(* (elligator/field.rs), the Legendre curve y^2 = x(x-1)(x-lambda) behind  *)
(* the squared Kummer line with its scalar multiplication (kummer.rs), and *)
(* the map from field elements to the line and back (elligator_k1.rs).     *)
(* The code fixes P = 2^255 - 19; the formulas need P % 8 = 5, a square    *)
(* lambda and a U that is none, which the assumption states.               *)
(***************************************************************************)
EXTENDS Integers, FiniteSets

CONSTANTS P,        \* prime()
          A2, B2    \* kummer_a2(), kummer_b2(): the parameters of the line

Field == 0 .. P - 1

-----------------------------------------------------------------------------
(***************************************************************************)
(* The field.                                                              *)
(***************************************************************************)
Neg(a)    == (P - a) % P
Add(a, b) == (a + b) % P
Sub(a, b) == (P + a - b) % P
Mul(a, b) == (a * b) % P
Sqr(a)    == Mul(a, a)

\* a to the n is Power[n][a].
Power[n \in 0 .. P] == [a \in Field |-> IF n = 0 THEN 1 ELSE Mul(a, Power[n - 1][a])]

\* f itself: the comparison makes TLC tabulate the function.
Tabulated(f) == CHOOSE g \in {f} : g = f

\* inv() asserts that its argument is not zero.
Inv == Tabulated([a \in Field \ {0} |-> Power[P - 2][a]])

Chi == Tabulated([a \in Field |->
         IF a = 0 THEN 0 ELSE IF Power[(P - 1) \div 2][a] = 1 THEN 1 ELSE -1])

None == -1

\* The root for P % 8 = 5, of the two the even one.
SquareRoot(a) ==
  LET v == Power[(P - 5) \div 8][Mul(2, a)]
      i == Mul(Mul(2, a), Sqr(v))
      root == Mul(Mul(a, v), Sub(i, 1))
  IN  IF root % 2 = 1 THEN P - root ELSE root

Sqrt == Tabulated([a \in Field |->
          IF a = 0 THEN 0 ELSE IF Chi[a] # 1 THEN None ELSE SquareRoot(a)])

\* nonsquare_u()
U == 2

\* lambda = a^4 / (a^4 - b^4): lambda_p25519() is this quotient for 289 and 515.
Lambda == Mul(Sqr(A2), Inv[Sub(Sqr(A2), Sqr(B2))])

LambdaPlusOne == Add(Lambda, 1)

ASSUME FieldAssumption ==
  /\ P \in Nat /\ P % 8 = 5
  /\ \A d \in 2 .. P - 1 : P % d # 0
  /\ {A2, B2} \subseteq Field \ {0}
  /\ Sqr(A2) # Sqr(B2)
  /\ Chi[Lambda] = 1 /\ Chi[U] = -1

-----------------------------------------------------------------------------
(***************************************************************************)
(* Points of the curve, <<x, y>> or Infinity, and their multiples.         *)
(***************************************************************************)
Infinity == <<>>

Cubic(x) == Mul(Mul(Sub(x, 1), Sub(x, Lambda)), x)

\* The third intersection of the line through p1 with this slope, reflected.
Reflected(slope, p1, x2) ==
  LET x3 == Sub(Sub(Add(Sqr(slope), LambdaPlusOne), p1[1]), x2)
  IN  <<x3, Sub(Mul(slope, Sub(p1[1], x3)), p1[2])>>

EcDouble(p) ==
  IF p = Infinity THEN Infinity
  ELSE IF p[2] = 0 THEN Infinity
  ELSE LET num == Add(Sub(Mul(3, Sqr(p[1])), Mul(2, Mul(LambdaPlusOne, p[1]))), Lambda)
       IN  Reflected(Mul(num, Inv[Mul(2, p[2])]), p, p[1])

EcAdd(p1, p2) ==
  CASE p1 = Infinity -> p2
    [] p2 = Infinity -> p1
    [] p1 # Infinity /\ p2 # Infinity ->
         IF p1[1] # p2[1]
         THEN Reflected(Mul(Sub(p2[2], p1[2]), Inv[Sub(p2[1], p1[1])]), p1, p2[1])
         ELSE IF Add(p1[2], p2[2]) = 0 THEN Infinity ELSE EcDouble(p1)

PowerOfTwo[n \in Nat] == IF n = 0 THEN 1 ELSE 2 * PowerOfTwo[n - 1]

Bit(k, i) == (k \div PowerOfTwo[i]) % 2 = 1

BitLength(k) ==
  CHOOSE n \in 0 .. k : PowerOfTwo[n] > k /\ \A m \in 0 .. n - 1 : PowerOfTwo[m] <= k

\* Double-and-add from the lowest bit.
EcScalarMult(k, p) ==
  LET Loop[i \in 0 .. BitLength(k)] ==
        IF i = 0 THEN [result |-> Infinity, addend |-> p]
        ELSE LET before == Loop[i - 1]
             IN  [result |-> IF Bit(k, i - 1) THEN EcAdd(before.result, before.addend)
                                              ELSE before.result,
                  addend |-> EcDouble(before.addend)]
  IN  Loop[BitLength(k)].result

-----------------------------------------------------------------------------
(***************************************************************************)
(* Points of the Kummer line, (x : z).                                     *)
(***************************************************************************)
KummerInfinity == [x |-> 1, z |-> 0]

ProjectivelyEqual(p1, p2) == Mul(p1.x, p2.z) = Mul(p2.x, p1.z)

ToLegendreX(p) ==
  LET n == Mul(A2, p.x)
      d == Sub(n, Mul(B2, p.z))
  IN  IF p.z = 0 \/ d = 0 THEN None ELSE Mul(n, Inv[d])

FromLegendreX(x) == [x |-> Mul(B2, x), z |-> Mul(A2, Sub(x, 1))]

\* Multiplication of either of the two points that p stands for.
ScalarMult(k, p) ==
  LET x == ToLegendreX(p)
  IN  IF x = None \/ k = 0 THEN KummerInfinity
      ELSE LET y == Sqrt[Cubic(x)]
           IN  IF y = None THEN KummerInfinity
               ELSE LET multiple == EcScalarMult(k, <<x, y>>)
                    IN  IF multiple = Infinity THEN KummerInfinity
                        ELSE FromLegendreX(multiple[1])

-----------------------------------------------------------------------------
(***************************************************************************)
(* Elligator-K1.                                                           *)
(***************************************************************************)
\* Mutant: a factor of the product is forgotten.
ShortEpsilon(v) == Chi[Mul(v, Sub(v, 1))]

Epsilon(v) == Chi[Cubic(v)]

\* Mutant: the sign of v is dropped, as an earlier version of the code did.
UnsignedRoot(v) == Add(LambdaPlusOne, v)

\* x when epsilon is -1
OtherRoot(v) == Sub(LambdaPlusOne, v)

Encode(t) ==
  IF t = 0 THEN [x |-> B2, z |-> A2]
  ELSE LET v == Mul(LambdaPlusOne, Inv[Add(1, Mul(U, Sqr(t)))])
       IN  FromLegendreX(IF Epsilon(v) >= 0 THEN v ELSE OtherRoot(v))

\* Mutant: the root is returned as it was found.
AnyRep(t) == t

CanonicalRep(t) == IF t <= (P - 1) \div 2 THEN t ELSE P - t

Decode(p) ==
  LET a2x == Mul(A2, p.x)
      d   == Sub(a2x, Mul(B2, p.z))
      num == Sub(a2x, Mul(LambdaPlusOne, d))
  IN  CASE Mul(B2, p.z) = Mul(A2, p.x) -> 0
        [] d # 0 /\ Chi[Mul(Mul(Neg(a2x), U), num)] = 1 ->
             LET root == Sqrt[Mul(Neg(a2x), Inv[Mul(num, U)])]
             IN  IF root = None THEN None ELSE CanonicalRep(root)
        [] OTHER -> None

-----------------------------------------------------------------------------
(***************************************************************************)
(* The reference: the group of the curve, by repeated addition.            *)
(***************************************************************************)
Curve == {Infinity} \cup {pt \in Field \X Field : Sqr(pt[2]) = Cubic(pt[1])}

Times[n \in Nat] == [pt \in Curve |->
  IF n = 0 THEN Infinity ELSE EcAdd(pt, Times[n - 1][pt])]

Order == Tabulated([pt \in Curve |->
           CHOOSE n \in 1 .. Cardinality(Curve) :
             /\ Times[n][pt] = Infinity
             /\ \A m \in 1 .. n - 1 : Times[m][pt] # Infinity])

\* The curve points that a point of the line stands for: (B2 : A2) stands for
\* the neutral element, every other point for two points or one.
PointsAt == Tabulated([x \in Field |-> Tabulated([z \in Field |->
  LET p == [x |-> x, z |-> z]
  IN  IF ProjectivelyEqual(p, [x |-> B2, z |-> A2]) THEN {Infinity}
      ELSE {pt \in Curve \ {Infinity} : ProjectivelyEqual(p, FromLegendreX(pt[1]))}])])

PointsOf(p) == PointsAt[p.x][p.z]

Killed(k, p) == \A pt \in PointsOf(p) : k % Order[pt] = 0
=============================================================================
