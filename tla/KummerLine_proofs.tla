--------------------------- MODULE KummerLine_proofs ---------------------------
(***************************************************************************)
(* Proofs about the field, the map of Elligator-K1 and the curve, for      *)
(* every prime P with P % 8 = 5 and every line that FieldAssumption admits *)
(* (the code has P = 2^255 - 19): square roots are roots, decoding inverts *)
(* encoding, ec_add makes the curve a group, the double-and-add loop       *)
(* computes its multiples, and so does the multiplication on the line.     *)
(*                                                                         *)
(* Elements are integers here and equations hold modulo P, which is        *)
(* written Divisible(left - right): an operation of the field is one on    *)
(* integers up to a multiple of P, an identity is one of polynomials.      *)
(***************************************************************************)
EXTENDS KummerLine, FiniteSetTheorems, WellFoundedInduction, TLAPS

-------------------------------------------------------------------------------
(***************************************************************************)
(* Induction and recursion over Nat, with sets and functions in the place  *)
(* of predicates and operators.                                            *)
(***************************************************************************)
LEMMA LeastElement ==
  ASSUME NEW T \in SUBSET Nat, T # {}
  PROVE  \E x \in T : \A y \in T : x <= y
<1> DEFINE R == {ss \in Nat \X Nat : ss[1] < ss[2]}
<1>1. IsWellFoundedOn(R, Nat)
  BY NatLessThanWellFounded DEF OpToRel
<1>2. PICK x \in T : \A y \in T : ~ <<y, x>> \in R
  <2> HIDE DEF R
  <2> QED BY <1>1, WFMin
<1>3. \A y \in T : ~ y < x
  BY <1>2
<1> QED BY <1>3

LEMMA SetInduction ==
  ASSUME NEW T, 0 \in T, \A n \in T \cap Nat : n + 1 \in T
  PROVE  Nat \subseteq T
<1> SUFFICES ASSUME Nat \ T # {} PROVE FALSE
  OBVIOUS
<1>1. PICK x \in Nat \ T : \A y \in Nat \ T : x <= y
  BY LeastElement
<1>2. x # 0 /\ x - 1 \in Nat
  BY <1>1
<1>3. x - 1 \in T
  BY <1>1, <1>2
<1>4. (x - 1) + 1 \in T
  BY <1>2, <1>3
<1>5. (x - 1) + 1 = x
  BY <1>1
<1> QED BY <1>1, <1>4, <1>5

\* The first n steps of the recursion g[0] = f0, g[m + 1] = h[g[m], m].
Steps(S, f0, h, n) ==
  {g \in [0 .. n -> S] : g[0] = f0 /\ \A m \in 0 .. n - 1 : g[m + 1] = h[<<g[m], m>>]}

LEMMA StepsExist ==
  ASSUME NEW S, NEW f0 \in S, NEW h \in [S \X Nat -> S]
  PROVE  \A n \in Nat : Steps(S, f0, h, n) # {}
<1> DEFINE T == {n \in Nat : Steps(S, f0, h, n) # {}}
<1>1. 0 \in T
  <2>1. [m \in 0 .. 0 |-> f0] \in Steps(S, f0, h, 0)
    BY DEF Steps
  <2> QED BY <2>1
<1>2. ASSUME NEW n \in T \cap Nat PROVE n + 1 \in T
  <2>1. PICK g \in Steps(S, f0, h, n) : TRUE
    OBVIOUS
  <2> DEFINE e == [m \in 0 .. n + 1 |-> IF m <= n THEN g[m] ELSE h[<<g[n], n>>]]
  <2>2. g[n] \in S
    BY <2>1 DEF Steps
  <2>3. e \in [0 .. n + 1 -> S]
    BY <2>1, <2>2 DEF Steps
  <2>4. e[0] = f0
    BY <2>1 DEF Steps
  <2>5. ASSUME NEW m \in 0 .. n PROVE e[m + 1] = h[<<e[m], m>>]
    <3>1. m \in 0 .. n + 1 /\ m + 1 \in 0 .. n + 1 /\ e[m] = g[m]
      OBVIOUS
    <3>2. CASE m < n
      <4>1. m \in 0 .. n - 1 /\ m + 1 <= n
        BY <3>2
      <4>2. g[m + 1] = h[<<g[m], m>>]
        BY <4>1, <2>1 DEF Steps
      <4> QED BY <3>1, <4>1, <4>2
    <3>3. CASE m = n
      <4>1. ~ m + 1 <= n
        BY <3>3
      <4> QED BY <3>1, <3>3, <4>1
    <3> QED BY <3>2, <3>3
  <2>6. e \in Steps(S, f0, h, n + 1)
    <3> HIDE DEF e
    <3>1. (n + 1) - 1 = n
      OBVIOUS
    <3> QED BY <2>3, <2>4, <2>5, <3>1 DEF Steps
  <2> QED BY <2>6
<1> HIDE DEF T
<1>3. Nat \subseteq T
  BY <1>1, <1>2, SetInduction
<1> QED BY <1>3 DEF T

LEMMA StepsAgree ==
  ASSUME NEW S, NEW f0 \in S, NEW h \in [S \X Nat -> S], NEW n \in Nat, NEW k \in Nat,
         NEW f \in Steps(S, f0, h, n), NEW g \in Steps(S, f0, h, k)
  PROVE  \A m \in Nat : m <= n /\ m <= k => f[m] = g[m]
<1> DEFINE T == {m \in Nat : m <= n /\ m <= k => f[m] = g[m]}
<1>1. 0 \in T
  BY DEF Steps
<1>2. ASSUME NEW m \in T \cap Nat PROVE m + 1 \in T
  <2> SUFFICES ASSUME m + 1 <= n, m + 1 <= k PROVE f[m + 1] = g[m + 1]
    OBVIOUS
  <2>1. m \in 0 .. n - 1 /\ m \in 0 .. k - 1 /\ f[m] = g[m]
    OBVIOUS
  <2>2. f[m + 1] = h[<<f[m], m>>] /\ g[m + 1] = h[<<g[m], m>>]
    BY <2>1 DEF Steps
  <2> QED BY <2>1, <2>2
<1> HIDE DEF T
<1>3. Nat \subseteq T
  BY <1>1, <1>2, SetInduction
<1> QED BY <1>3 DEF T

StepFunction(S, h) == h \in [S \X Nat -> S]

Recursion(f, S, f0, h) ==
  /\ f \in [Nat -> S]
  /\ f[0] = f0
  /\ \A n \in Nat : f[n + 1] = h[<<f[n], n>>]

LEMMA PrimitiveRecursion ==
  ASSUME NEW S, NEW f0 \in S, NEW h, StepFunction(S, h)
  PROVE  \E f : Recursion(f, S, f0, h)
<1>0. h \in [S \X Nat -> S]
  BY DEF StepFunction
<1> DEFINE g == [n \in Nat |-> CHOOSE e \in Steps(S, f0, h, n) : TRUE]
           f == [n \in Nat |-> g[n][n]]
<1>1. \A n \in Nat : g[n] \in Steps(S, f0, h, n)
  BY <1>0, StepsExist
<1> HIDE DEF g
<1>2. f \in [Nat -> S]
  BY <1>1 DEF Steps
<1>3. f[0] = f0
  BY <1>1 DEF Steps
<1>4. ASSUME NEW n \in Nat PROVE f[n + 1] = h[<<f[n], n>>]
  <2>1. g[n] \in Steps(S, f0, h, n) /\ g[n + 1] \in Steps(S, f0, h, n + 1)
    BY <1>1
  <2>2. g[n + 1][n] = g[n][n]
    <3>1. n + 1 \in Nat /\ n <= n /\ n <= n + 1
      OBVIOUS
    <3> HIDE DEF f
    <3>2. \A e1 \in Steps(S, f0, h, n + 1), e2 \in Steps(S, f0, h, n), m \in Nat :
            m <= n + 1 /\ m <= n => e1[m] = e2[m]
      BY <1>0, <3>1, StepsAgree
    <3> QED BY <2>1, <3>1, <3>2
  <2>3. n \in 0 .. (n + 1) - 1
    OBVIOUS
  <2>4. g[n + 1][n + 1] = h[<<g[n + 1][n], n>>]
    BY <2>1, <2>3 DEF Steps
  <2> QED BY <2>2, <2>4
<1>5. Recursion(f, S, f0, h)
  BY <1>2, <1>3, <1>4 DEF Recursion
<1> QED BY <1>5

-------------------------------------------------------------------------------
(***************************************************************************)
(* Arithmetic modulo P.                                                    *)
(***************************************************************************)
LEMMA PrimeFacts ==
  /\ P \in Nat /\ P >= 5
  /\ \E q \in Nat : P = 8 * q + 5
<1>1. P \in Nat /\ P % 8 = 5
  BY FieldAssumption
<1>2. P = 8 * (P \div 8) + 5 /\ P \div 8 \in Nat
  BY <1>1
<1>3. \E q \in Nat : P = 8 * q + 5
  BY <1>2
<1> QED BY <1>1, <1>2, <1>3

Divisible(x) == \E k \in Int : x = k * P

Combine(a, x, b, y) == a * x + b * y

LEMMA Combination ==
  ASSUME NEW x \in Int, NEW y \in Int, NEW a \in Int, NEW b \in Int,
         Divisible(x), Divisible(y)
  PROVE  Divisible(Combine(a, x, b, y))
<1>1. PICK k \in Int : x = k * P
  BY DEF Divisible
<1>2. PICK m \in Int : y = m * P
  BY DEF Divisible
<1>3. \A p, k1, m1, a1, b1 \in Int : a1 * (k1 * p) + b1 * (m1 * p) = (a1 * k1 + b1 * m1) * p
  OBVIOUS
<1>4. a * x + b * y = (a * k + b * m) * P
  BY <1>1, <1>2, <1>3, PrimeFacts
<1>5. a * k + b * m \in Int
  OBVIOUS
<1> QED BY <1>4, <1>5 DEF Divisible, Combine

LEMMA Multiple ==
  ASSUME NEW x \in Int, NEW a \in Int, Divisible(x)
  PROVE  Divisible(a * x)
<1>1. Divisible(Combine(a, x, 0, x))
  BY Combination
<1>2. Combine(a, x, 0, x) = a * x
  BY DEF Combine
<1> QED BY <1>1, <1>2

LEMMA Remainder ==
  ASSUME NEW x \in Int
  PROVE  x % P \in Field /\ Divisible(x - (x % P))
<1>1. x = P * (x \div P) + (x % P) /\ x \div P \in Int /\ x % P \in 0 .. P - 1
  <2>1. \A n \in Nat : n > 0 =>
          x = n * (x \div n) + (x % n) /\ x \div n \in Int /\ x % n \in 0 .. n - 1
    OBVIOUS
  <2> QED BY <2>1, PrimeFacts
<1>2. x - (x % P) = (x \div P) * P
  <2> DEFINE q == x \div P
             r == x % P
  <2>1. x = P * q + r /\ q \in Int /\ r \in Int
    BY <1>1
  <2>2. \A u, v, w \in Int : (u * v + w) - w = v * u
    OBVIOUS
  <2> HIDE DEF q, r
  <2>3. x - r = q * P
    BY <2>1, <2>2, PrimeFacts
  <2> QED BY <2>3 DEF q, r
<1> QED BY <1>1, <1>2 DEF Divisible, Field

LEMMA SameElement ==
  ASSUME NEW a \in Field, NEW b \in Field, Divisible(a - b)
  PROVE  a = b
<1>1. PICK k \in Int : a - b = k * P
  BY DEF Divisible
<1>2. a \in Int /\ b \in Int /\ 0 - P < a - b /\ a - b < P
  BY PrimeFacts DEF Field
<1>3. \A j \in Int : 0 - P < j * P /\ j * P < P => j = 0
  <2> SUFFICES ASSUME NEW j \in Int, 0 - P < j * P, j * P < P, j # 0 PROVE FALSE
    OBVIOUS
  <2>1. \A u, v \in Nat : u >= 1 => u * v >= v
    OBVIOUS
  <2>2. CASE j >= 1
    BY <2>1, <2>2, PrimeFacts
  <2>3. CASE 0 - j >= 1
    <3>1. (0 - j) * P >= P
      BY <2>1, <2>3, PrimeFacts
    <3>2. \A u, v \in Int : (0 - u) * v = 0 - (u * v)
      OBVIOUS
    <3>3. (0 - j) * P = 0 - (j * P) /\ j * P \in Int
      BY <3>2, PrimeFacts
    <3> QED BY <3>1, <3>3, PrimeFacts
  <2> QED BY <2>2, <2>3
<1>4. k = 0
  BY <1>1, <1>2, <1>3
<1> QED BY <1>1, <1>2, <1>4, PrimeFacts

LEMMA DivisibleElement ==
  ASSUME NEW a \in Field, Divisible(a)
  PROVE  a = 0
<1>1. 0 \in Field /\ a - 0 = a
  BY PrimeFacts DEF Field
<1> QED BY <1>1, SameElement

\* A prime that divides a product divides a factor.
LEMMA PrimeDividesFactor ==
  ASSUME NEW a \in Int, NEW b \in Int, Divisible(a * b)
  PROVE  Divisible(a) \/ Divisible(b)
<1> SUFFICES ASSUME ~ Divisible(a) PROVE Divisible(b)
  OBVIOUS
<1> DEFINE T == {n \in Nat : n # 0 /\ Divisible(n * b)}
           r == a % P
<1>1. r \in Nat /\ 0 < r /\ r < P /\ Divisible(r * b)
  <2>1. r \in Field /\ Divisible(a - r)
    BY Remainder
  <2>2. r \in Nat /\ r < P
    BY <2>1, PrimeFacts DEF Field
  <2>3. r # 0
    <3> SUFFICES ASSUME r = 0 PROVE FALSE
      OBVIOUS
    <3>1. a - r = a
      OBVIOUS
    <3> QED BY <2>1, <3>1
  <2> HIDE DEF r
  <2>4. Divisible(Combine(1, a * b, 0 - b, a - r))
    BY <2>1, <2>2, Combination
  <2>6. Combine(1, a * b, 0 - b, a - r) = r * b
    BY <2>2 DEF Combine
  <2> QED BY <2>2, <2>3, <2>4, <2>6
<1>2. r \in T
  BY <1>1
<1> HIDE DEF r
<1>3. PICK d \in T : \A n \in T : d <= n
  BY <1>2, LeastElement
<1>4. d \in Nat /\ 1 <= d /\ d < P /\ Divisible(d * b)
  <2>1. d \in Nat /\ d # 0 /\ Divisible(d * b)
    BY <1>3
  <2>2. d <= r
    <3> HIDE DEF T
    <3> QED BY <1>2, <1>3
  <2> QED BY <2>1, <2>2, <1>1, PrimeFacts
<1>5. P % d = 0
  <2> DEFINE q == P \div d
             s == P % d
  <2>1. P = d * q + s /\ q \in Int /\ s \in Nat /\ s < d
    BY <1>4, PrimeFacts
  <2> HIDE DEF q, s
  <2>2. Divisible(b * P)
    BY PrimeFacts DEF Divisible
  <2>3. Divisible(Combine(1, b * P, 0 - q, d * b))
    BY <1>4, <2>1, <2>2, Combination, PrimeFacts
  <2>4. Combine(1, b * (d * q + s), 0 - q, d * b) = s * b
    BY <1>4, <2>1 DEF Combine
  <2>5. Combine(1, b * P, 0 - q, d * b) = s * b
    BY <2>1, <2>4
  <2>6. s = 0
    BY <1>3, <1>4, <2>1, <2>3, <2>5
  <2> QED BY <2>6 DEF s
<1>6. d = 1
  BY <1>4, <1>5, FieldAssumption, PrimeFacts
<1> QED BY <1>4, <1>6

-------------------------------------------------------------------------------
(***************************************************************************)
(* Powers of integers.                                                     *)
(***************************************************************************)
IntegerPower(a) ==
  CHOOSE f \in [Nat -> Int] : f[0] = 1 /\ \A n \in Nat : f[n + 1] = a * f[n]

LEMMA IntegerPowers ==
  ASSUME NEW a \in Int
  PROVE  /\ IntegerPower(a) \in [Nat -> Int]
         /\ IntegerPower(a)[0] = 1
         /\ \A n \in Nat : IntegerPower(a)[n + 1] = a * IntegerPower(a)[n]
<1> DEFINE h == [s \in Int \X Nat |-> a * s[1]]
<1>1. StepFunction(Int, h) /\ 1 \in Int
  BY DEF StepFunction
<1>2. \A x \in Int, n \in Nat : h[<<x, n>>] = a * x
  OBVIOUS
<1> HIDE DEF h
<1>3. PICK f : Recursion(f, Int, 1, h)
  BY <1>1, PrimitiveRecursion
<1>4. f \in [Nat -> Int] /\ f[0] = 1 /\ \A n \in Nat : f[n + 1] = a * f[n]
  BY <1>2, <1>3 DEF Recursion
<1>5. \E g \in [Nat -> Int] : g[0] = 1 /\ \A n \in Nat : g[n + 1] = a * g[n]
  BY <1>4
<1> QED BY <1>5 DEF IntegerPower

LEMMA IntegerPowerType ==
  \A a \in Int, n \in Nat : IntegerPower(a)[n] \in Int
BY IntegerPowers

LEMMA IntegerPowerAdds ==
  ASSUME NEW a \in Int, NEW m \in Nat
  PROVE  \A n \in Nat : IntegerPower(a)[m + n] = IntegerPower(a)[m] * IntegerPower(a)[n]
<1> DEFINE f == IntegerPower(a)
           T == {n \in Nat : f[m + n] = f[m] * f[n]}
<1>1. f \in [Nat -> Int] /\ f[0] = 1 /\ \A n \in Nat : f[n + 1] = a * f[n]
  BY IntegerPowers
<1> HIDE DEF f
<1>2. 0 \in T
  BY <1>1
<1>3. ASSUME NEW n \in T \cap Nat PROVE n + 1 \in T
  <2> DEFINE x == f[m]
             y == f[n]
  <2>1. f[m + n] = x * y /\ x \in Int /\ y \in Int
    BY <1>1
  <2>2. m + n \in Nat /\ m + (n + 1) = (m + n) + 1
    OBVIOUS
  <2>3. f[m + (n + 1)] = a * f[m + n]
    BY <1>1, <2>2
  <2>4. f[n + 1] = a * y
    BY <1>1
  <2> HIDE DEF x, y
  <2>5. a * (x * y) = x * (a * y)
    BY <2>1
  <2>6. f[m + (n + 1)] = x * f[n + 1]
    BY <2>1, <2>3, <2>4, <2>5
  <2> QED BY <2>6 DEF x
<1> HIDE DEF T
<1>4. Nat \subseteq T
  BY <1>2, <1>3, SetInduction
<1> QED BY <1>4 DEF T, f

LEMMA IntegerPowerOfProduct ==
  ASSUME NEW a \in Int, NEW b \in Int
  PROVE  \A n \in Nat : IntegerPower(a * b)[n] = IntegerPower(a)[n] * IntegerPower(b)[n]
<1> DEFINE f == IntegerPower(a)
           g == IntegerPower(b)
           c == a * b
           h == IntegerPower(c)
           T == {n \in Nat : h[n] = f[n] * g[n]}
<1>1. /\ f \in [Nat -> Int] /\ f[0] = 1 /\ \A n \in Nat : f[n + 1] = a * f[n]
      /\ g \in [Nat -> Int] /\ g[0] = 1 /\ \A n \in Nat : g[n + 1] = b * g[n]
  BY IntegerPowers
<1>2. h \in [Nat -> Int] /\ h[0] = 1 /\ \A n \in Nat : h[n + 1] = c * h[n]
  <2>1. c \in Int
    OBVIOUS
  <2> HIDE DEF c
  <2> QED BY <2>1, IntegerPowers
<1> HIDE DEF f, g, h
<1>3. 0 \in T
  BY <1>1, <1>2
<1>4. ASSUME NEW n \in T \cap Nat PROVE n + 1 \in T
  <2> DEFINE x == f[n]
             y == g[n]
  <2>1. x \in Int /\ y \in Int /\ h[n] = x * y
    BY <1>1
  <2>2. f[n + 1] = a * x /\ g[n + 1] = b * y /\ h[n + 1] = (a * b) * h[n]
    BY <1>1, <1>2
  <2> HIDE DEF x, y
  <2>3. (a * b) * (x * y) = (a * x) * (b * y)
    BY <2>1
  <2> QED BY <2>1, <2>2, <2>3
<1> HIDE DEF T
<1>5. Nat \subseteq T
  BY <1>3, <1>4, SetInduction
<1> QED BY <1>5 DEF T, f, g, h

\* Powers of elements that are equal modulo P are equal modulo P.
LEMMA IntegerPowerModulo ==
  ASSUME NEW a \in Int, NEW b \in Int, Divisible(a - b)
  PROVE  \A n \in Nat : Divisible(IntegerPower(a)[n] - IntegerPower(b)[n])
<1> DEFINE f == IntegerPower(a)
           g == IntegerPower(b)
           T == {n \in Nat : Divisible(f[n] - g[n])}
<1>1. /\ f \in [Nat -> Int] /\ f[0] = 1 /\ \A n \in Nat : f[n + 1] = a * f[n]
      /\ g \in [Nat -> Int] /\ g[0] = 1 /\ \A n \in Nat : g[n + 1] = b * g[n]
  BY IntegerPowers
<1> HIDE DEF f, g
<1>2. 0 \in T
  <2>1. 0 = 0 * P /\ f[0] - g[0] = 0
    BY <1>1, PrimeFacts
  <2> QED BY <2>1 DEF Divisible
<1>3. ASSUME NEW n \in T \cap Nat PROVE n + 1 \in T
  <2> DEFINE x == f[n]
             y == g[n]
  <2>1. x \in Int /\ y \in Int /\ Divisible(x - y)
    BY <1>1
  <2>2. f[n + 1] = a * x /\ g[n + 1] = b * y
    BY <1>1
  <2> HIDE DEF x, y
  <2>3. Divisible(Combine(a, x - y, y, a - b))
    BY <2>1, Combination
  <2>4. Combine(a, x - y, y, a - b) = a * x - b * y
    BY <2>1 DEF Combine
  <2> QED BY <2>2, <2>3, <2>4
<1> HIDE DEF T
<1>4. Nat \subseteq T
  BY <1>2, <1>3, SetInduction
<1> QED BY <1>4 DEF T, f, g

-------------------------------------------------------------------------------
(***************************************************************************)
(* Binomial coefficients and Fermat's little theorem.                      *)
(***************************************************************************)
Pascal(C) ==
  /\ C \in [Nat -> [Nat -> Nat]]
  /\ \A n \in Nat : C[n][0] = 1
  /\ \A k \in Nat : C[0][k + 1] = 0
  /\ \A n, k \in Nat : C[n + 1][k + 1] = C[n][k] + C[n][k + 1]

LEMMA PascalExists == \E C : Pascal(C)
<1> DEFINE S == [Nat -> Nat]
           top == [k \in Nat |-> IF k = 0 THEN 1 ELSE 0]
           next == [s \in S \X Nat |->
                      [k \in Nat |-> IF k = 0 THEN 1 ELSE s[1][k - 1] + s[1][k]]]
<1>1. top \in S
  OBVIOUS
<1>2. ASSUME NEW s \in S, NEW n \in Nat
      PROVE  /\ next[<<s, n>>] \in S
             /\ next[<<s, n>>][0] = 1
             /\ \A k \in Nat : next[<<s, n>>][k + 1] = s[k] + s[k + 1]
  OBVIOUS
<1>3. StepFunction(S, next)
  BY DEF StepFunction
<1>4. top[0] = 1 /\ \A k \in Nat : top[k + 1] = 0
  OBVIOUS
<1> HIDE DEF top, next
<1>5. PICK C : C \in [Nat -> S] /\ C[0] = top /\ \A n \in Nat : C[n + 1] = next[<<C[n], n>>]
  <2> HIDE DEF S
  <2>1. PICK C : Recursion(C, S, top, next)
    BY <1>1, <1>3, PrimitiveRecursion
  <2> QED BY <2>1 DEF Recursion
<1>6. ASSUME NEW n \in Nat, NEW k \in Nat PROVE C[n + 1][k + 1] = C[n][k] + C[n][k + 1]
  <2> HIDE DEF S
  <2>1. C[n] \in S /\ C[n + 1] = next[<<C[n], n>>]
    BY <1>5
  <2> QED BY <1>2, <2>1
<1>7. ASSUME NEW n \in Nat PROVE C[n][0] = 1
  <2>1. CASE n = 0
    BY <2>1, <1>4, <1>5
  <2>2. CASE n # 0
    <3>1. n - 1 \in Nat /\ (n - 1) + 1 = n
      BY <2>2
    <3>2. C[(n - 1) + 1] = next[<<C[n - 1], n - 1>>]
      BY <1>5, <3>1
    <3>3. C[n - 1] \in S
      BY <1>5, <3>1
    <3>4. next[<<C[n - 1], n - 1>>][0] = 1
      BY <1>2, <3>1, <3>3
    <3> QED BY <3>1, <3>2, <3>4
  <2> QED BY <2>1, <2>2
<1>8. \A k \in Nat : C[0][k + 1] = 0
  BY <1>4, <1>5
<1> QED BY <1>5, <1>6, <1>7, <1>8 DEF Pascal

LEMMA PascalBorder ==
  ASSUME NEW C, Pascal(C), NEW n \in Nat
  PROVE  C[n][n] = 1 /\ \A k \in Nat : k > n => C[n][k] = 0
<1> DEFINE T == {m \in Nat : C[m][m] = 1 /\ \A k \in Nat : k > m => C[m][k] = 0}
<1>1. 0 \in T
  <2>1. ASSUME NEW k \in Nat, k > 0 PROVE C[0][k] = 0
    <3>1. k - 1 \in Nat /\ (k - 1) + 1 = k
      BY <2>1
    <3>2. C[0][(k - 1) + 1] = 0
      BY <3>1 DEF Pascal
    <3> QED BY <3>1, <3>2
  <2> QED BY <2>1 DEF Pascal
<1>2. ASSUME NEW m \in T \cap Nat PROVE m + 1 \in T
  <2>1. C[m][m] = 1 /\ \A k \in Nat : k > m => C[m][k] = 0
    OBVIOUS
  <2>2. C[m + 1][m + 1] = C[m][m] + C[m][m + 1]
    BY DEF Pascal
  <2>3. C[m + 1][m + 1] = 1
    BY <2>1, <2>2
  <2>4. ASSUME NEW k \in Nat, k > m + 1 PROVE C[m + 1][k] = 0
    <3>1. k - 1 \in Nat /\ (k - 1) + 1 = k /\ k - 1 > m /\ k > m
      BY <2>4
    <3>2. C[m + 1][(k - 1) + 1] = C[m][k - 1] + C[m][(k - 1) + 1]
      BY <3>1 DEF Pascal
    <3>3. C[m][k - 1] = 0 /\ C[m][k] = 0
      BY <2>1, <3>1
    <3> QED BY <3>1, <3>2, <3>3
  <2> QED BY <2>3, <2>4
<1> HIDE DEF T
<1>3. Nat \subseteq T
  BY <1>1, <1>2, SetInduction
<1> QED BY <1>3 DEF T

LEMMA PascalAbsorption ==
  ASSUME NEW C, Pascal(C)
  PROVE  \A n, k \in Nat : (k + 1) * C[n + 1][k + 1] = (n + 1) * C[n][k]
<1> DEFINE T == {n \in Nat : \A k \in Nat : (k + 1) * C[n + 1][k + 1] = (n + 1) * C[n][k]}
<1>0. \A n, k \in Nat : C[n][k] \in Nat /\ C[n][0] = 1
  BY DEF Pascal
<1>1. 0 \in T
  <2> SUFFICES ASSUME NEW k \in Nat PROVE (k + 1) * C[0 + 1][k + 1] = (0 + 1) * C[0][k]
    OBVIOUS
  <2>1. C[0 + 1][k + 1] = C[0][k] + C[0][k + 1] /\ C[0][k + 1] = 0
    BY DEF Pascal
  <2>2. CASE k = 0
    BY <1>0, <2>1, <2>2
  <2>3. CASE k # 0
    <3>1. C[0][k] = 0
      BY <2>3, PascalBorder
    <3> QED BY <2>1, <3>1
  <2> QED BY <2>2, <2>3
<1>2. ASSUME NEW n \in T \cap Nat PROVE n + 1 \in T
  <2> SUFFICES ASSUME NEW k \in Nat
               PROVE  (k + 1) * C[(n + 1) + 1][k + 1] = ((n + 1) + 1) * C[n + 1][k]
    OBVIOUS
  <2> DEFINE x == C[n + 1][k]
             y == C[n + 1][k + 1]
             z == C[n][k]
  <2>1. C[(n + 1) + 1][k + 1] = x + y
    BY DEF Pascal
  <2>2. (k + 1) * y = (n + 1) * z
    OBVIOUS
  <2>3. x \in Nat /\ y \in Nat /\ z \in Nat
    BY <1>0
  <2>4. CASE k = 0
    <3>1. x = 1 /\ z = 1
      BY <1>0, <2>4
    <3> QED BY <2>1, <2>2, <2>3, <2>4, <3>1
  <2>5. CASE k # 0
    <3> DEFINE j == k - 1
               w == C[n][j]
    <3>1. j \in Nat /\ j + 1 = k
      BY <2>5
    <3>2. (j + 1) * C[n + 1][j + 1] = (n + 1) * w
      BY <3>1
    <3>3. C[n + 1][j + 1] = w + C[n][j + 1]
      BY <3>1 DEF Pascal
    <3>4. w \in Nat
      BY <1>0, <3>1
    <3>5. k * x = (n + 1) * w /\ x = w + z
      BY <3>1, <3>2, <3>3
    <3> HIDE DEF j, w, x, y, z
    <3>6. (k + 1) * (x + y) = k * x + x + (k + 1) * y
      BY <2>3
    <3>7. (n + 1) * w + x + (n + 1) * z = (n + 1) * (w + z) + x
      BY <2>3, <3>4
    <3>8. (n + 1) * x + x = ((n + 1) + 1) * x
      BY <2>3
    <3>9. (k + 1) * (x + y) = ((n + 1) + 1) * x
      BY <2>2, <2>3, <3>4, <3>5, <3>6, <3>7, <3>8
    <3> QED BY <2>1, <3>9 DEF x
  <2> QED BY <2>4, <2>5
<1> HIDE DEF T
<1>3. Nat \subseteq T
  BY <1>1, <1>2, SetInduction
<1> QED BY <1>3 DEF T

LEMMA PascalDivisible ==
  ASSUME NEW C, Pascal(C), NEW k \in 1 .. P - 1
  PROVE  Divisible(C[P][k])
<1>1. k - 1 \in Nat /\ P - 1 \in Nat /\ (k - 1) + 1 = k /\ (P - 1) + 1 = P /\ k \in Nat
  BY PrimeFacts
<1>2. ((k - 1) + 1) * C[(P - 1) + 1][(k - 1) + 1] = ((P - 1) + 1) * C[P - 1][k - 1]
  BY <1>1, PascalAbsorption
<1>3. C[P - 1][k - 1] \in Nat /\ C[P][k] \in Nat
  BY <1>1, PrimeFacts DEF Pascal
<1> DEFINE x == C[P - 1][k - 1]
           y == C[P][k]
<1>4. k * y = P * x
  BY <1>1, <1>2
<1>5. x \in Nat /\ y \in Nat
  BY <1>3
<1> HIDE DEF x, y
<1>6. P * x = x * P
  BY <1>5, PrimeFacts
<1>7. Divisible(k * y)
  BY <1>4, <1>5, <1>6 DEF Divisible
<1>8. ~ Divisible(k)
  <2>1. k \in Field /\ k # 0
    BY PrimeFacts DEF Field
  <2> QED BY <2>1, DivisibleElement
<1>9. Divisible(y)
  BY <1>5, <1>7, <1>8, PrimeDividesFactor
<1> QED BY <1>9 DEF y

\* Row n of the binomial theorem for a + 1, its first k + 1 terms summed.
Partial(C, f, n) ==
  CHOOSE s \in [Nat -> Int] :
    s[0] = 1 /\ \A k \in Nat : s[k + 1] = s[k] + C[n][k + 1] * f[k + 1]

LEMMA PartialSums ==
  ASSUME NEW C, Pascal(C), NEW f \in [Nat -> Int], NEW n \in Nat
  PROVE  /\ Partial(C, f, n) \in [Nat -> Int]
         /\ Partial(C, f, n)[0] = 1
         /\ \A k \in Nat :
              Partial(C, f, n)[k + 1] = Partial(C, f, n)[k] + C[n][k + 1] * f[k + 1]
<1> DEFINE h == [s \in Int \X Nat |-> s[1] + C[n][s[2] + 1] * f[s[2] + 1]]
<1>1. \A k \in Nat : C[n][k] \in Nat
  BY DEF Pascal
<1>2. ASSUME NEW x \in Int, NEW k \in Nat
      PROVE  h[<<x, k>>] = x + C[n][k + 1] * f[k + 1] /\ h[<<x, k>>] \in Int
  <2>1. h[<<x, k>>] = x + C[n][k + 1] * f[k + 1]
    OBVIOUS
  <2>2. C[n][k + 1] \in Int /\ f[k + 1] \in Int
    BY <1>1
  <2>3. x + C[n][k + 1] * f[k + 1] \in Int
    BY <2>2
  <2> QED BY <2>1, <2>3
<1>3. DOMAIN h = Int \X Nat /\ h = [s \in Int \X Nat |-> h[s]]
  OBVIOUS
<1> HIDE DEF h
<1>4. StepFunction(Int, h) /\ 1 \in Int
  <2>1. \A s \in Int \X Nat : h[s] \in Int
    BY <1>2
  <2> QED BY <1>3, <2>1 DEF StepFunction
<1>5. PICK s : Recursion(s, Int, 1, h)
  BY <1>4, PrimitiveRecursion
<1>6. s \in [Nat -> Int] /\ s[0] = 1 /\ \A k \in Nat : s[k + 1] = s[k] + C[n][k + 1] * f[k + 1]
  BY <1>2, <1>5 DEF Recursion
<1>7. \E t \in [Nat -> Int] :
        t[0] = 1 /\ \A k \in Nat : t[k + 1] = t[k] + C[n][k + 1] * f[k + 1]
  BY <1>6
<1> QED BY <1>7 DEF Partial

LEMMA NextRow ==
  ASSUME NEW C, Pascal(C), NEW a \in Int, NEW n \in Nat
  PROVE  LET f == IntegerPower(a)
         IN  \A k \in Nat : Partial(C, f, n + 1)[k + 1] =
               (a + 1) * Partial(C, f, n)[k] + C[n][k + 1] * f[k + 1]
<1> DEFINE f == IntegerPower(a)
           s == Partial(C, f, n)
           t == Partial(C, f, n + 1)
           T == {k \in Nat : t[k + 1] = (a + 1) * s[k] + C[n][k + 1] * f[k + 1]}
<1>1. f \in [Nat -> Int] /\ f[0] = 1 /\ \A k \in Nat : f[k + 1] = a * f[k]
  BY IntegerPowers
<1> HIDE DEF f
<1>2. s \in [Nat -> Int] /\ s[0] = 1 /\ \A k \in Nat : s[k + 1] = s[k] + C[n][k + 1] * f[k + 1]
  <2>1. f \in [Nat -> Int]
    BY <1>1
  <2> QED BY <2>1, PartialSums
<1>3. /\ t \in [Nat -> Int] /\ t[0] = 1
      /\ \A k \in Nat : t[k + 1] = t[k] + C[n + 1][k + 1] * f[k + 1]
  <2>1. f \in [Nat -> Int]
    BY <1>1
  <2> HIDE DEF s
  <2> PICK m \in Nat : m = n + 1
    OBVIOUS
  <2>2. /\ Partial(C, f, m) \in [Nat -> Int] /\ Partial(C, f, m)[0] = 1
        /\ \A k \in Nat : Partial(C, f, m)[k + 1] = Partial(C, f, m)[k] + C[m][k + 1] * f[k + 1]
    BY <2>1, PartialSums
  <2> QED BY <2>2
<1> HIDE DEF s, t
<1>4. \A k \in Nat : C[n][k] \in Nat /\ C[n + 1][k] \in Nat /\ C[n][0] = 1
  <2>1. n + 1 \in Nat
    OBVIOUS
  <2>2. \A m, k \in Nat : C[m][k] \in Nat /\ C[m][0] = 1
    BY DEF Pascal
  <2> QED BY <2>1, <2>2
<1>5. \A k \in Nat : C[n + 1][k + 1] = C[n][k] + C[n][k + 1]
  BY DEF Pascal
<1>6. 0 \in T
  <2> DEFINE y == C[n][0 + 1]
  <2>1. t[0 + 1] = 1 + C[n + 1][0 + 1] * f[0 + 1]
    BY <1>3
  <2>2. C[n + 1][0 + 1] = 1 + y /\ y \in Nat
    BY <1>4, <1>5
  <2>3. f[0 + 1] = a
    BY <1>1
  <2> HIDE DEF y
  <2>4. 1 + (1 + y) * a = (a + 1) * 1 + y * a
    BY <2>2
  <2>5. t[0 + 1] = (a + 1) * s[0] + y * f[0 + 1]
    BY <1>2, <2>1, <2>2, <2>3, <2>4
  <2> QED BY <2>5 DEF y
<1>7. ASSUME NEW k \in T \cap Nat PROVE k + 1 \in T
  <2> DEFINE x == s[k]
             y == C[n][k + 1]
             z == C[n][(k + 1) + 1]
             w == f[k + 1]
  <2>1. x \in Int /\ y \in Nat /\ z \in Nat /\ w \in Int
    BY <1>1, <1>2, <1>4
  <2>2. t[k + 1] = (a + 1) * x + y * w
    OBVIOUS
  <2>3. t[(k + 1) + 1] = t[k + 1] + (y + z) * f[(k + 1) + 1]
    BY <1>3, <1>5
  <2>4. f[(k + 1) + 1] = a * w
    BY <1>1
  <2>5. s[k + 1] = x + y * w
    BY <1>2
  <2> HIDE DEF x, y, z, w
  <2>6. ((a + 1) * x + y * w) + (y + z) * (a * w) = (a + 1) * (x + y * w) + z * (a * w)
    BY <2>1
  <2>7. t[(k + 1) + 1] = (a + 1) * s[k + 1] + z * f[(k + 1) + 1]
    BY <2>2, <2>3, <2>4, <2>5, <2>6
  <2> QED BY <2>7 DEF z
<1> HIDE DEF T
<1>8. Nat \subseteq T
  BY <1>6, <1>7, SetInduction
<1> QED BY <1>8 DEF T, f, s, t

LEMMA BinomialTheorem ==
  ASSUME NEW C, Pascal(C), NEW a \in Int
  PROVE  \A n \in Nat : Partial(C, IntegerPower(a), n)[n] = IntegerPower(a + 1)[n]
<1> DEFINE f == IntegerPower(a)
           b == a + 1
           g == IntegerPower(b)
           T == {n \in Nat : Partial(C, f, n)[n] = g[n]}
<1>1. f \in [Nat -> Int] /\ b \in Int
  BY IntegerPowers
<1>2. g \in [Nat -> Int] /\ g[0] = 1 /\ \A n \in Nat : g[n + 1] = b * g[n]
  <2> HIDE DEF b
  <2> QED BY <1>1, IntegerPowers
<1>3. \A n \in Nat : Partial(C, f, n + 1)[n + 1] = (a + 1) * Partial(C, f, n)[n] + C[n][n + 1] * f[n + 1]
  BY NextRow
<1> HIDE DEF f, g
<1>4. 0 \in T
  BY <1>1, <1>2, PartialSums
<1>5. ASSUME NEW n \in T \cap Nat PROVE n + 1 \in T
  <2>1. C[n][n + 1] = 0
    BY PascalBorder
  <2>2. f[n + 1] \in Int /\ Partial(C, f, n)[n] = g[n] /\ g[n] \in Int
    BY <1>1, <1>2
  <2>3. Partial(C, f, n + 1)[n + 1] = (a + 1) * g[n] + 0 * f[n + 1]
    BY <1>3, <2>1, <2>2
  <2>4. (a + 1) * g[n] + 0 * f[n + 1] = g[n + 1]
    BY <1>2, <2>2
  <2> QED BY <2>3, <2>4
<1> HIDE DEF T
<1>6. Nat \subseteq T
  BY <1>4, <1>5, SetInduction
<1> QED BY <1>6 DEF T, f, g

LEMMA PowerOfSuccessor ==
  ASSUME NEW a \in Int
  PROVE  Divisible(IntegerPower(a + 1)[P] - (IntegerPower(a)[P] + 1))
<1> PICK C : Pascal(C)
  BY PascalExists
<1> DEFINE f == IntegerPower(a)
           s == Partial(C, f, P)
           T == {k \in Nat : k < P => Divisible(s[k] - 1)}
<1>1. f \in [Nat -> Int]
  BY IntegerPowers
<1> HIDE DEF f
<1>2. s \in [Nat -> Int] /\ s[0] = 1 /\ \A k \in Nat : s[k + 1] = s[k] + C[P][k + 1] * f[k + 1]
  BY <1>1, PartialSums, PrimeFacts
<1> HIDE DEF s
<1>3. 0 \in T
  <2>1. s[0] - 1 = 0 * P
    BY <1>2, PrimeFacts
  <2> QED BY <2>1 DEF Divisible
<1>4. ASSUME NEW k \in T \cap Nat PROVE k + 1 \in T
  <2> SUFFICES ASSUME k + 1 < P PROVE Divisible(s[k + 1] - 1)
    OBVIOUS
  <2> DEFINE x == s[k]
             y == C[P][k + 1]
             w == f[k + 1]
  <2>1. k + 1 \in 1 .. P - 1 /\ k < P
    BY PrimeFacts
  <2>2. Divisible(y) /\ Divisible(x - 1)
    BY <2>1, PascalDivisible
  <2>3. x \in Int /\ w \in Int /\ y \in Int
    BY <1>1, <1>2, PrimeFacts DEF Pascal
  <2>4. s[k + 1] = x + y * w
    BY <1>2
  <2> HIDE DEF x, y, w
  <2>5. Divisible(Combine(1, x - 1, w, y))
    BY <2>2, <2>3, Combination
  <2>6. Combine(1, x - 1, w, y) = (x + y * w) - 1
    BY <2>3 DEF Combine
  <2> QED BY <2>4, <2>5, <2>6
<1>5. Nat \subseteq T
  <2> HIDE DEF T
  <2> QED BY <1>3, <1>4, SetInduction
<1>6. P - 1 \in Nat /\ P - 1 < P /\ (P - 1) + 1 = P
  BY PrimeFacts
<1>7. Divisible(s[P - 1] - 1)
  BY <1>5, <1>6
<1>8. s[P] = s[P - 1] + C[P][P] * f[P] /\ C[P][P] = 1
  BY <1>2, <1>6, PascalBorder, PrimeFacts
<1>9. s[P - 1] \in Int /\ f[P] \in Int
  BY <1>1, <1>2, <1>6, PrimeFacts
<1>10. s[P] - (f[P] + 1) = s[P - 1] - 1
  BY <1>8, <1>9
<1>11. s[P] = IntegerPower(a + 1)[P]
  BY BinomialTheorem, PrimeFacts DEF s, f
<1> QED BY <1>7, <1>10, <1>11 DEF f

\* Fermat's little theorem.
LEMMA Fermat ==
  \A a \in Nat : Divisible(IntegerPower(a)[P] - a)
<1> DEFINE T == {a \in Nat : Divisible(IntegerPower(a)[P] - a)}
<1>1. 0 \in T
  <2>1. P - 1 \in Nat /\ (P - 1) + 1 = P
    BY PrimeFacts
  <2>2. IntegerPower(0)[P] = 0 * IntegerPower(0)[P - 1] /\ IntegerPower(0)[P - 1] \in Int
    <3>1. \A n \in Nat : /\ IntegerPower(0)[n + 1] = 0 * IntegerPower(0)[n]
                         /\ IntegerPower(0)[n] \in Int
      BY IntegerPowers
    <3>2. IntegerPower(0)[(P - 1) + 1] = 0 * IntegerPower(0)[P - 1]
      BY <2>1, <3>1
    <3> QED BY <2>1, <3>1, <3>2
  <2>3. IntegerPower(0)[P] - 0 = 0 * P
    BY <2>2, PrimeFacts
  <2> QED BY <2>3 DEF Divisible
<1>2. ASSUME NEW a \in T \cap Nat PROVE a + 1 \in T
  <2> DEFINE x == IntegerPower(a)[P]
             y == IntegerPower(a + 1)[P]
  <2>1. x \in Int /\ y \in Int
    BY IntegerPowerType, PrimeFacts
  <2>2. Divisible(y - (x + 1)) /\ Divisible(x - a)
    BY PowerOfSuccessor
  <2> HIDE DEF x, y
  <2>3. Divisible(Combine(1, y - (x + 1), 1, x - a))
    BY <2>1, <2>2, Combination
  <2>4. Combine(1, y - (x + 1), 1, x - a) = y - (a + 1)
    BY <2>1 DEF Combine
  <2>5. Divisible(y - (a + 1))
    BY <2>3, <2>4
  <2> QED BY <2>5 DEF y
<1> HIDE DEF T
<1>3. Nat \subseteq T
  BY <1>1, <1>2, SetInduction
<1> QED BY <1>3 DEF T

-------------------------------------------------------------------------------
(***************************************************************************)
(* The operations of the field.                                            *)
(***************************************************************************)
LEMMA FieldElements ==
  /\ \A a \in Field : a \in Nat /\ a \in Int /\ a < P
  /\ 0 \in Field /\ 1 \in Field /\ 2 \in Field /\ P - 1 \in Field
BY PrimeFacts DEF Field

LEMMA OppositeDivisible ==
  ASSUME NEW x \in Int, NEW y \in Int, Divisible(x - y)
  PROVE  Divisible(y - x)
<1>1. Divisible((0 - 1) * (x - y))
  BY Multiple
<1>2. (0 - 1) * (x - y) = y - x
  OBVIOUS
<1> QED BY <1>1, <1>2

LEMMA RemainderDivisible ==
  ASSUME NEW x \in Int
  PROVE  x % P \in Field /\ Divisible((x % P) - x)
<1>1. x % P \in Field /\ Divisible(x - (x % P))
  BY Remainder
<1>2. x % P \in Int
  BY <1>1, FieldElements
<1> QED BY <1>1, <1>2, OppositeDivisible

LEMMA MulModulo ==
  ASSUME NEW a \in Int, NEW b \in Int
  PROVE  Mul(a, b) \in Field /\ Divisible(Mul(a, b) - a * b)
<1>1. a * b \in Int
  OBVIOUS
<1> QED BY <1>1, RemainderDivisible DEF Mul

LEMMA AddModulo ==
  ASSUME NEW a \in Int, NEW b \in Int
  PROVE  Add(a, b) \in Field /\ Divisible(Add(a, b) - (a + b))
BY RemainderDivisible DEF Add

LEMMA SubModulo ==
  ASSUME NEW a \in Int, NEW b \in Int
  PROVE  Sub(a, b) \in Field /\ Divisible(Sub(a, b) - (a - b))
<1> DEFINE s == Sub(a, b)
<1>1. P + a - b \in Int /\ P \in Int
  BY PrimeFacts
<1>2. s \in Field /\ Divisible(s - (P + a - b))
  BY <1>1, RemainderDivisible DEF Sub
<1>3. s \in Int
  BY <1>2, FieldElements
<1> HIDE DEF s
<1>4. Divisible(P)
  <2> SUFFICES \E k \in Int : P = k * P
    BY DEF Divisible
  <2> WITNESS 1 \in Int
  <2> QED BY PrimeFacts
<1>5. Divisible(Combine(1, s - (P + a - b), 1, P))
  BY <1>1, <1>2, <1>3, <1>4, Combination
<1>6. Combine(1, s - (P + a - b), 1, P) = s - (a - b)
  BY <1>1, <1>3 DEF Combine
<1> QED BY <1>2, <1>5, <1>6 DEF s

LEMMA NegModulo ==
  ASSUME NEW a \in Int
  PROVE  Neg(a) \in Field /\ Divisible(Neg(a) + a)
<1>1. Neg(a) = Sub(0, a)
  <2>1. P - a = P + 0 - a
    BY PrimeFacts
  <2> QED BY <2>1 DEF Neg, Sub
<1>2. Neg(a) \in Field /\ Divisible(Neg(a) - (0 - a))
  BY <1>1, SubModulo
<1>3. Neg(a) \in Int
  BY <1>2, FieldElements
<1>4. Neg(a) - (0 - a) = Neg(a) + a
  BY <1>3
<1> QED BY <1>2, <1>4

\* Equal elements have equal remainders.
LEMMA EqualRemainders ==
  ASSUME NEW x \in Int, NEW y \in Int, Divisible(x - y)
  PROVE  x % P = y % P
<1> DEFINE r == x % P
           s == y % P
<1>1. r \in Field /\ s \in Field /\ Divisible(r - x) /\ Divisible(y - s)
  BY Remainder, RemainderDivisible
<1>2. r \in Int /\ s \in Int
  BY <1>1, FieldElements
<1> HIDE DEF r, s
<1>3. Divisible(Combine(1, r - x, 1, x - y)) /\ Combine(1, r - x, 1, x - y) = r - y
  <2>1. Combine(1, r - x, 1, x - y) = r - y
    BY <1>2 DEF Combine
  <2> QED BY <1>1, <1>2, <2>1, Combination
<1>4. Divisible(Combine(1, r - y, 1, y - s)) /\ Combine(1, r - y, 1, y - s) = r - s
  <2>1. Combine(1, r - y, 1, y - s) = r - s
    BY <1>2 DEF Combine
  <2> QED BY <1>1, <1>2, <1>3, <2>1, Combination
<1>5. r = s
  BY <1>1, <1>4, SameElement
<1> QED BY <1>5 DEF r, s

LEMMA ElementRemainder ==
  ASSUME NEW a \in Field
  PROVE  a % P = a
<1>1. a \in Nat /\ a < P
  BY PrimeFacts DEF Field
<1>2. \A n \in Nat : a < n => a % n = a
  BY <1>1
<1> QED BY <1>1, <1>2, PrimeFacts

LEMMA PowerValue ==
  \A n \in 0 .. P, a \in Field : Power[n][a] = IntegerPower(a)[n] % P
<1> DEFINE g == [n \in 0 .. P |-> [a \in Field |-> IntegerPower(a)[n] % P]]
           Step(f) == [n \in 0 .. P |->
                         [a \in Field |-> IF n = 0 THEN 1 ELSE Mul(a, f[n - 1][a])]]
<1>1. ASSUME NEW n \in 0 .. P, NEW a \in Field
      PROVE  IntegerPower(a)[n] % P =
               IF n = 0 THEN 1 ELSE Mul(a, IntegerPower(a)[n - 1] % P)
  <2>0. a \in Int
    BY FieldElements
  <2>1. CASE n = 0
    BY <2>0, <2>1, IntegerPowers, ElementRemainder, FieldElements
  <2>2. CASE n # 0
    <3> DEFINE x == IntegerPower(a)[n - 1]
               r == x % P
    <3>1. n - 1 \in Nat /\ (n - 1) + 1 = n
      BY <2>2, PrimeFacts
    <3>2. IntegerPower(a)[n] = a * x /\ x \in Int
      BY <2>0, <3>1, IntegerPowers
    <3> HIDE DEF x
    <3>3. Divisible(x - r) /\ r \in Int
      BY <3>2, Remainder, FieldElements
    <3> HIDE DEF r
    <3>4. Divisible(Combine(a, x - r, 0, x - r))
      BY <2>0, <3>2, <3>3, Combination
    <3>5. /\ Combine(a, x - r, 0, x - r) = a * x - a * r
          /\ a * x \in Int /\ a * r \in Int
      BY <2>0, <3>2, <3>3 DEF Combine
    <3>6. (a * x) % P = (a * r) % P
      BY <3>4, <3>5, EqualRemainders
    <3> QED BY <2>2, <3>2, <3>6 DEF Mul, r, x
  <2> QED BY <2>1, <2>2
<1>2. g = Step(g)
  <2>1. ASSUME NEW n \in 0 .. P
        PROVE  g[n] = [a \in Field |-> IF n = 0 THEN 1 ELSE Mul(a, g[n - 1][a])]
    <3>1. CASE n = 0
      BY <1>1, <3>1
    <3>2. CASE n # 0
      <4>1. n - 1 \in 0 .. P
        BY <3>2, PrimeFacts
      <4>2. \A a \in Field : g[n - 1][a] = IntegerPower(a)[n - 1] % P
        BY <4>1
      <4>3. \A a \in Field : g[n][a] = Mul(a, g[n - 1][a])
        BY <1>1, <3>2, <4>2
      <4>4. g[n] = [a \in Field |-> g[n][a]]
        OBVIOUS
      <4> HIDE DEF g
      <4> QED BY <3>2, <4>3, <4>4
    <3> QED BY <3>1, <3>2
  <2> HIDE DEF g
  <2>2. g = [n \in 0 .. P |-> g[n]]
    BY DEF g
  <2> QED BY <2>1, <2>2
<1>3. Power = Step(Power)
  <2>1. Power = CHOOSE f : f = Step(f)
    BY DEF Power
  <2> HIDE DEF g, Step
  <2> QED BY <1>2, <2>1
<1> DEFINE T == {n \in Nat : n <= P => \A a \in Field : Power[n][a] = IntegerPower(a)[n] % P}
<1>4. 0 \in T
  <2>1. 0 \in 0 .. P
    BY PrimeFacts
  <2>2. \A a \in Field : Power[0][a] = 1
    BY <1>3, <2>1
  <2> QED BY <1>1, <2>1, <2>2
<1>5. ASSUME NEW n \in T \cap Nat PROVE n + 1 \in T
  <2> SUFFICES ASSUME n + 1 <= P, NEW a \in Field
               PROVE  Power[n + 1][a] = IntegerPower(a)[n + 1] % P
    OBVIOUS
  <2>1. n + 1 \in 0 .. P /\ n + 1 # 0 /\ (n + 1) - 1 = n /\ n <= P
    BY PrimeFacts
  <2>2. Power[n + 1][a] = Mul(a, Power[n][a])
    BY <1>3, <2>1
  <2>3. Power[n][a] = IntegerPower(a)[n] % P
    BY <2>1
  <2>4. IntegerPower(a)[n + 1] % P = Mul(a, IntegerPower(a)[n] % P)
    BY <1>1, <2>1
  <2> QED BY <2>2, <2>3, <2>4
<1> HIDE DEF T
<1>6. Nat \subseteq T
  BY <1>4, <1>5, SetInduction
<1> QED BY <1>6, PrimeFacts DEF T

LEMMA PowerModulo ==
  ASSUME NEW n \in 0 .. P, NEW a \in Field
  PROVE  Power[n][a] \in Field /\ Divisible(Power[n][a] - IntegerPower(a)[n])
<1>1. n \in Nat /\ a \in Int
  BY PrimeFacts, FieldElements
<1>2. IntegerPower(a)[n] \in Int
  BY <1>1, IntegerPowerType
<1> QED BY <1>2, RemainderDivisible, PowerValue

LEMMA TabulatedIsFunction ==
  ASSUME NEW f
  PROVE  Tabulated(f) = f
BY DEF Tabulated

LEMMA NonzeroElement ==
  \A a \in Field \ {0} : ~ Divisible(a) /\ a \in Nat /\ a \in Int
BY DivisibleElement, FieldElements

-------------------------------------------------------------------------------
(***************************************************************************)
(* Inverses and the quadratic character.                                   *)
(***************************************************************************)
LEMMA FermatUnit ==
  ASSUME NEW a \in Nat, ~ Divisible(a)
  PROVE  Divisible(IntegerPower(a)[P - 1] - 1)
<1> DEFINE x == IntegerPower(a)[P - 1]
<1>1. P - 1 \in Nat /\ (P - 1) + 1 = P /\ a \in Int
  BY PrimeFacts
<1>2. x \in Int /\ IntegerPower(a)[(P - 1) + 1] = a * x
  BY <1>1, IntegerPowers
<1>3. Divisible(a * x - a)
  BY <1>1, <1>2, Fermat
<1> HIDE DEF x
<1>4. a * x - a = a * (x - 1)
  BY <1>2
<1>5. Divisible(x - 1)
  BY <1>2, <1>3, <1>4, PrimeDividesFactor
<1> QED BY <1>5 DEF x

\* inv() returns the inverse.
LEMMA InvIsInverse ==
  ASSUME NEW a \in Field \ {0}
  PROVE  Inv[a] \in Field \ {0} /\ Divisible(a * Inv[a] - 1)
<1> DEFINE x == Power[P - 2][a]
           y == IntegerPower(a)[P - 2]
           z == IntegerPower(a)[P - 1]
<1>1. Inv[a] = x
  <2> DEFINE f == [b \in Field \ {0} |-> Power[P - 2][b]]
  <2>1. Inv = Tabulated(f)
    BY DEF Inv
  <2>2. f[a] = x
    OBVIOUS
  <2> HIDE DEF f, x
  <2> QED BY <2>1, <2>2, TabulatedIsFunction
<1>2. P - 2 \in Nat /\ P - 2 \in 0 .. P /\ (P - 2) + 1 = P - 1
  BY PrimeFacts
<1>3. a \in Nat /\ a \in Int /\ ~ Divisible(a)
  BY NonzeroElement
<1>4. x \in Field /\ Divisible(x - y)
  BY <1>2, PowerModulo
<1>5. y \in Int /\ z = a * y
  BY <1>2, <1>3, IntegerPowers
<1>6. Divisible(z - 1)
  BY <1>3, FermatUnit
<1>7. x \in Int
  BY <1>4, FieldElements
<1> HIDE DEF x, y, z
<1>8. Divisible(Combine(a, x - y, 1, z - 1))
  BY <1>3, <1>4, <1>5, <1>6, <1>7, Combination
<1>9. Combine(a, x - y, 1, z - 1) = a * x - 1
  BY <1>3, <1>5, <1>7 DEF Combine
<1>10. Divisible(a * x - 1)
  BY <1>8, <1>9
<1>11. x # 0
  <2> SUFFICES ASSUME x = 0 PROVE FALSE
    OBVIOUS
  <2>1. a * x - 1 = 0 - 1
    BY <1>3
  <2>2. Divisible(1 - 0)
    BY <1>10, <2>1, OppositeDivisible
  <2>3. Divisible(1)
    BY <2>2
  <2> QED BY <2>3, DivisibleElement, FieldElements
<1> QED BY <1>1, <1>4, <1>10, <1>11

Half == (P - 1) \div 2

LEMMA HalfFacts ==
  /\ Half \in Nat /\ Half \in 0 .. P /\ Half + Half = P - 1 /\ Half >= 1
  /\ \E j \in Nat : Half = j + j
<1>1. PICK q \in Nat : P = 8 * q + 5
  BY PrimeFacts
<1>2. Half = 4 * q + 2
  BY <1>1 DEF Half
<1>3. 2 * q + 1 \in Nat /\ Half = (2 * q + 1) + (2 * q + 1)
  BY <1>2
<1> QED BY <1>1, <1>2, <1>3

\* Euler's criterion: chi() is the power that it is computed by, 1, 0 or -1.
LEMMA ChiIsPower ==
  ASSUME NEW a \in Field
  PROVE  /\ Chi[a] \in {0, 1, 0 - 1}
         /\ Chi[a] = 0 <=> a = 0
         /\ Divisible(IntegerPower(a)[Half] - Chi[a])
<1> DEFINE x == Power[Half][a]
           y == IntegerPower(a)[Half]
<1>1. Chi[a] = IF a = 0 THEN 0 ELSE IF x = 1 THEN 1 ELSE 0 - 1
  <2> DEFINE f == [b \in Field |-> IF b = 0 THEN 0 ELSE IF Power[Half][b] = 1 THEN 1 ELSE -1]
  <2>1. Chi = Tabulated(f)
    BY DEF Chi, Half
  <2>2. f[a] = IF a = 0 THEN 0 ELSE IF x = 1 THEN 1 ELSE 0 - 1
    OBVIOUS
  <2> HIDE DEF f, x
  <2> QED BY <2>1, <2>2, TabulatedIsFunction
<1>2. a \in Nat /\ a \in Int
  BY FieldElements
<1>3. x \in Field /\ Divisible(x - y)
  BY HalfFacts, PowerModulo
<1>4. x \in Int /\ y \in Int
  BY <1>2, <1>3, HalfFacts, FieldElements, IntegerPowerType
<1>5. CASE a = 0
  <2>1. Half - 1 \in Nat /\ (Half - 1) + 1 = Half
    BY HalfFacts
  <2>2. IntegerPower(a)[(Half - 1) + 1] = a * IntegerPower(a)[Half - 1]
        /\ IntegerPower(a)[Half - 1] \in Int
    BY <1>2, <2>1, IntegerPowers
  <2>3. y - 0 = 0 * P
    BY <1>4, <1>5, <2>1, <2>2, PrimeFacts
  <2>4. Divisible(y - 0)
    BY <2>3 DEF Divisible
  <2> QED BY <1>1, <1>5, <2>4
<1>6. CASE a # 0
  <2>1. IntegerPower(a)[Half + Half] = y * y
    BY <1>2, HalfFacts, IntegerPowerAdds
  <2>2. Divisible(y * y - 1)
    BY <1>2, <1>6, <2>1, NonzeroElement, FermatUnit, HalfFacts
  <2> HIDE DEF x, y
  <2>3. y * y - 1 = (y - 1) * (y + 1)
    BY <1>4
  <2>4. Divisible(y - 1) \/ Divisible(y + 1)
    BY <1>4, <2>2, <2>3, PrimeDividesFactor
  <2>5. CASE x = 1
    <3>1. Divisible(y - 1)
      BY <1>3, <1>4, <2>5, OppositeDivisible
    <3> QED BY <1>1, <1>6, <2>5, <3>1 DEF y
  <2>6. CASE x # 1
    <3>1. ~ Divisible(y - 1)
      <4> SUFFICES ASSUME Divisible(y - 1) PROVE FALSE
        OBVIOUS
      <4>1. Divisible(Combine(1, x - y, 1, y - 1))
        BY <1>3, <1>4, Combination
      <4>2. Combine(1, x - y, 1, y - 1) = x - 1
        BY <1>4 DEF Combine
      <4> QED BY <1>3, <2>6, <4>1, <4>2, SameElement, FieldElements
    <3>2. Divisible(y - (0 - 1))
      <4>1. y - (0 - 1) = y + 1
        BY <1>4
      <4> QED BY <2>4, <3>1, <4>1
    <3> QED BY <1>1, <1>6, <2>6, <3>2 DEF y
  <2> QED BY <2>5, <2>6
<1> QED BY <1>5, <1>6

LEMMA SmallDifference ==
  ASSUME NEW c \in {0, 1, 0 - 1}, NEW d \in {0, 1, 0 - 1}, Divisible(c - d)
  PROVE  c = d
<1> SUFFICES ASSUME c # d PROVE FALSE
  OBVIOUS
<1>1. c \in Int /\ d \in Int
  OBVIOUS
<1>2. Divisible(d - c)
  BY <1>1, OppositeDivisible
<1>3. c - d \in {1, 2} \/ d - c \in {1, 2}
  OBVIOUS
<1>4. ~ Divisible(1) /\ ~ Divisible(2)
  BY DivisibleElement, FieldElements
<1> QED BY <1>2, <1>3, <1>4

-------------------------------------------------------------------------------
(***************************************************************************)
(* Equality modulo P, and what the operations do to it.                    *)
(***************************************************************************)
Same(x, y) == Divisible(x - y)

LEMMA SameReflexive ==
  ASSUME NEW x \in Int
  PROVE  Same(x, x)
<1>1. x - x = 0 * P
  BY PrimeFacts
<1> QED BY <1>1 DEF Same, Divisible

LEMMA SameSymmetric ==
  ASSUME NEW x \in Int, NEW y \in Int, Same(x, y)
  PROVE  Same(y, x)
BY OppositeDivisible DEF Same

LEMMA SameTransitive ==
  ASSUME NEW x \in Int, NEW y \in Int, NEW z \in Int, Same(x, y), Same(y, z)
  PROVE  Same(x, z)
<1>1. Divisible(Combine(1, x - y, 1, y - z))
  BY Combination DEF Same
<1>2. Combine(1, x - y, 1, y - z) = x - z
  BY DEF Combine
<1> QED BY <1>1, <1>2 DEF Same

LEMMA MulSame ==
  ASSUME NEW a \in Int, NEW b \in Int, NEW x \in Int, NEW y \in Int, Same(a, x), Same(b, y)
  PROVE  Mul(a, b) \in Field /\ Mul(a, b) \in Int /\ Same(Mul(a, b), x * y)
<1> DEFINE m == Mul(a, b)
<1>1. m \in Field /\ m \in Int /\ Divisible(m - a * b)
  BY MulModulo, FieldElements
<1> HIDE DEF m
<1>2. Divisible(Combine(b, a - x, x, b - y))
  BY Combination DEF Same
<1>3. Combine(b, a - x, x, b - y) = a * b - x * y /\ a * b \in Int /\ x * y \in Int
  BY DEF Combine
<1>4. Divisible(Combine(1, m - a * b, 1, a * b - x * y))
  BY <1>1, <1>2, <1>3, Combination
<1>5. Combine(1, m - a * b, 1, a * b - x * y) = m - x * y
  BY <1>1, <1>3 DEF Combine
<1> QED BY <1>1, <1>4, <1>5 DEF Same, m

LEMMA AddSame ==
  ASSUME NEW a \in Int, NEW b \in Int, NEW x \in Int, NEW y \in Int, Same(a, x), Same(b, y)
  PROVE  Add(a, b) \in Field /\ Add(a, b) \in Int /\ Same(Add(a, b), x + y)
<1> DEFINE m == Add(a, b)
<1>1. m \in Field /\ m \in Int /\ Divisible(m - (a + b))
  BY AddModulo, FieldElements
<1> HIDE DEF m
<1>2. Divisible(Combine(1, a - x, 1, b - y))
  BY Combination DEF Same
<1>3. Combine(1, a - x, 1, b - y) = (a + b) - (x + y)
  BY DEF Combine
<1>4. Divisible(Combine(1, m - (a + b), 1, (a + b) - (x + y)))
  BY <1>1, <1>2, <1>3, Combination
<1>5. Combine(1, m - (a + b), 1, (a + b) - (x + y)) = m - (x + y)
  BY <1>1 DEF Combine
<1> QED BY <1>1, <1>4, <1>5 DEF Same, m

LEMMA SubSame ==
  ASSUME NEW a \in Int, NEW b \in Int, NEW x \in Int, NEW y \in Int, Same(a, x), Same(b, y)
  PROVE  Sub(a, b) \in Field /\ Sub(a, b) \in Int /\ Same(Sub(a, b), x - y)
<1> DEFINE m == Sub(a, b)
<1>1. m \in Field /\ m \in Int /\ Divisible(m - (a - b))
  BY SubModulo, FieldElements
<1> HIDE DEF m
<1>2. Divisible(Combine(1, a - x, 0 - 1, b - y))
  BY Combination DEF Same
<1>3. Combine(1, a - x, 0 - 1, b - y) = (a - b) - (x - y)
  BY DEF Combine
<1>4. Divisible(Combine(1, m - (a - b), 1, (a - b) - (x - y)))
  BY <1>1, <1>2, <1>3, Combination
<1>5. Combine(1, m - (a - b), 1, (a - b) - (x - y)) = m - (x - y)
  BY <1>1 DEF Combine
<1> QED BY <1>1, <1>4, <1>5 DEF Same, m

LEMMA NegSame ==
  ASSUME NEW a \in Int, NEW x \in Int, Same(a, x)
  PROVE  Neg(a) \in Field /\ Neg(a) \in Int /\ Same(Neg(a), 0 - x)
<1> DEFINE m == Neg(a)
<1>1. m \in Field /\ m \in Int /\ Divisible(m + a)
  BY NegModulo, FieldElements
<1> HIDE DEF m
<1>2. Divisible(Combine(1, m + a, 0 - 1, a - x))
  BY <1>1, Combination DEF Same
<1>3. Combine(1, m + a, 0 - 1, a - x) = m - (0 - x)
  BY <1>1 DEF Combine
<1> QED BY <1>1, <1>2, <1>3 DEF Same, m

LEMMA SameElements ==
  ASSUME NEW a \in Field, NEW b \in Field, Same(a, b)
  PROVE  a = b
BY SameElement DEF Same

-------------------------------------------------------------------------------
(***************************************************************************)
(* The quadratic character, of any integer.                                *)
(***************************************************************************)
Character(x) == Chi[x % P]

LEMMA CharacterIsPower ==
  ASSUME NEW x \in Int
  PROVE  /\ Character(x) \in {0, 1, 0 - 1}
         /\ Character(x) = 0 <=> Divisible(x)
         /\ Divisible(IntegerPower(x)[Half] - Character(x))
<1> DEFINE r == x % P
           c == Chi[r]
           y == IntegerPower(r)[Half]
           z == IntegerPower(x)[Half]
<1>1. r \in Field /\ Divisible(r - x) /\ Divisible(x - r) /\ r \in Int
  BY RemainderDivisible, Remainder, FieldElements
<1> HIDE DEF r
<1>2. c \in {0, 1, 0 - 1} /\ (c = 0 <=> r = 0) /\ Divisible(y - c)
  BY <1>1, ChiIsPower
<1>3. c \in Int /\ y \in Int /\ z \in Int
  BY <1>1, <1>2, IntegerPowerType, HalfFacts
<1>4. Divisible(z - y)
  BY <1>1, IntegerPowerModulo, HalfFacts
<1> HIDE DEF c, y, z
<1>5. Divisible(Combine(1, z - y, 1, y - c))
  BY <1>2, <1>3, <1>4, Combination
<1>6. Combine(1, z - y, 1, y - c) = z - c
  BY <1>3 DEF Combine
<1>7. r = 0 <=> Divisible(x)
  <2>1. ASSUME r = 0 PROVE Divisible(x)
    <3>1. x - r = x
      BY <2>1
    <3> QED BY <1>1, <3>1
  <2>2. ASSUME Divisible(x) PROVE r = 0
    <3>1. Divisible(Combine(1, r - x, 1, x))
      BY <1>1, <2>2, Combination
    <3>2. Combine(1, r - x, 1, x) = r
      BY <1>1 DEF Combine
    <3> QED BY <1>1, <3>1, <3>2, DivisibleElement
  <2> QED BY <2>1, <2>2
<1> QED BY <1>2, <1>5, <1>6, <1>7 DEF Character, c, r, z

LEMMA CharacterOfElement ==
  \A a \in Field : Character(a) = Chi[a]
BY ElementRemainder DEF Character

LEMMA CharacterModulo ==
  ASSUME NEW x \in Int, NEW y \in Int, Same(x, y)
  PROVE  Character(x) = Character(y)
BY EqualRemainders DEF Character, Same

LEMMA CharacterOfProduct ==
  ASSUME NEW x \in Int, NEW y \in Int
  PROVE  Character(x * y) = Character(x) * Character(y)
<1> DEFINE p == x * y
           a == Character(x)
           b == Character(y)
           c == Character(p)
           f == IntegerPower(x)[Half]
           g == IntegerPower(y)[Half]
           h == IntegerPower(p)[Half]
<1>1. p \in Int
  OBVIOUS
<1>2. h = f * g
  BY IntegerPowerOfProduct, HalfFacts
<1> HIDE DEF p
<1>3. /\ a \in {0, 1, 0 - 1} /\ Divisible(f - a)
      /\ b \in {0, 1, 0 - 1} /\ Divisible(g - b)
      /\ c \in {0, 1, 0 - 1} /\ Divisible(h - c)
  BY <1>1, CharacterIsPower
<1>4. f \in Int /\ g \in Int /\ h \in Int /\ a \in Int /\ b \in Int /\ c \in Int
  BY <1>1, <1>3, IntegerPowerType, HalfFacts
<1> HIDE DEF a, b, c, f, g, h
<1>5. Divisible(Combine(g, f - a, a, g - b))
  BY <1>3, <1>4, Combination
<1>6. Combine(g, f - a, a, g - b) = h - a * b /\ a * b \in Int
  <2>1. Combine(g, f - a, a, g - b) = f * g - a * b
    BY <1>4 DEF Combine
  <2> QED BY <1>2, <1>4, <2>1
<1>7. Divisible(Combine(1, h - a * b, 0 - 1, h - c))
  BY <1>3, <1>4, <1>5, <1>6, Combination
<1>8. Combine(1, h - a * b, 0 - 1, h - c) = c - a * b
  BY <1>4, <1>6 DEF Combine
<1>9. a * b \in {0, 1, 0 - 1}
  BY <1>3
<1>10. c = a * b
  BY <1>3, <1>7, <1>8, <1>9, SmallDifference
<1> QED BY <1>10 DEF a, b, c, p

LEMMA CharacterOfSquare ==
  ASSUME NEW x \in Int, ~ Divisible(x)
  PROVE  Character(x * x) = 1
<1>1. Character(x) \in {1, 0 - 1}
  BY CharacterIsPower
<1>2. Character(x * x) = Character(x) * Character(x)
  BY CharacterOfProduct
<1> QED BY <1>1, <1>2

LEMMA PowersOfOne ==
  \A n \in Nat : IntegerPower(1)[n] = 1
<1> DEFINE T == {n \in Nat : IntegerPower(1)[n] = 1}
<1>1. 0 \in T
  BY IntegerPowers
<1>2. ASSUME NEW n \in T \cap Nat PROVE n + 1 \in T
  <2>1. IntegerPower(1)[n + 1] = 1 * IntegerPower(1)[n]
    BY IntegerPowers
  <2> QED BY <2>1
<1> HIDE DEF T
<1>3. Nat \subseteq T
  BY <1>1, <1>2, SetInduction
<1> QED BY <1>3 DEF T

LEMMA CharacterOfMinusOne == Character(0 - 1) = 1
<1> PICK j \in Nat : Half = j + j
  BY HalfFacts
<1> DEFINE m == 0 - 1
           x == IntegerPower(m)[j]
           c == Character(m)
<1>1. m \in Int /\ m * m = 1
  OBVIOUS
<1>2. IntegerPower(m)[j + j] = x * x
  BY <1>1, IntegerPowerAdds
<1>3. IntegerPower(m * m)[j] = x * x
  BY <1>1, IntegerPowerOfProduct
<1>4. IntegerPower(m)[Half] = 1
  BY <1>1, <1>2, <1>3, PowersOfOne
<1>5. c \in {0, 1, 0 - 1} /\ Divisible(1 - c)
  BY <1>1, <1>4, CharacterIsPower
<1>6. 1 \in {0, 1, 0 - 1}
  OBVIOUS
<1> HIDE DEF c
<1>7. 1 = c
  BY <1>5, <1>6, SmallDifference
<1> QED BY <1>7 DEF c

LEMMA CharacterOfTwo == Character(2) = 0 - 1
<1>1. Chi[2] = 0 - 1
  BY FieldAssumption DEF U
<1> QED BY <1>1, CharacterOfElement, FieldElements

\* sqrt() for P % 8 = 5: a candidate from one exponentiation, and the factor
\* i - 1 with i a root of -1.
LEMMA SquareRootSquared ==
  ASSUME NEW a \in Field, Chi[a] = 1
  PROVE  SquareRoot(a) \in Field /\ Same(SquareRoot(a) * SquareRoot(a), a)
<1> DEFINE e == (P - 5) \div 8
           b == Mul(2, a)
           v == Power[e][b]
           i == Mul(b, Sqr(v))
           root == Mul(Mul(a, v), Sub(i, 1))
           c == 2 * a
           w == IntegerPower(c)[e]
           j == c * (w * w)
           r == (a * w) * (j - 1)
<1>1. a \in Int /\ c \in Int
  BY FieldElements
<1>2. e \in Nat /\ e \in 0 .. P /\ ((e + e) + 1) + ((e + e) + 1) = Half
  <2>1. PICK q \in Nat : P = 8 * q + 5
    BY PrimeFacts
  <2>2. e = q /\ Half = 4 * q + 2
    BY <2>1 DEF Half
  <2> QED BY <2>1, <2>2
<1>3. w \in Int /\ j \in Int /\ r \in Int
  <2>1. w \in Int
    BY <1>1, <1>2, IntegerPowerType
  <2> HIDE DEF w, c
  <2>2. j \in Int
    BY <1>1, <2>1
  <2> HIDE DEF j
  <2> QED BY <1>1, <2>1, <2>2
<1>4. Same(j * j, 0 - 1)
  <2> DEFINE d == (e + e) + 1
             h == IntegerPower(c)[Half]
  <2>1. e + e \in Nat /\ d \in Nat
    BY <1>2
  <2>2. IntegerPower(c)[e + e] = w * w
    BY <1>1, <1>2, IntegerPowerAdds
  <2>3. IntegerPower(c)[(e + e) + 1] = c * IntegerPower(c)[e + e]
    <3> HIDE DEF c
    <3> QED BY <1>1, <2>1, IntegerPowers
  <2>4. IntegerPower(c)[d] = j
    BY <2>2, <2>3
  <2>5. IntegerPower(c)[d + d] = IntegerPower(c)[d] * IntegerPower(c)[d]
    <3> HIDE DEF c, d
    <3> QED BY <1>1, <2>1, IntegerPowerAdds
  <2>6. h = j * j
    <3> HIDE DEF j
    <3> QED BY <1>2, <2>4, <2>5
  <2>7. Character(c) = 0 - 1
    <3>1. Character(2 * a) = Character(2) * Character(a)
      BY <1>1, CharacterOfProduct
    <3>2. Character(a) = 1
      BY CharacterOfElement
    <3> QED BY <3>1, <3>2, CharacterOfTwo
  <2>8. Divisible(h - (0 - 1))
    <3> HIDE DEF c
    <3> QED BY <1>1, <2>7, CharacterIsPower
  <2> HIDE DEF h, j
  <2> QED BY <2>6, <2>8 DEF Same
<1>5. Same(r * r, a)
  <2> HIDE DEF w
  <2> DEFINE x == j * j - (0 - 1)
  <2>1. Divisible(x)
    BY <1>4 DEF Same
  <2>2. r * r - a = Combine(a * a * (w * w) - a, x, 0, x)
    <3>1. \A s, t \in Int :
            LET k == (2 * s) * (t * t)
                y == (s * t) * (k - 1)
            IN  y * y - s = Combine(s * s * (t * t) - s, k * k - (0 - 1), 0, k * k - (0 - 1))
      BY DEF Combine
    <3> QED BY <1>1, <1>3, <3>1
  <2>3. x \in Int /\ a * a * (w * w) - a \in Int
    <3> HIDE DEF j
    <3> QED BY <1>1, <1>3
  <2> HIDE DEF x, r
  <2>4. Divisible(Combine(a * a * (w * w) - a, x, 0, x))
    BY <2>1, <2>3, Combination
  <2> QED BY <2>2, <2>4 DEF Same
<1>6. b \in Field /\ b \in Int /\ Same(b, c)
  BY <1>1, MulModulo, FieldElements DEF Same
<1>7. v \in Field /\ v \in Int /\ Same(v, w)
  <2> DEFINE u == IntegerPower(b)[e]
  <2>1. v \in Field /\ Same(v, u)
    BY <1>2, <1>6, PowerModulo DEF Same
  <2>2. Same(u, w)
    <3> HIDE DEF b, c
    <3> QED BY <1>1, <1>2, <1>6, IntegerPowerModulo DEF Same
  <2>3. u \in Int /\ v \in Int
    BY <1>2, <1>6, <2>1, IntegerPowerType, FieldElements
  <2> HIDE DEF u, v, w
  <2> QED BY <1>3, <2>1, <2>2, <2>3, SameTransitive
<1>8. root \in Field /\ root \in Int /\ Same(root, r)
  <2> HIDE DEF b, c, v, w
  <2>1. Sqr(v) \in Int /\ Same(Sqr(v), w * w) /\ w * w \in Int
    BY <1>3, <1>7, MulSame DEF Sqr
  <2>2. i \in Int /\ Same(i, c * (w * w))
    BY <1>1, <1>6, <2>1, MulSame
  <2>3. Mul(a, v) \in Int /\ Same(Mul(a, v), a * w) /\ a * w \in Int
    BY <1>1, <1>3, <1>7, MulSame, SameReflexive
  <2>4. Sub(i, 1) \in Int /\ Same(Sub(i, 1), j - 1)
    <3> HIDE DEF i
    <3>1. Same(i, j)
      BY <2>2
    <3> HIDE DEF j
    <3> QED BY <1>3, <2>2, <3>1, SubSame, SameReflexive
  <2> HIDE DEF i, j
  <2>5. j - 1 \in Int
    BY <1>3
  <2> QED BY <2>3, <2>4, <2>5, MulSame
<1>9. SquareRoot(a) = IF root % 2 = 1 THEN P - root ELSE root
  BY DEF SquareRoot
<1> HIDE DEF root, r
<1>10. Same(root * root, a)
  <2>1. Divisible(Combine(root, root - r, r, root - r))
    BY <1>3, <1>8, Combination DEF Same
  <2>2. Combine(root, root - r, r, root - r) = root * root - r * r
    BY <1>3, <1>8 DEF Combine
  <2>3. Same(root * root, r * r)
    BY <2>1, <2>2 DEF Same
  <2>4. root * root \in Int /\ r * r \in Int
    BY <1>3, <1>8
  <2> QED BY <1>1, <1>5, <2>3, <2>4, SameTransitive
<1>11. CASE root % 2 = 1
  <2>1. P - root \in Field
    <3>1. root # 0
      BY <1>11
    <3> QED BY <1>8, <3>1, PrimeFacts DEF Field
  <2>2. Divisible(P)
    <3> SUFFICES \E k \in Int : P = k * P
      BY DEF Divisible
    <3> WITNESS 1 \in Int
    <3> QED BY PrimeFacts
  <2>3. Divisible(Combine(P - 2 * root, P, 1, root * root - a))
    <3>1. P - 2 * root \in Int /\ root * root - a \in Int
      BY <1>1, <1>8, PrimeFacts
    <3> QED BY <1>10, <2>2, <3>1, Combination, PrimeFacts DEF Same
  <2>4. Combine(P - 2 * root, P, 1, root * root - a) = (P - root) * (P - root) - a
    BY <1>1, <1>8, PrimeFacts DEF Combine
  <2> QED BY <1>9, <1>11, <2>1, <2>3, <2>4 DEF Same
<1>12. CASE root % 2 # 1
  BY <1>8, <1>9, <1>10, <1>12
<1> QED BY <1>11, <1>12

\* Sqrt is defined on the squares.
LEMMA SqrtSquared ==
  ASSUME NEW a \in Field
  PROVE  /\ Sqrt[a] = None <=> Chi[a] = 0 - 1
         /\ Sqrt[a] # None => Sqrt[a] \in Field /\ Same(Sqrt[a] * Sqrt[a], a)
<1> DEFINE f == [b \in Field |->
                  IF b = 0 THEN 0 ELSE IF Chi[b] # 1 THEN None ELSE SquareRoot(b)]
<1>1. Sqrt[a] = IF a = 0 THEN 0 ELSE IF Chi[a] # 1 THEN None ELSE SquareRoot(a)
  <2>1. Sqrt = f
    BY TabulatedIsFunction DEF Sqrt
  <2> QED BY <2>1
<1>2. Chi[a] \in {0, 1, 0 - 1} /\ (Chi[a] = 0 <=> a = 0)
  BY ChiIsPower
<1>3. CASE a = 0
  <2>1. Sqrt[a] = 0 /\ 0 * 0 = a /\ 0 \in Field
    BY <1>1, <1>3, FieldElements
  <2> QED BY <1>2, <1>3, <2>1, SameReflexive DEF None
<1>4. CASE a # 0 /\ Chi[a] # 1
  BY <1>1, <1>2, <1>4
<1>5. CASE a # 0 /\ Chi[a] = 1
  <2>1. Sqrt[a] = SquareRoot(a) /\ SquareRoot(a) \in Field
    BY <1>1, <1>5, SquareRootSquared
  <2>2. None \notin Field
    BY FieldElements DEF None
  <2> QED BY <1>5, <2>1, <2>2, SquareRootSquared
<1> QED BY <1>3, <1>4, <1>5

-------------------------------------------------------------------------------
(***************************************************************************)
(* The line: lambda + 1 is not zero, as 2 would be a square.               *)
(***************************************************************************)
LEMMA LineFacts ==
  /\ A2 \in Int /\ B2 \in Int /\ ~ Divisible(A2) /\ ~ Divisible(B2)
  /\ Lambda \in Field /\ Lambda \in Int /\ ~ Divisible(Lambda) /\ Character(Lambda) = 1
  /\ LambdaPlusOne \in Field /\ LambdaPlusOne \in Int
  /\ Same(LambdaPlusOne, Lambda + 1) /\ ~ Divisible(LambdaPlusOne)
<1> DEFINE d == Sub(Sqr(A2), Sqr(B2))
           i == Inv[d]
           aa == A2 * A2
           bb == B2 * B2
<1>1. A2 \in Field \ {0} /\ B2 \in Field \ {0}
  BY FieldAssumption
<1>2. A2 \in Int /\ B2 \in Int /\ ~ Divisible(A2) /\ ~ Divisible(B2)
  BY <1>1, NonzeroElement
<1>3. aa \in Int /\ bb \in Int
  BY <1>2
<1>4. /\ Sqr(A2) \in Field /\ Sqr(A2) \in Int /\ Same(Sqr(A2), aa)
      /\ Sqr(B2) \in Field /\ Sqr(B2) \in Int /\ Same(Sqr(B2), bb)
  BY <1>2, MulSame, SameReflexive DEF Sqr
<1> HIDE DEF aa, bb
<1>5. d \in Field /\ d \in Int /\ Same(d, aa - bb)
  BY <1>3, <1>4, SubSame
<1>6. d # 0
  <2>1. Same(d, Sqr(A2) - Sqr(B2))
    BY <1>4, SubSame, SameReflexive
  <2> SUFFICES ASSUME d = 0 PROVE FALSE
    OBVIOUS
  <2>2. Divisible(0 - (Sqr(A2) - Sqr(B2)))
    BY <2>1 DEF Same
  <2>3. 0 - (Sqr(A2) - Sqr(B2)) = Sqr(B2) - Sqr(A2)
    BY <1>4
  <2>4. Sqr(B2) = Sqr(A2)
    BY <1>4, <2>2, <2>3, SameElement
  <2> QED BY <2>4, FieldAssumption
<1>7. i \in Field /\ i \in Int /\ Divisible(d * i - 1)
  BY <1>5, <1>6, InvIsInverse, FieldElements
<1>8. Lambda = Mul(Sqr(A2), i)
  BY DEF Lambda
<1> HIDE DEF d, i
<1>9. Lambda \in Field /\ Lambda \in Int /\ Same(Lambda, aa * i)
  BY <1>3, <1>4, <1>7, <1>8, MulSame, SameReflexive
<1>10. Character(Lambda) = 1
  BY <1>9, CharacterOfElement, FieldAssumption
<1>11. ~ Divisible(Lambda)
  BY <1>9, <1>10, CharacterIsPower
<1>12. /\ LambdaPlusOne \in Field /\ LambdaPlusOne \in Int
       /\ Same(LambdaPlusOne, Lambda + 1)
  <2>1. Same(Lambda, Lambda) /\ Same(1, 1)
    BY <1>9, SameReflexive
  <2>2. LambdaPlusOne = Add(Lambda, 1)
    BY DEF LambdaPlusOne
  <2> QED BY <1>9, <2>1, <2>2, AddSame
<1>13. ~ Divisible(LambdaPlusOne)
  <2> SUFFICES ASSUME Divisible(LambdaPlusOne) PROVE FALSE
    OBVIOUS
  <2> DEFINE x == LambdaPlusOne
             y == Lambda
             e == d - (aa - bb)
             f == d * i - 1
             g == y - aa * i
             h == x - (y + 1)
  <2>1. Divisible(e) /\ Divisible(f) /\ Divisible(g) /\ Divisible(h) /\ Divisible(x)
    BY <1>5, <1>7, <1>9, <1>12 DEF Same
  <2>2. x \in Int /\ y \in Int
    BY <1>9, <1>12
  <2>3. e \in Int /\ f \in Int /\ g \in Int /\ h \in Int
    <3> HIDE DEF x, y
    <3> QED BY <1>3, <1>5, <1>7, <2>2
  \* y = -1, d * y = aa and d = aa - bb modulo P: twice aa is bb.
  <2> DEFINE m == Combine(d, g, aa, f)
             n == Combine(d, x, 0 - d, h)
             o == Combine(1, n, 0 - 1, m)
             q == Combine(1, o, 0 - 1, e)
  <2>4. m = d * y - aa
    <3> HIDE DEF x, y
    <3> QED BY <1>3, <1>5, <1>7, <2>2 DEF Combine
  <2>5. n = d * y + d
    <3> HIDE DEF x, y
    <3> QED BY <1>3, <1>5, <1>7, <2>2 DEF Combine
  <2>6. o = d + aa /\ q = 2 * aa - bb
    <3> HIDE DEF x, y, m, n
    <3>1. o = d + aa
      BY <1>3, <1>5, <2>2, <2>4, <2>5 DEF Combine
    <3> HIDE DEF o
    <3> QED BY <1>3, <1>5, <3>1 DEF Combine
  <2>7. m \in Int /\ n \in Int /\ o \in Int
    <3> HIDE DEF m, n, o, x, y
    <3> QED BY <1>3, <1>5, <2>2, <2>4, <2>5, <2>6
  <2>8. Divisible(m) /\ Divisible(n) /\ Divisible(o) /\ Divisible(q)
    <3> HIDE DEF e, f, g, h, x, y
    <3>1. Divisible(m) /\ Divisible(n)
      BY <1>3, <1>5, <2>1, <2>2, <2>3, Combination
    <3> HIDE DEF m, n
    <3>2. Divisible(o)
      BY <2>7, <3>1, Combination
    <3> HIDE DEF o
    <3> QED BY <2>1, <2>3, <2>7, <3>1, <3>2, Combination
  <2>9. Character(2 * aa) = Character(bb)
    <3> HIDE DEF q
    <3> QED BY <1>3, <2>6, <2>8, CharacterModulo DEF Same
  <2>10. Character(aa) = 1 /\ Character(bb) = 1
    BY <1>2, CharacterOfSquare DEF aa, bb
  <2>11. Character(2 * aa) = Character(2) * Character(aa)
    BY <1>3, CharacterOfProduct
  <2> QED BY <2>9, <2>10, <2>11, CharacterOfTwo
<1> QED BY <1>2, <1>9, <1>10, <1>11, <1>12, <1>13

-------------------------------------------------------------------------------
(***************************************************************************)
(* The map: v and lambda + 1 - v, one of which is the image of t.          *)
(***************************************************************************)
FirstRoot(t) == Mul(LambdaPlusOne, Inv[Add(1, Mul(U, Sqr(t)))])

LEMMA Denominator ==
  ASSUME NEW t \in Int, ~ Divisible(t)
  PROVE  ~ Divisible(1 + 2 * (t * t))
<1> SUFFICES ASSUME Divisible(1 + 2 * (t * t)) PROVE FALSE
  OBVIOUS
<1> DEFINE s == t * t
<1>1. s \in Int /\ Character(s) = 1
  BY CharacterOfSquare
<1> HIDE DEF s
<1>2. Divisible(2 * s - (0 - 1))
  <2>1. 2 * s - (0 - 1) = 1 + 2 * s
    BY <1>1
  <2> QED BY <2>1 DEF s
<1>3. Character(2 * s) = Character(0 - 1)
  BY <1>1, <1>2, CharacterModulo DEF Same
<1>4. Character(2 * s) = Character(2) * Character(s)
  BY <1>1, CharacterOfProduct
<1> QED BY <1>1, <1>3, <1>4, CharacterOfTwo, CharacterOfMinusOne

LEMMA FirstRootFacts ==
  ASSUME NEW t \in Field \ {0}
  PROVE  LET v == FirstRoot(t)
         IN  /\ v \in Field /\ v \in Int /\ ~ Divisible(v)
             /\ Same(v * (1 + 2 * (t * t)), LambdaPlusOne)
<1> DEFINE d == Add(1, Mul(U, Sqr(t)))
           i == Inv[d]
           s == LambdaPlusOne
           v == Mul(s, i)
           e == 1 + 2 * (t * t)
<1>1. t \in Int /\ ~ Divisible(t)
  BY NonzeroElement
<1>2. t * t \in Int /\ 2 * (t * t) \in Int /\ e \in Int
  BY <1>1
<1>3. Sqr(t) \in Int /\ Same(Sqr(t), t * t)
  BY <1>1, MulSame, SameReflexive DEF Sqr
<1>4. Mul(U, Sqr(t)) \in Int /\ Same(Mul(U, Sqr(t)), 2 * (t * t))
  BY <1>2, <1>3, MulSame, SameReflexive DEF U
<1>5. d \in Field /\ d \in Int /\ Same(d, e)
  BY <1>2, <1>4, AddSame, SameReflexive
<1>6. ~ Divisible(e)
  BY <1>1, Denominator
<1>7. s \in Field /\ s \in Int /\ ~ Divisible(s)
  BY LineFacts
<1> HIDE DEF d, e, s
<1>8. d # 0
  <2> SUFFICES ASSUME d = 0 PROVE FALSE
    OBVIOUS
  <2>1. Divisible(e - 0)
    BY <1>2, <1>5, OppositeDivisible DEF Same
  <2> QED BY <1>2, <1>6, <2>1
<1>9. i \in Field /\ i \in Int /\ Divisible(d * i - 1)
  BY <1>5, <1>8, InvIsInverse, FieldElements
<1> HIDE DEF i
<1>10. v \in Field /\ v \in Int /\ Same(v, s * i)
  BY <1>7, <1>9, MulSame, SameReflexive
<1> HIDE DEF v
<1>11. Same(v * e, s)
  <2> DEFINE x == v - s * i
             y == d - e
             z == d * i - 1
             m == Combine(e, x, 0 - s * i, y)
  <2>1. x \in Int /\ y \in Int /\ z \in Int
    BY <1>2, <1>5, <1>7, <1>9, <1>10
  <2>2. m = v * e - s * i * d
    BY <1>2, <1>5, <1>7, <1>9, <1>10 DEF Combine
  <2>3. 0 - s * i \in Int /\ m \in Int
    BY <1>2, <1>5, <1>7, <1>9, <1>10, <2>2
  <2>4. Combine(1, m, s, z) = v * e - s
    <3> HIDE DEF m
    <3> QED BY <1>2, <1>5, <1>7, <1>9, <1>10, <2>2 DEF Combine
  <2>5. Divisible(x) /\ Divisible(y) /\ Divisible(z)
    BY <1>5, <1>9, <1>10 DEF Same
  <2> HIDE DEF x, y, z
  <2>6. Divisible(m)
    BY <1>2, <2>1, <2>3, <2>5, Combination
  <2> HIDE DEF m
  <2>7. Divisible(Combine(1, m, s, z))
    BY <1>7, <2>1, <2>3, <2>5, <2>6, Combination
  <2> QED BY <2>4, <2>7 DEF Same
<1>12. ~ Divisible(v)
  <2> SUFFICES ASSUME Divisible(v) PROVE FALSE
    OBVIOUS
  <2>1. v * e \in Int
    BY <1>2, <1>10
  <2>2. Divisible(Combine(e, v, 0 - 1, v * e - s))
    BY <1>2, <1>7, <1>10, <1>11, <2>1, Combination DEF Same
  <2>3. Combine(e, v, 0 - 1, v * e - s) = s
    BY <1>2, <1>7, <1>10 DEF Combine
  <2> QED BY <1>7, <2>2, <2>3
<1> QED BY <1>10, <1>11, <1>12 DEF FirstRoot, d, e, i, s, v

LEMMA OtherRootFacts ==
  ASSUME NEW t \in Field \ {0}
  PROVE  LET v == FirstRoot(t)
             w == OtherRoot(v)
         IN  /\ w \in Field /\ w \in Int /\ ~ Divisible(w)
             /\ Same(v + w, LambdaPlusOne)
             /\ Same(w, 2 * (v * (t * t)))
             /\ Character(w) = 0 - Character(v)
             /\ Character(v * w) = 0 - 1
<1> DEFINE v == FirstRoot(t)
           w == OtherRoot(v)
           s == LambdaPlusOne
           e == 1 + 2 * (t * t)
           z == 2 * (v * (t * t))
<1>1. t \in Int /\ ~ Divisible(t)
  BY NonzeroElement
<1>2. v \in Field /\ v \in Int /\ ~ Divisible(v) /\ Same(v * e, s)
  BY FirstRootFacts
<1>3. s \in Int
  BY LineFacts
<1>4. w \in Field /\ w \in Int /\ Same(w, s - v)
  <2> HIDE DEF v, s
  <2> QED BY <1>2, <1>3, SubSame, SameReflexive DEF OtherRoot, s
<1> HIDE DEF v, w, s
<1>5. (v + w) - s = w - (s - v)
  BY <1>2, <1>3, <1>4
<1>6. Same(v + w, s)
  <2>1. Divisible(w - (s - v))
    BY <1>4 DEF Same
  <2>2. Divisible((v + w) - s)
    BY <1>5, <2>1
  <2> QED BY <2>2 DEF Same
<1>7. z \in Int /\ v * e \in Int
  BY <1>1, <1>2
<1>8. Combine(1, w - (s - v), 0 - 1, v * e - s) = w - z
  BY <1>1, <1>2, <1>3, <1>4 DEF Combine
<1>9. Same(w, z)
  <2>1. w - (s - v) \in Int /\ v * e - s \in Int
    BY <1>2, <1>3, <1>4, <1>7
  <2> HIDE DEF e, z
  <2>2. Divisible(Combine(1, w - (s - v), 0 - 1, v * e - s))
    BY <1>2, <1>4, <2>1, Combination DEF Same
  <2> QED BY <1>8, <2>2 DEF Same
<1>10. Character(z) = 0 - Character(v)
  <2> DEFINE q == t * t
             u == v * q
  <2>1. q \in Int /\ u \in Int /\ z = 2 * u
    BY <1>1, <1>2
  <2>2. Character(q) = 1
    BY <1>1, CharacterOfSquare
  <2>3. Character(u) = Character(v) * Character(q)
    <3> HIDE DEF q
    <3> QED BY <1>2, <2>1, CharacterOfProduct
  <2>4. Character(z) = Character(2) * Character(u)
    <3> HIDE DEF u, z
    <3> QED BY <2>1, CharacterOfProduct
  <2>5. Character(v) \in {0, 1, 0 - 1}
    BY <1>2, CharacterIsPower
  <2> QED BY <2>2, <2>3, <2>4, <2>5, CharacterOfTwo
<1>11. Character(w) = 0 - Character(v)
  <2> HIDE DEF z
  <2> QED BY <1>4, <1>7, <1>9, <1>10, CharacterModulo
<1>12. Character(v) \in {1, 0 - 1} /\ ~ Divisible(w)
  <2>1. Character(v) \in {1, 0 - 1}
    BY <1>2, CharacterIsPower
  <2>2. Character(w) # 0
    BY <1>11, <2>1
  <2> QED BY <1>4, <2>1, <2>2, CharacterIsPower
<1>13. Character(v * w) = 0 - 1
  <2>1. Character(v * w) = Character(v) * Character(w)
    BY <1>2, <1>4, CharacterOfProduct
  <2> QED BY <1>11, <1>12, <2>1
<1> QED BY <1>4, <1>6, <1>9, <1>11, <1>12, <1>13 DEF v, w, s, z

LEMMA CubicModulo ==
  ASSUME NEW x \in Field
  PROVE  /\ Cubic(x) \in Field /\ Cubic(x) \in Int
         /\ Same(Cubic(x), ((x - 1) * (x - Lambda)) * x)
<1> DEFINE l == Lambda
<1>1. x \in Int /\ l \in Int
  BY FieldElements, LineFacts
<1> HIDE DEF l
<1>2. Same(x, x) /\ Same(1, 1) /\ Same(l, l)
  BY <1>1, SameReflexive
<1>3. Sub(x, 1) \in Int /\ Same(Sub(x, 1), x - 1)
  BY <1>1, <1>2, SubSame
<1>4. Sub(x, l) \in Int /\ Same(Sub(x, l), x - l)
  BY <1>1, <1>2, SubSame
<1>5. x - 1 \in Int /\ x - l \in Int
  BY <1>1
<1>6. /\ Mul(Sub(x, 1), Sub(x, l)) \in Int
      /\ Same(Mul(Sub(x, 1), Sub(x, l)), (x - 1) * (x - l))
  BY <1>3, <1>4, <1>5, MulSame
<1>7. (x - 1) * (x - l) \in Int
  BY <1>5
<1>8. LET m == Mul(Mul(Sub(x, 1), Sub(x, l)), x)
      IN  m \in Field /\ m \in Int /\ Same(m, ((x - 1) * (x - l)) * x)
  BY <1>1, <1>2, <1>6, <1>7, MulSame
<1> QED BY <1>8 DEF Cubic, l

\* Of the two candidates for the image one is on the curve: epsilon has
\* opposite signs for them, and is zero for neither.
LEMMA EpsilonOpposite ==
  ASSUME NEW t \in Field \ {0}
  PROVE  LET v == FirstRoot(t)
             w == OtherRoot(v)
         IN  Epsilon(v) \in {1, 0 - 1} /\ Epsilon(w) = 0 - Epsilon(v)
<1> DEFINE v == FirstRoot(t)
           w == OtherRoot(v)
           l == Lambda
           m == (v - 1) * (v - l)
           n == (w - 1) * (w - l)
           q == t * t
<1>1. t \in Int /\ ~ Divisible(t)
  BY NonzeroElement
<1>2. q \in Int /\ Character(q) = 1
  BY <1>1, CharacterOfSquare
<1>3. v \in Field /\ v \in Int /\ ~ Divisible(v)
  BY FirstRootFacts
<1>4. /\ w \in Field /\ w \in Int /\ ~ Divisible(w)
      /\ Same(v + w, LambdaPlusOne) /\ Same(w, 2 * (v * q))
      /\ Character(w) = 0 - Character(v)
  BY OtherRootFacts
<1>5. l \in Int /\ Character(l) = 1 /\ LambdaPlusOne \in Int /\ Same(LambdaPlusOne, l + 1)
  BY LineFacts
<1>6. Epsilon(v) = Character(m * v) /\ Epsilon(w) = Character(n * w)
  <2>1. ASSUME NEW x \in Field, x \in Int
        PROVE  Epsilon(x) = Character(((x - 1) * (x - l)) * x)
    <3>1. ((x - 1) * (x - l)) * x \in Int
      <4> HIDE DEF l
      <4> QED BY <2>1, <1>5
    <3>2. Character(Cubic(x)) = Character(((x - 1) * (x - l)) * x)
      BY <3>1, CubicModulo, CharacterModulo
    <3> QED BY <3>2, CubicModulo, CharacterOfElement DEF Epsilon
  <2> QED BY <1>3, <1>4, <2>1
<1> HIDE DEF v, w, l
<1>7. Same(v + w, l + 1)
  <2>1. v + w \in Int /\ l + 1 \in Int
    BY <1>3, <1>4, <1>5
  <2> QED BY <1>4, <1>5, <2>1, SameTransitive
<1>8. m \in Int /\ n \in Int /\ m * v \in Int /\ m * w \in Int /\ n * w \in Int
  BY <1>3, <1>4, <1>5
<1>9. Same(n * w, m * w)
  <2> DEFINE x == (v + w) - (l + 1)
             c == w * (w - v)
  <2>1. n * w - m * w = Combine(c, x, 0, x)
    BY <1>3, <1>4, <1>5 DEF Combine
  <2>2. c \in Int /\ x \in Int /\ Divisible(x)
    BY <1>3, <1>4, <1>5, <1>7 DEF Same
  <2> HIDE DEF c, x, m, n
  <2>3. Divisible(Combine(c, x, 0, x))
    BY <2>2, Combination
  <2> QED BY <2>1, <2>3 DEF Same
<1>10. ~ Divisible(v - 1)
  <2> SUFFICES ASSUME Divisible(v - 1) PROVE FALSE
    OBVIOUS
  <2> DEFINE x == w - 2 * (v * q)
             y == (v + w) - (l + 1)
             c == Combine(0 - 1, x, 1, y)
  <2>1. x \in Int /\ y \in Int /\ Divisible(x) /\ Divisible(y)
    BY <1>2, <1>3, <1>4, <1>5, <1>7 DEF Same
  <2>2. c = v + 2 * (v * q) - (l + 1) /\ c \in Int
    BY <1>2, <1>3, <1>4, <1>5 DEF Combine
  <2> HIDE DEF x, y
  <2>3. Divisible(c)
    BY <2>1, Combination
  <2> HIDE DEF c
  <2>4. 0 - (1 + 2 * q) \in Int /\ v - 1 \in Int
    BY <1>2, <1>3
  <2>5. Divisible(Combine(1, c, 0 - (1 + 2 * q), v - 1))
    BY <2>2, <2>3, <2>4, Combination
  <2>6. Combine(1, c, 0 - (1 + 2 * q), v - 1) = 2 * q - l
    BY <1>2, <1>3, <1>5, <2>2 DEF Combine
  <2>7. Character(2 * q) = Character(l)
    BY <1>2, <1>5, <2>5, <2>6, CharacterModulo DEF Same
  <2>8. Character(2 * q) = Character(2) * Character(q)
    BY <1>2, CharacterOfProduct
  <2> QED BY <1>2, <1>5, <2>7, <2>8, CharacterOfTwo
<1>11. ~ Divisible(v - l)
  <2> SUFFICES ASSUME Divisible(v - l) PROVE FALSE
    OBVIOUS
  <2> DEFINE x == w - 2 * (v * q)
             y == (v + w) - (l + 1)
             c == Combine(0 - 1, x, 1, y)
  <2>1. x \in Int /\ y \in Int /\ Divisible(x) /\ Divisible(y)
    BY <1>2, <1>3, <1>4, <1>5, <1>7 DEF Same
  <2>2. c = v + 2 * (v * q) - (l + 1) /\ c \in Int
    BY <1>2, <1>3, <1>4, <1>5 DEF Combine
  <2> HIDE DEF x, y
  <2>3. Divisible(c)
    BY <2>1, Combination
  <2> HIDE DEF c
  <2>4. 0 - (1 + 2 * q) \in Int /\ v - l \in Int
    BY <1>2, <1>3, <1>5
  <2>5. Divisible(Combine(1, c, 0 - (1 + 2 * q), v - l))
    BY <2>2, <2>3, <2>4, Combination
  <2>6. Combine(1, c, 0 - (1 + 2 * q), v - l) = 2 * (l * q) - 1
    BY <1>2, <1>3, <1>5, <2>2 DEF Combine
  <2> DEFINE u == l * q
  <2>7. u \in Int
    BY <1>2, <1>5
  <2>8. Character(u) = 1
    BY <1>2, <1>5, CharacterOfProduct
  <2> HIDE DEF u
  <2>9. Character(2 * u) = Character(1)
    BY <2>5, <2>6, <2>7, CharacterModulo DEF Same, u
  <2>10. Character(2 * u) = Character(2) * Character(u)
    BY <2>7, CharacterOfProduct
  <2>11. Character(1) = 1
    <3>1. Character(1 * 1) = 1
      BY CharacterOfSquare, DivisibleElement, FieldElements
    <3> QED BY <3>1
  <2> QED BY <2>8, <2>9, <2>10, <2>11, CharacterOfTwo
<1>12. ~ Divisible(m)
  <2>1. v - 1 \in Int /\ v - l \in Int
    BY <1>3, <1>5
  <2> QED BY <1>10, <1>11, <2>1, PrimeDividesFactor
<1> HIDE DEF m, n
<1>13. Character(m) \in {1, 0 - 1} /\ Character(v) \in {1, 0 - 1}
  BY <1>3, <1>8, <1>12, CharacterIsPower
<1>14. Character(n * w) = Character(m * w)
  BY <1>8, <1>9, CharacterModulo
<1>15. /\ Character(m * w) = Character(m) * Character(w)
       /\ Character(m * v) = Character(m) * Character(v)
  BY <1>3, <1>4, <1>8, CharacterOfProduct
<1> QED BY <1>4, <1>6, <1>13, <1>14, <1>15 DEF v, w

-------------------------------------------------------------------------------
(***************************************************************************)
(* The inverse of the map.                                                 *)
(***************************************************************************)
\* canonical_rep() chooses between a root and its opposite.
LEMMA CanonicalRepFacts ==
  ASSUME NEW a \in Field
  PROVE  LET t == CanonicalRep(a)
         IN  t \in 0 .. Half /\ t \in Int /\ Same(t * t, a * a)
<1>1. a \in Nat /\ a < P /\ a \in Int
  BY FieldElements
<1>2. CASE a <= Half
  <2>1. CanonicalRep(a) = a
    BY <1>2 DEF CanonicalRep, Half
  <2>2. a * a \in Int
    BY <1>1
  <2> QED BY <1>1, <1>2, <2>1, <2>2, SameReflexive, HalfFacts
<1>3. CASE ~ a <= Half
  <2>1. CanonicalRep(a) = P - a
    BY <1>3 DEF CanonicalRep, Half
  <2>2. P - a \in 0 .. Half /\ P - a \in Int
    BY <1>1, <1>3, HalfFacts, PrimeFacts
  <2>3. (P - a) * (P - a) - a * a = (P - 2 * a) * P
    BY <1>1, PrimeFacts
  <2>4. P - 2 * a \in Int
    BY <1>1, PrimeFacts
  <2>5. Divisible((P - a) * (P - a) - a * a)
    BY <2>3, <2>4 DEF Divisible
  <2> QED BY <2>1, <2>2, <2>5 DEF Same
<1> QED BY <1>2, <1>3

LEMMA OneCanonicalRoot ==
  ASSUME NEW s \in 0 .. Half, NEW t \in 0 .. Half, Same(s * s, t * t)
  PROVE  s = t
<1>1. s \in Int /\ t \in Int /\ s + t \in Int /\ s - t \in Int
  BY HalfFacts
<1>2. s * s - t * t = (s - t) * (s + t)
  BY <1>1
<1>3. Divisible(s - t) \/ Divisible(s + t)
  BY <1>1, <1>2, PrimeDividesFactor DEF Same
<1>4. s \in Field /\ t \in Field /\ s + t \in Field
  BY HalfFacts, PrimeFacts DEF Field
<1>5. CASE Divisible(s - t)
  BY <1>4, <1>5, SameElement
<1>6. CASE Divisible(s + t)
  <2>1. s + t = 0
    BY <1>4, <1>6, DivisibleElement
  <2> QED BY <2>1, HalfFacts
<1> QED BY <1>3, <1>5, <1>6

\* A root x of the curve's equation with its other candidate y, in any
\* representative of its point of the line: elligator_k1_decode returns the
\* t for which 2 * t^2 = x / y.
LEMMA DecodeRepresentative ==
  ASSUME NEW x \in Field, NEW y \in Field, NEW p, NEW c \in Int,
         Same(x + y, LambdaPlusOne), Character(x * y) = 0 - 1,
         ~ Divisible(c), p.x \in Field, p.z \in Field,
         Same(p.x, c * (B2 * x)), Same(p.z, c * (A2 * (x - 1)))
  PROVE  LET t == Decode(p)
         IN  t \in 1 .. Half /\ Same(2 * ((t * t) * y), x)
<1> DEFINE k == c * (A2 * B2)
           s == LambdaPlusOne
           a2x == Mul(A2, p.x)
           bz == Mul(B2, p.z)
           d == Sub(a2x, bz)
           num == Sub(a2x, Mul(s, d))
           opp == Neg(a2x)
           g == Mul(Mul(opp, U), num)
           h == Mul(num, U)
           j == Inv[h]
           r == Mul(opp, j)
           root == Sqrt[r]
           t == CanonicalRep(root)
<1>1. x \in Int /\ y \in Int /\ p.x \in Int /\ p.z \in Int
  BY FieldElements
<1>2. A2 \in Int /\ B2 \in Int /\ ~ Divisible(A2) /\ ~ Divisible(B2) /\ s \in Int
  BY LineFacts
<1>3. k \in Int /\ ~ Divisible(k)
  <2>1. A2 * B2 \in Int /\ ~ Divisible(A2 * B2)
    BY <1>2, PrimeDividesFactor
  <2>2. c * (A2 * B2) \in Int
    BY <1>2, <2>1
  <2> QED BY <2>1, <2>2, PrimeDividesFactor
<1>4. a2x \in Field /\ a2x \in Int /\ Same(a2x, k * x)
  <2>1. c * (B2 * x) \in Int
    BY <1>1, <1>2
  <2>2. a2x \in Field /\ a2x \in Int /\ Same(a2x, A2 * (c * (B2 * x)))
    BY <1>1, <1>2, <2>1, MulSame, SameReflexive
  <2>3. A2 * (c * (B2 * x)) = k * x
    BY <1>1, <1>2
  <2> QED BY <2>2, <2>3
<1>5. bz \in Field /\ bz \in Int /\ Same(bz, k * x - k)
  <2>1. c * (A2 * (x - 1)) \in Int
    BY <1>1, <1>2
  <2>2. bz \in Field /\ bz \in Int /\ Same(bz, B2 * (c * (A2 * (x - 1))))
    BY <1>1, <1>2, <2>1, MulSame, SameReflexive
  <2>3. B2 * (c * (A2 * (x - 1))) = k * x - k
    BY <1>1, <1>2
  <2> QED BY <2>2, <2>3
<1> HIDE DEF k, s, a2x, bz
<1>6. k * x \in Int /\ k * x - k \in Int /\ k * y \in Int
  BY <1>1, <1>3
<1>7. d \in Field /\ d \in Int /\ Same(d, k)
  <2>1. d \in Field /\ d \in Int /\ Same(d, k * x - (k * x - k))
    BY <1>4, <1>5, <1>6, SubSame
  <2>2. k * x - (k * x - k) = k
    BY <1>3, <1>6
  <2> QED BY <2>1, <2>2
<1>8. d # 0
  <2> SUFFICES ASSUME d = 0 PROVE FALSE
    OBVIOUS
  <2>1. Divisible(k - 0)
    BY <1>3, <1>7, OppositeDivisible DEF Same
  <2> QED BY <1>3, <2>1
<1>9. bz # a2x
  <2> SUFFICES ASSUME bz = a2x PROVE FALSE
    OBVIOUS
  <2>1. Same(d, a2x - bz)
    BY <1>4, <1>5, SubSame, SameReflexive
  <2>2. a2x - bz = 0 /\ d - 0 = d
    BY <1>4, <1>5, <1>7
  <2> QED BY <1>7, <1>8, <2>1, <2>2, DivisibleElement DEF Same
<1> HIDE DEF d
<1>10. num \in Field /\ num \in Int /\ Same(num, 0 - k * y)
  <2>0. x + y \in Int /\ Same(s, x + y)
    BY <1>1, <1>2, SameSymmetric DEF s
  <2>1. Mul(s, d) \in Int /\ Same(Mul(s, d), (x + y) * k)
    BY <1>2, <1>3, <1>7, <2>0, MulSame
  <2>2. (x + y) * k \in Int /\ k * x - (x + y) * k = 0 - k * y
    BY <1>1, <1>3
  <2>3. num \in Field /\ num \in Int /\ Same(num, k * x - (x + y) * k)
    BY <1>4, <1>6, <2>1, <2>2, SubSame
  <2> QED BY <2>2, <2>3
<1>11. opp \in Field /\ opp \in Int /\ Same(opp, 0 - k * x)
  BY <1>4, <1>6, NegSame
<1> HIDE DEF num, opp
<1>12. 0 - k * y \in Int /\ 0 - k * x \in Int /\ 2 \in Int /\ Same(2, 2)
  BY <1>6, SameReflexive
<1>13. Chi[g] = 1
  <2> DEFINE kk == k * k
             xy == x * y
             kxy == kk * xy
  <2>1. Mul(opp, U) \in Int /\ Same(Mul(opp, U), (0 - k * x) * 2)
    BY <1>11, <1>12, MulSame DEF U
  <2>2. (0 - k * x) * 2 \in Int
    BY <1>6
  <2>3. g \in Field /\ g \in Int /\ Same(g, ((0 - k * x) * 2) * (0 - k * y))
    BY <1>10, <1>12, <2>1, <2>2, MulSame
  <2>4. ((0 - k * x) * 2) * (0 - k * y) = 2 * kxy
    BY <1>1, <1>3
  <2>5. kk \in Int /\ xy \in Int /\ kxy \in Int /\ 2 * kxy \in Int
    BY <1>1, <1>3
  <2>6. Character(kk) = 1
    BY <1>3, CharacterOfSquare
  <2> HIDE DEF g
  <2>7. Character(kxy) = Character(kk) * Character(xy)
    <3> HIDE DEF kk, xy
    <3> QED BY <2>5, CharacterOfProduct
  <2>8. Character(2 * kxy) = Character(2) * Character(kxy)
    <3> HIDE DEF kxy
    <3> QED BY <2>5, CharacterOfProduct
  <2>9. Character(g) = Character(2 * kxy)
    <3> HIDE DEF kxy
    <3> QED BY <2>3, <2>4, <2>5, CharacterModulo
  <2>10. Character(g) = 1
    <3> HIDE DEF kxy, kk
    <3> QED BY <2>6, <2>7, <2>8, <2>9, CharacterOfTwo
  <2> QED BY <2>3, <2>10, CharacterOfElement
<1>14. h \in Field /\ h \in Int /\ Same(h, (0 - k * y) * 2)
  BY <1>10, <1>12, MulSame DEF U
<1>15. ~ Divisible(x) /\ ~ Divisible(y) /\ Character(x) = 0 - Character(y)
  <2>1. Character(x * y) = Character(x) * Character(y)
    BY <1>1, CharacterOfProduct
  <2>2. Character(x) \in {0, 1, 0 - 1} /\ Character(y) \in {0, 1, 0 - 1}
    BY <1>1, CharacterIsPower
  <2>3. Character(x) # 0 /\ Character(y) # 0 /\ Character(x) = 0 - Character(y)
    BY <2>1, <2>2
  <2> QED BY <1>1, <2>3, CharacterIsPower
<1> HIDE DEF h
<1>16. h # 0
  <2> SUFFICES ASSUME h = 0 PROVE FALSE
    OBVIOUS
  <2>1. (0 - k * y) * 2 \in Int
    BY <1>6
  <2>2. Divisible((0 - k * y) * 2 - 0)
    BY <1>14, <2>1, OppositeDivisible DEF Same
  <2>3. Divisible((0 - k * y) * 2)
    BY <2>1, <2>2
  <2>4. ~ Divisible(2)
    BY DivisibleElement, FieldElements
  <2>5. Divisible(0 - k * y)
    BY <1>12, <2>3, <2>4, PrimeDividesFactor
  <2>6. Divisible(k * y - 0)
    BY <1>6, <2>5, OppositeDivisible
  <2>7. Divisible(k * y)
    BY <1>6, <2>6
  <2> QED BY <1>1, <1>3, <1>15, <2>7, PrimeDividesFactor
<1>17. j \in Field /\ j \in Int /\ Divisible(h * j - 1)
  BY <1>14, <1>16, InvIsInverse, FieldElements
<1> HIDE DEF j
<1>18. r \in Field /\ r \in Int /\ Same(r, (0 - k * x) * j)
  BY <1>11, <1>12, <1>17, MulSame, SameReflexive
<1> HIDE DEF r
<1>19. Same(2 * (r * y), x)
  <2> DEFINE e1 == r - (0 - k * x) * j
             e2 == h * j - 1
             e3 == h - (0 - k * y) * 2
             m == Combine(h, e1, 0 - k * x, e2)
             n == Combine(1, m, 0 - r, e3)
             o == 2 * (r * y) - x
  <2>1. Divisible(e1) /\ Divisible(e2) /\ Divisible(e3)
    BY <1>14, <1>17, <1>18 DEF Same
  <2>2. e1 \in Int /\ e2 \in Int /\ e3 \in Int /\ o \in Int /\ 0 - r \in Int
    BY <1>1, <1>3, <1>14, <1>17, <1>18
  <2>3. m = h * r + k * x
    BY <1>1, <1>3, <1>14, <1>17, <1>18 DEF Combine
  <2>4. m \in Int
    BY <1>1, <1>3, <1>14, <1>18, <2>3
  <2>5. Divisible(m)
    <3> HIDE DEF e1, e2
    <3> QED BY <1>12, <1>14, <2>1, <2>2, Combination
  <2>6. n = (0 - k) * o
    <3> HIDE DEF m
    <3> QED BY <1>1, <1>3, <1>14, <1>18, <2>3, <2>4 DEF Combine
  <2>7. Divisible(n)
    <3> HIDE DEF e3, m
    <3> QED BY <2>1, <2>2, <2>4, <2>5, Combination
  <2>8. ~ Divisible(0 - k) /\ 0 - k \in Int
    <3>1. Divisible(0 - k) => Divisible(k - 0)
      BY <1>3, OppositeDivisible
    <3> QED BY <1>3, <3>1
  <2> HIDE DEF n, o
  <2>9. Divisible(o)
    BY <2>2, <2>6, <2>7, <2>8, PrimeDividesFactor
  <2> QED BY <2>9 DEF Same, o
<1>20. Chi[r] = 1 /\ ~ Divisible(r)
  <2> DEFINE ry == r * y
  <2>1. ry \in Int /\ 2 * ry \in Int
    BY <1>1, <1>18
  <2>2. Character(ry) = Character(r) * Character(y)
    BY <1>1, <1>18, CharacterOfProduct
  <2> HIDE DEF ry
  <2>3. Character(2 * ry) = Character(2) * Character(ry)
    BY <2>1, CharacterOfProduct
  <2>4. Character(2 * ry) = Character(x)
    BY <1>1, <1>19, <2>1, CharacterModulo DEF ry
  <2>5. Character(r) \in {0, 1, 0 - 1} /\ Character(y) \in {1, 0 - 1}
    BY <1>1, <1>15, <1>18, CharacterIsPower
  <2>6. Character(r) = 1
    BY <1>15, <2>2, <2>3, <2>4, <2>5, CharacterOfTwo
  <2> QED BY <1>18, <2>6, CharacterIsPower, CharacterOfElement
<1>21. root # None /\ root \in Field /\ root \in Int /\ Same(root * root, r)
  <2>1. Chi[r] # 0 - 1
    BY <1>20
  <2> QED BY <1>18, <2>1, SqrtSquared, FieldElements
<1>22. Decode(p) = t
  <2>1. /\ p.x \in Field
        /\ Mul(B2, p.z) # Mul(A2, p.x)
        /\ Sub(Mul(A2, p.x), Mul(B2, p.z)) # 0
    BY <1>8, <1>9 DEF a2x, bz, d
  <2>2. Chi[Mul(Mul(Neg(a2x), U), num)] = 1
    BY <1>13 DEF g, opp
  <2> USE DEF a2x, bz, d, s
  <2>3. num = Sub(Mul(A2, p.x), Mul(LambdaPlusOne, Sub(Mul(A2, p.x), Mul(B2, p.z))))
    BY DEF num
  <2>4. Sqrt[Mul(Neg(a2x), Inv[Mul(num, U)])] # None
    BY <1>21 DEF r, j, h, opp
  <2>5. t = CanonicalRep(Sqrt[Mul(Neg(a2x), Inv[Mul(num, U)])])
    BY DEF r, j, h, opp
  <2> QED BY <2>1, <2>2, <2>3, <2>4, <2>5 DEF Decode
<1> HIDE DEF root
<1>23. t \in 0 .. Half /\ t \in Int /\ Same(t * t, root * root)
  BY <1>21, CanonicalRepFacts
<1> HIDE DEF t
<1>24. Same(t * t, r)
  <2>1. t * t \in Int /\ root * root \in Int
    BY <1>21, <1>23
  <2> QED BY <1>18, <1>21, <1>23, <2>1, SameTransitive
<1>25. t # 0
  <2> SUFFICES ASSUME t = 0 PROVE FALSE
    OBVIOUS
  <2>1. t * t = 0
    OBVIOUS
  <2>2. Divisible(r - 0)
    BY <1>18, <1>24, <2>1, OppositeDivisible DEF Same
  <2> QED BY <1>18, <1>20, <2>2
<1>26. Same(2 * ((t * t) * y), x)
  <2> DEFINE q == t * t
             e1 == q - r
             e2 == 2 * (r * y) - x
  <2>1. q \in Int /\ e1 \in Int /\ e2 \in Int /\ 2 * y \in Int
    BY <1>1, <1>18, <1>23
  <2>2. Divisible(e1) /\ Divisible(e2)
    BY <1>19, <1>24 DEF Same
  <2> HIDE DEF q
  <2>3. Combine(2 * y, e1, 1, e2) = 2 * (q * y) - x
    BY <1>1, <1>18, <2>1 DEF Combine
  <2> HIDE DEF e1, e2
  <2>4. Divisible(Combine(2 * y, e1, 1, e2))
    BY <2>1, <2>2, Combination
  <2> QED BY <2>3, <2>4 DEF Same, q
<1>27. t \in 1 .. Half
  BY <1>23, <1>25, HalfFacts
<1> QED BY <1>22, <1>26, <1>27

LEMMA EncodeTypes ==
  \A t \in Field : /\ Encode(t) = [x |-> Encode(t).x, z |-> Encode(t).z]
                   /\ Encode(t).x \in Field /\ Encode(t).z \in Field
<1> SUFFICES ASSUME NEW t \in Field
             PROVE  \E a, b \in Field : Encode(t) = [x |-> a, z |-> b]
  OBVIOUS
<1>1. A2 \in Field /\ B2 \in Field /\ A2 \in Int /\ B2 \in Int
  BY FieldAssumption, FieldElements
<1>2. CASE t = 0
  BY <1>1, <1>2 DEF Encode
<1>3. CASE t # 0
  <2> DEFINE v == FirstRoot(t)
             u == IF Epsilon(v) >= 0 THEN v ELSE OtherRoot(v)
  <2>1. Encode(t) = FromLegendreX(u)
    BY <1>3 DEF Encode, FirstRoot
  <2>2. u \in Int
    BY <1>3, FirstRootFacts, OtherRootFacts
  <2> HIDE DEF u
  <2>3. Sub(u, 1) \in Int
    BY <2>2, SubModulo, FieldElements
  <2>4. Mul(B2, u) \in Field /\ Mul(A2, Sub(u, 1)) \in Field
    BY <1>1, <2>2, <2>3, MulModulo
  <2> QED BY <2>1, <2>4 DEF FromLegendreX
<1> QED BY <1>2, <1>3

LEMMA DecodeImage ==
  ASSUME NEW x \in Field, NEW y \in Field, Same(x + y, LambdaPlusOne), Character(x * y) = 0 - 1
  PROVE  \E t \in 1 .. Half :
           /\ Decode(FromLegendreX(x)) = t
           /\ Same(2 * ((t * t) * y), x)
           /\ \A c \in Field \ {0} :
                Decode([x |-> Mul(c, FromLegendreX(x).x), z |-> Mul(c, FromLegendreX(x).z)]) = t
<1> DEFINE a == Mul(B2, x)
           b == Mul(A2, Sub(x, 1))
           e == A2 * (x - 1)
           f == B2 * x
           t == Decode(FromLegendreX(x))
<1>1. x \in Int /\ y \in Int /\ A2 \in Int /\ B2 \in Int
  BY FieldElements, LineFacts
<1>2. e \in Int /\ f \in Int
  BY <1>1
<1>3. a \in Field /\ a \in Int /\ Same(a, f)
  BY <1>1, MulSame, SameReflexive
<1>4. b \in Field /\ b \in Int /\ Same(b, e)
  <2>1. Sub(x, 1) \in Int /\ Same(Sub(x, 1), x - 1)
    <3>1. 1 \in Int /\ Same(1, 1) /\ Same(x, x)
      BY <1>1, SameReflexive
    <3> QED BY <1>1, <3>1, SubSame
  <2>2. x - 1 \in Int
    BY <1>1
  <2> QED BY <1>1, <2>1, <2>2, MulSame, SameReflexive
<1>5. FromLegendreX(x) = [x |-> a, z |-> b]
  BY DEF FromLegendreX
<1>6. ASSUME NEW c \in Int, ~ Divisible(c), NEW p, p.x \in Field, p.z \in Field,
             Same(p.x, c * f), Same(p.z, c * e)
      PROVE  Decode(p) \in 1 .. Half /\ Same(2 * ((Decode(p) * Decode(p)) * y), x)
  BY <1>6, DecodeRepresentative
<1> HIDE DEF a, b
<1>7. t \in 1 .. Half /\ Same(2 * ((t * t) * y), x)
  <2>1. ~ Divisible(1) /\ 1 * f = f /\ 1 * e = e
    BY <1>2, DivisibleElement, FieldElements
  <2> HIDE DEF e, f
  <2> QED BY <1>3, <1>4, <1>5, <1>6, <2>1
<1> HIDE DEF t
<1>8. ASSUME NEW c \in Field \ {0}
      PROVE  Decode([x |-> Mul(c, a), z |-> Mul(c, b)]) = t
  <2> DEFINE p == [x |-> Mul(c, a), z |-> Mul(c, b)]
             s == Decode(p)
  <2>1. c \in Int /\ ~ Divisible(c)
    BY NonzeroElement
  <2>2. /\ p.x \in Field /\ p.z \in Field
        /\ Same(p.x, c * f) /\ Same(p.z, c * e)
    <3> HIDE DEF e, f
    <3> QED BY <1>2, <1>3, <1>4, <2>1, MulSame, SameReflexive
  <2> HIDE DEF p
  <2>3. s \in 1 .. Half /\ Same(2 * ((s * s) * y), x)
    BY <1>6, <2>1, <2>2
  <2> HIDE DEF s
  <2> DEFINE m == 2 * ((s * s) * y) - x
             n == 2 * ((t * t) * y) - x
             d == s * s - t * t
  <2>4. s \in Int /\ t \in Int /\ s \in 0 .. Half /\ t \in 0 .. Half
    BY <1>7, <2>3, HalfFacts
  <2>5. m \in Int /\ n \in Int /\ d \in Int /\ 2 * y \in Int
    BY <1>1, <2>4
  <2>6. Combine(1, m, 0 - 1, n) = (2 * y) * d
    BY <1>1, <2>4 DEF Combine
  <2>7. Divisible(m) /\ Divisible(n)
    BY <1>7, <2>3 DEF Same
  <2> HIDE DEF m, n, d
  <2>8. Divisible(Combine(1, m, 0 - 1, n))
    BY <2>5, <2>7, Combination
  <2>9. ~ Divisible(2 * y)
    <3>1. Character(x * y) = Character(x) * Character(y)
      BY <1>1, CharacterOfProduct
    <3>2. Character(x) \in {0, 1, 0 - 1} /\ Character(y) \in {0, 1, 0 - 1}
      BY <1>1, CharacterIsPower
    <3>3. Character(y) # 0
      BY <3>1, <3>2
    <3> QED BY <1>1, <3>3, CharacterIsPower, PrimeDividesFactor, DivisibleElement,
               FieldElements
  <2>10. Divisible(d)
    BY <2>5, <2>6, <2>8, <2>9, PrimeDividesFactor
  <2>11. s = t
    BY <2>4, <2>10, OneCanonicalRoot DEF Same, d
  <2> QED BY <2>11 DEF s, p
<1>9. Decode(FromLegendreX(x)) = t
  BY DEF t
<1>10. FromLegendreX(x).x = a /\ FromLegendreX(x).z = b
  BY <1>5
<1> HIDE DEF t
<1>11. \A c \in Field \ {0} :
         Decode([x |-> Mul(c, FromLegendreX(x).x), z |-> Mul(c, FromLegendreX(x).z)]) = t
  BY <1>8, <1>10
<1> QED BY <1>7, <1>9, <1>11

\* The candidate y of a decoded t is its first root.
LEMMA RootOfDecoded ==
  ASSUME NEW x \in Field, NEW y \in Field, Same(x + y, LambdaPlusOne),
         NEW t \in Field \ {0}, Same(2 * ((t * t) * y), x)
  PROVE  FirstRoot(t) = y
<1> DEFINE v == FirstRoot(t)
           q == t * t
           s == LambdaPlusOne
<1>1. x \in Int /\ y \in Int /\ s \in Int /\ t \in Int /\ ~ Divisible(t)
  BY FieldElements, LineFacts, NonzeroElement
<1>2. v \in Field /\ v \in Int /\ Same(v * (1 + 2 * q), s)
  BY FirstRootFacts
<1>3. ~ Divisible(1 + 2 * q) /\ q \in Int
  BY <1>1, Denominator
<1> HIDE DEF v, q, s
<1> DEFINE e1 == v * (1 + 2 * q) - s
           e2 == (x + y) - s
           e3 == 2 * (q * y) - x
           m == Combine(1, e1, 0 - 1, e2)
<1>4. e1 \in Int /\ e2 \in Int /\ e3 \in Int
  BY <1>1, <1>2, <1>3
<1>5. Divisible(e1) /\ Divisible(e2) /\ Divisible(e3)
  BY <1>2 DEF Same, q, s
<1>6. m = v * (1 + 2 * q) - (x + y)
  BY <1>1, <1>2, <1>3 DEF Combine
<1>7. m \in Int
  BY <1>1, <1>2, <1>3, <1>6
<1>8. Divisible(m)
  <2> HIDE DEF e1, e2
  <2> QED BY <1>4, <1>5, Combination
<1>9. Combine(1, m, 0 - 1, e3) = (1 + 2 * q) * (v - y)
  <2> HIDE DEF m
  <2> QED BY <1>1, <1>2, <1>3, <1>6, <1>7 DEF Combine
<1>10. Divisible((1 + 2 * q) * (v - y))
  <2> HIDE DEF m, e3
  <2>1. Divisible(Combine(1, m, 0 - 1, e3))
    BY <1>4, <1>5, <1>7, <1>8, Combination
  <2> QED BY <1>9, <2>1
<1>11. 1 + 2 * q \in Int /\ v - y \in Int
  BY <1>1, <1>2, <1>3
<1>12. Divisible(v - y)
  BY <1>3, <1>10, <1>11, PrimeDividesFactor
<1> QED BY <1>2, <1>12, SameElement DEF v

LEMMA NonzeroRoundTrip ==
  ASSUME NEW t \in Field \ {0}
  PROVE  \E s \in 1 .. Half :
           /\ Decode(Encode(t)) = s
           /\ Encode(s) = Encode(t)
           /\ \A c \in Field \ {0} :
                Decode([x |-> Mul(c, Encode(t).x), z |-> Mul(c, Encode(t).z)]) = s
<1> DEFINE v == FirstRoot(t)
           w == OtherRoot(v)
<1>1. v \in Field /\ v \in Int
  BY FirstRootFacts
<1>2. /\ w \in Field /\ w \in Int /\ Same(v + w, LambdaPlusOne)
      /\ Character(v * w) = 0 - 1
  BY OtherRootFacts
<1>3. Epsilon(v) \in {1, 0 - 1} /\ Epsilon(w) = 0 - Epsilon(v)
  BY EpsilonOpposite
<1>4. ASSUME NEW s \in Field \ {0}
      PROVE  Encode(s) = FromLegendreX(IF Epsilon(FirstRoot(s)) >= 0
                                       THEN FirstRoot(s) ELSE OtherRoot(FirstRoot(s)))
  BY DEF Encode, FirstRoot
<1>5. \A s \in 1 .. Half : s \in Field \ {0}
  BY HalfFacts, PrimeFacts DEF Field
<1>6. OtherRoot(w) = v
  <2> DEFINE m == LambdaPlusOne
  <2>1. m \in Int
    BY LineFacts
  <2>2. OtherRoot(w) \in Field /\ OtherRoot(w) \in Int /\ Same(OtherRoot(w), m - w)
    <3> HIDE DEF w, m
    <3> QED BY <1>2, <2>1, SubSame, SameReflexive DEF OtherRoot, m
  <2> HIDE DEF v, w, m
  <2>3. Same(m - w, v)
    <3>1. Divisible(m - (v + w))
      BY <1>1, <1>2, <2>1, OppositeDivisible DEF Same, m
    <3>2. m - (v + w) = (m - w) - v
      BY <1>1, <1>2, <2>1
    <3> QED BY <3>1, <3>2 DEF Same
  <2>4. m - w \in Int
    BY <1>2, <2>1
  <2>5. Same(OtherRoot(w), v)
    BY <1>1, <2>2, <2>3, <2>4, SameTransitive
  <2> QED BY <1>1, <2>2, <2>5, SameElements
<1> HIDE DEF v, w
<1>7. CASE Epsilon(v) = 1
  <2>1. Encode(t) = FromLegendreX(v)
    BY <1>4, <1>7 DEF v
  <2>2. PICK s \in 1 .. Half :
           /\ Decode(FromLegendreX(v)) = s
           /\ Same(2 * ((s * s) * w), v)
           /\ \A c \in Field \ {0} :
                Decode([x |-> Mul(c, FromLegendreX(v).x), z |-> Mul(c, FromLegendreX(v).z)]) = s
    BY <1>1, <1>2, DecodeImage
  <2>3. FirstRoot(s) = w
    BY <1>1, <1>2, <1>5, <2>2, RootOfDecoded
  <2>4. Encode(s) = FromLegendreX(v)
    BY <1>3, <1>4, <1>5, <1>6, <1>7, <2>3
  <2> QED BY <2>1, <2>2, <2>4
<1>8. CASE Epsilon(v) = 0 - 1
  <2>1. Encode(t) = FromLegendreX(w)
    BY <1>4, <1>8 DEF v, w
  <2>2. Same(w + v, LambdaPlusOne) /\ Character(w * v) = 0 - 1
    <3>1. w + v = v + w /\ w * v = v * w
      BY <1>1, <1>2
    <3> QED BY <1>2, <3>1
  <2>3. PICK s \in 1 .. Half :
           /\ Decode(FromLegendreX(w)) = s
           /\ Same(2 * ((s * s) * v), w)
           /\ \A c \in Field \ {0} :
                Decode([x |-> Mul(c, FromLegendreX(w).x), z |-> Mul(c, FromLegendreX(w).z)]) = s
    BY <1>1, <1>2, <2>2, DecodeImage
  <2>4. FirstRoot(s) = v
    BY <1>1, <1>2, <1>5, <2>2, <2>3, RootOfDecoded
  <2>5. Encode(s) = FromLegendreX(w)
    BY <1>4, <1>5, <1>8, <2>4 DEF w
  <2> QED BY <2>1, <2>3, <2>5
<1> QED BY <1>3, <1>7, <1>8

\* Decoding the image of t returns the element in the canonical half that has
\* the same image, from every representative of the point.
THEOREM MapRoundTrip ==
  ASSUME NEW t \in Field
  PROVE  LET theirs == Encode(t)
             s == Decode(theirs)
         IN  /\ s \in 0 .. (P - 1) \div 2
             /\ Encode(s) = theirs
             /\ \A c \in Field \ {0} :
                  Decode([x |-> Mul(c, theirs.x), z |-> Mul(c, theirs.z)]) = s
<1>1. CASE t # 0
  <2>1. t \in Field \ {0}
    BY <1>1
  <2>2. PICK s \in 1 .. Half :
           /\ Decode(Encode(t)) = s
           /\ Encode(s) = Encode(t)
           /\ \A c \in Field \ {0} :
                Decode([x |-> Mul(c, Encode(t).x), z |-> Mul(c, Encode(t).z)]) = s
    BY <2>1, NonzeroRoundTrip
  <2>3. s \in 0 .. (P - 1) \div 2
    BY HalfFacts DEF Half
  <2> QED BY <2>2, <2>3
<1>2. CASE t = 0
  <2>1. Encode(t) = [x |-> B2, z |-> A2]
    BY <1>2 DEF Encode
  <2>2. A2 \in Int /\ B2 \in Int
    BY LineFacts
  <2>3. Mul(B2, A2) = Mul(A2, B2)
    <3>1. B2 * A2 = A2 * B2
      BY <2>2
    <3> QED BY <3>1 DEF Mul
  <2>4. ASSUME NEW p, Mul(A2, p.x) \in Field, Mul(B2, p.z) = Mul(A2, p.x)
        PROVE  Decode(p) = 0
    <3> DEFINE m == Mul(A2, p.x)
    <3>1. m \in Int /\ m - m = 0
      BY <2>4, FieldElements
    <3>2. Sub(m, m) \in Field /\ Same(Sub(m, m), m - m)
      <4> HIDE DEF m
      <4> QED BY <3>1, SubSame, SameReflexive
    <3>3. 0 \in Field
      BY FieldElements
    <3>4. Sub(m, m) = 0
      <4> HIDE DEF m
      <4> QED BY <3>1, <3>2, <3>3, SameElements
    <3> QED BY <2>4, <3>4 DEF Decode
  <2>5. Decode(Encode(t)) = 0
    <3>1. Mul(A2, B2) \in Field
      BY <2>2, MulModulo
    <3> QED BY <2>1, <2>3, <2>4, <3>1
  <2>6. ASSUME NEW c \in Field \ {0}
        PROVE  Decode([x |-> Mul(c, B2), z |-> Mul(c, A2)]) = 0
    <3>1. c \in Int
      BY FieldElements
    <3>2. /\ Mul(c, A2) \in Int /\ Same(Mul(c, A2), c * A2) /\ c * A2 \in Int
          /\ Mul(c, B2) \in Int /\ Same(Mul(c, B2), c * B2) /\ c * B2 \in Int
      <4>1. Same(c, c) /\ Same(A2, A2) /\ Same(B2, B2)
        BY <2>2, <3>1, SameReflexive
      <4>2. c * A2 \in Int /\ c * B2 \in Int
        BY <2>2, <3>1
      <4> QED BY <2>2, <3>1, <4>1, <4>2, MulSame
    <3>3. /\ Mul(B2, Mul(c, A2)) \in Field /\ Same(Mul(B2, Mul(c, A2)), B2 * (c * A2))
          /\ Mul(A2, Mul(c, B2)) \in Field /\ Same(Mul(A2, Mul(c, B2)), A2 * (c * B2))
      BY <2>2, <3>2, MulSame, SameReflexive
    <3>4. B2 * (c * A2) = A2 * (c * B2) /\ A2 * (c * B2) \in Int
      BY <2>2, <3>1
    <3>5. Same(Mul(B2, Mul(c, A2)), Mul(A2, Mul(c, B2)))
      <4> DEFINE a == Mul(B2, Mul(c, A2))
                 b == Mul(A2, Mul(c, B2))
                 e == A2 * (c * B2)
      <4>1. a \in Int /\ b \in Int /\ e \in Int /\ Same(a, e) /\ Same(b, e)
        BY <3>3, <3>4, FieldElements
      <4> HIDE DEF a, b, e
      <4>2. Same(a, b)
        BY <4>1, SameSymmetric, SameTransitive
      <4> QED BY <4>2 DEF a, b
    <3>6. Mul(B2, Mul(c, A2)) = Mul(A2, Mul(c, B2))
      BY <3>3, <3>5, SameElements
    <3> QED BY <2>4, <3>3, <3>6
  <2>7. 0 \in 0 .. (P - 1) \div 2
    BY HalfFacts DEF Half
  <2> QED BY <1>2, <2>1, <2>5, <2>6, <2>7
<1> QED BY <1>1, <1>2

-------------------------------------------------------------------------------
(***************************************************************************)
(* Powers of two and the length of a scalar.                               *)
(***************************************************************************)
LEMMA PowerOfTwoSteps ==
  PowerOfTwo = [n \in Nat |-> IF n = 0 THEN 1 ELSE 2 * PowerOfTwo[n - 1]]
<1> DEFINE g == IntegerPower(2)
           Step(f) == [n \in Nat |-> IF n = 0 THEN 1 ELSE 2 * f[n - 1]]
<1>1. g \in [Nat -> Int] /\ g[0] = 1 /\ \A n \in Nat : g[n + 1] = 2 * g[n]
  BY IntegerPowers
<1> HIDE DEF g
<1>2. \A n \in Nat : g[n] = IF n = 0 THEN 1 ELSE 2 * g[n - 1]
  <2> TAKE n \in Nat
  <2>1. CASE n = 0
    BY <1>1, <2>1
  <2>2. CASE n # 0
    <3>1. n - 1 \in Nat /\ (n - 1) + 1 = n
      BY <2>2
    <3>2. g[(n - 1) + 1] = 2 * g[n - 1]
      BY <1>1, <3>1
    <3> QED BY <2>2, <3>1, <3>2
  <2> QED BY <2>1, <2>2
<1>3. g = Step(g)
  BY <1>1, <1>2
<1>4. PowerOfTwo = CHOOSE f : f = Step(f)
  BY DEF PowerOfTwo
<1> HIDE DEF Step
<1>5. PowerOfTwo = Step(PowerOfTwo)
  BY <1>3, <1>4
<1> QED BY <1>5 DEF Step

LEMMA PowerOfTwoFacts ==
  \A n \in Nat : /\ PowerOfTwo[n] \in Nat /\ PowerOfTwo[n] > n
                 /\ PowerOfTwo[n + 1] = 2 * PowerOfTwo[n]
<1> DEFINE T == {n \in Nat : PowerOfTwo[n] \in Nat /\ PowerOfTwo[n] > n}
<1>1. PowerOfTwo[0] = 1
  BY PowerOfTwoSteps
<1>2. ASSUME NEW n \in Nat PROVE PowerOfTwo[n + 1] = 2 * PowerOfTwo[n]
  <2>1. n + 1 \in Nat /\ n + 1 # 0 /\ (n + 1) - 1 = n
    OBVIOUS
  <2>2. PowerOfTwo[n + 1] = 2 * PowerOfTwo[(n + 1) - 1]
    BY <2>1, PowerOfTwoSteps
  <2> QED BY <2>1, <2>2
<1>3. 0 \in T
  BY <1>1
<1>4. ASSUME NEW n \in T \cap Nat PROVE n + 1 \in T
  BY <1>2
<1> HIDE DEF T
<1>5. Nat \subseteq T
  BY <1>3, <1>4, SetInduction
<1> QED BY <1>2, <1>5 DEF T

\* The bits of k are below BitLength(k).
LEMMA BitLengthFacts ==
  ASSUME NEW k \in Nat
  PROVE  BitLength(k) \in Nat /\ PowerOfTwo[BitLength(k)] > k
<1> DEFINE T == {n \in Nat : PowerOfTwo[n] > k}
<1>1. k \in T
  BY PowerOfTwoFacts
<1>2. PICK n \in T : \A m \in T : n <= m
  BY <1>1, LeastElement
<1>3. n \in 0 .. k /\ PowerOfTwo[n] > k
  <2>1. n <= k
    <3> HIDE DEF T
    <3> QED BY <1>1, <1>2
  <2> QED BY <1>2, <2>1
<1>4. ASSUME NEW m \in 0 .. n - 1 PROVE PowerOfTwo[m] <= k
  <2>1. m \notin T
    <3>1. ~ n <= m
      BY <1>3
    <3> HIDE DEF T
    <3> QED BY <1>2, <3>1
  <2> QED BY <2>1, PowerOfTwoFacts
<1>5. \E j \in 0 .. k : PowerOfTwo[j] > k /\ \A m \in 0 .. j - 1 : PowerOfTwo[m] <= k
  BY <1>3, <1>4
<1>6. BitLength(k) \in 0 .. k /\ PowerOfTwo[BitLength(k)] > k
  BY <1>5 DEF BitLength
<1> QED BY <1>6

-------------------------------------------------------------------------------
(***************************************************************************)
(* The types of the curve's and the line's operations.                     *)
(***************************************************************************)
LEMMA Closed ==
  /\ \A a, b \in Int : Mul(a, b) \in Field /\ Add(a, b) \in Field /\ Sub(a, b) \in Field
  /\ \A a \in Int : Sqr(a) \in Field
  /\ \A a \in Field : a \in Int
  /\ \A a \in Field \ {0} : Inv[a] \in Field
  /\ Lambda \in Field /\ LambdaPlusOne \in Field /\ A2 \in Field /\ B2 \in Field
  /\ 0 \in Field /\ 1 \in Field /\ 1 \in Int /\ 2 \in Int /\ 3 \in Int
<1>1. \A a, b \in Int : Mul(a, b) \in Field /\ Add(a, b) \in Field /\ Sub(a, b) \in Field
  BY MulModulo, AddModulo, SubModulo
<1>2. \A a \in Int : Sqr(a) \in Field
  BY <1>1 DEF Sqr
<1> QED BY <1>1, <1>2, FieldElements, InvIsInverse, LineFacts, FieldAssumption

Points == {Infinity} \cup Field \X Field

LEMMA ReflectedType ==
  ASSUME NEW slope \in Field, NEW p \in Field \X Field, NEW x \in Field
  PROVE  Reflected(slope, p, x) \in Field \X Field
<1>1. p[1] \in Int /\ p[2] \in Int /\ x \in Int /\ slope \in Int /\ LambdaPlusOne \in Int
  BY Closed
<1> DEFINE x3 == Sub(Sub(Add(Sqr(slope), LambdaPlusOne), p[1]), x)
           y3 == Sub(Mul(slope, Sub(p[1], x3)), p[2])
<1>2. x3 \in Field /\ x3 \in Int
  <2>1. Sqr(slope) \in Int
    BY <1>1, Closed
  <2>2. Add(Sqr(slope), LambdaPlusOne) \in Int
    BY <1>1, <2>1, Closed
  <2>3. Sub(Add(Sqr(slope), LambdaPlusOne), p[1]) \in Int
    BY <1>1, <2>2, Closed
  <2> QED BY <1>1, <2>3, Closed
<1> HIDE DEF x3
<1>3. y3 \in Field
  <2>1. Sub(p[1], x3) \in Int
    BY <1>1, <1>2, Closed
  <2>2. Mul(slope, Sub(p[1], x3)) \in Int
    BY <1>1, <2>1, Closed
  <2> QED BY <1>1, <2>2, Closed
<1>4. Reflected(slope, p, x) = <<x3, y3>>
  BY DEF Reflected, x3
<1> QED BY <1>2, <1>3, <1>4

LEMMA EcDoubleType ==
  ASSUME NEW p \in Points
  PROVE  EcDouble(p) \in Points
<1>1. CASE p = Infinity \/ p[2] = 0
  BY <1>1 DEF EcDouble, Points
<1>2. CASE p # Infinity /\ p[2] # 0
  <2> DEFINE num == Add(Sub(Mul(3, Sqr(p[1])), Mul(2, Mul(LambdaPlusOne, p[1]))), Lambda)
             den == Mul(2, p[2])
             slope == Mul(num, Inv[den])
  <2>1. p \in Field \X Field /\ p[1] \in Field /\ p[2] \in Field \ {0}
    BY <1>2 DEF Points
  <2>2. num \in Int
    <3>1. p[1] \in Int /\ Sqr(p[1]) \in Int /\ Lambda \in Int /\ LambdaPlusOne \in Int
      BY <2>1, Closed
    <3>2. Mul(3, Sqr(p[1])) \in Int /\ Mul(LambdaPlusOne, p[1]) \in Int
      BY <3>1, Closed
    <3>3. Mul(2, Mul(LambdaPlusOne, p[1])) \in Int
      BY <3>2, Closed
    <3>4. Sub(Mul(3, Sqr(p[1])), Mul(2, Mul(LambdaPlusOne, p[1]))) \in Int
      BY <3>2, <3>3, Closed
    <3> QED BY <3>1, <3>4, Closed
  <2>3. den \in Field \ {0}
    <3> DEFINE y == p[2]
               z == 2 * y
    <3>1. y \in Int /\ ~ Divisible(y) /\ ~ Divisible(2)
      BY <2>1, NonzeroElement, FieldElements, DivisibleElement
    <3> HIDE DEF y
    <3>2. ~ Divisible(z) /\ z \in Int
      BY <3>1, PrimeDividesFactor
    <3>3. Mul(2, y) \in Field /\ Divisible(Mul(2, y) - z)
      BY <3>1, MulModulo
    <3> HIDE DEF z
    <3>4. Mul(2, y) # 0
      <4> SUFFICES ASSUME Mul(2, y) = 0 PROVE FALSE
        OBVIOUS
      <4>1. Divisible(z - 0)
        BY <3>2, <3>3, OppositeDivisible
      <4> QED BY <3>2, <4>1
    <3> QED BY <3>3, <3>4 DEF y
  <2>4. slope \in Field
    <3> HIDE DEF num, den
    <3> QED BY <2>2, <2>3, Closed
  <2>5. EcDouble(p) = Reflected(slope, p, p[1])
    BY <1>2 DEF EcDouble
  <2> HIDE DEF slope
  <2> QED BY <2>1, <2>4, <2>5, ReflectedType DEF Points
<1> QED BY <1>1, <1>2

LEMMA EcAddType ==
  ASSUME NEW p \in Points, NEW q \in Points
  PROVE  EcAdd(p, q) \in Points
<1>1. CASE p = Infinity
  BY <1>1 DEF EcAdd
<1>2. CASE q = Infinity
  BY <1>2 DEF EcAdd
<1>3. CASE p # Infinity /\ q # Infinity
  <2>1. /\ p \in Field \X Field /\ p[1] \in Field /\ p[2] \in Field
        /\ q \in Field \X Field /\ q[1] \in Field /\ q[2] \in Field
    BY <1>3 DEF Points
  <2>2. CASE p[1] # q[1]
    <3> DEFINE den == Sub(q[1], p[1])
               slope == Mul(Sub(q[2], p[2]), Inv[den])
    <3>1. p[1] \in Int /\ q[1] \in Int /\ p[2] \in Int /\ q[2] \in Int
      BY <2>1, Closed
    <3>2. den \in Field \ {0}
      <4>1. den \in Field /\ Divisible(den - (q[1] - p[1]))
        BY <3>1, SubModulo
      <4>2. den # 0
        <5> SUFFICES ASSUME den = 0 PROVE FALSE
          OBVIOUS
        <5>1. 0 - (q[1] - p[1]) = p[1] - q[1]
          BY <3>1
        <5> QED BY <2>1, <2>2, <4>1, <5>1, SameElement
      <4> QED BY <4>1, <4>2
    <3>3. slope \in Field
      <4>1. Sub(q[2], p[2]) \in Int
        BY <3>1, Closed
      <4> HIDE DEF den
      <4> QED BY <3>2, <4>1, Closed
    <3>4. EcAdd(p, q) = Reflected(slope, p, q[1])
      BY <1>3, <2>2 DEF EcAdd
    <3> HIDE DEF slope
    <3> QED BY <2>1, <3>3, <3>4, ReflectedType DEF Points
  <2>3. CASE p[1] = q[1]
    <3>1. EcAdd(p, q) = Infinity \/ EcAdd(p, q) = EcDouble(p)
      BY <1>3, <2>3 DEF EcAdd
    <3> QED BY <3>1, EcDoubleType DEF Points
  <2> QED BY <2>2, <2>3
<1> QED BY <1>1, <1>2, <1>3

\* One turn of the loop, for bit i of k.
LoopStep(k, before, i) ==
  [result |-> IF Bit(k, i) THEN EcAdd(before.result, before.addend) ELSE before.result,
   addend |-> EcDouble(before.addend)]

LoopStates == [result : Points, addend : Points]

\* The states of the loop of ec_scalar_mult.
LEMMA EcScalarMultLoop ==
  ASSUME NEW k \in Nat, NEW p \in Points
  PROVE  \E loop : /\ loop[0] = [result |-> Infinity, addend |-> p]
                   /\ \A i \in Nat : i < BitLength(k) => loop[i + 1] = LoopStep(k, loop[i], i)
                   /\ EcScalarMult(k, p) = loop[BitLength(k)].result
<1> DEFINE S == LoopStates
           first == [result |-> Infinity, addend |-> p]
           After(before, i) ==
             [result |-> IF Bit(k, i) THEN EcAdd(before.result, before.addend)
                                      ELSE before.result,
              addend |-> EcDouble(before.addend)]
           Step(f) == [i \in 0 .. BitLength(k) |-> IF i = 0 THEN first ELSE After(f[i - 1], i - 1)]
           h == [s \in S \X Nat |-> After(s[1], s[2])]
<1>1. first \in S
  BY DEF Points, LoopStates
<1>2. ASSUME NEW s \in S, NEW i \in Nat PROVE After(s, i) \in S
  BY EcAddType, EcDoubleType DEF LoopStates
<1>3. \A s \in S, i \in Nat : h[<<s, i>>] = After(s, i)
  OBVIOUS
<1>4. StepFunction(S, h)
  <2> HIDE DEF S, After
  <2> QED BY <1>2 DEF StepFunction
<1> HIDE DEF S, first, After, h
<1>5. PICK f : Recursion(f, S, first, h)
  BY <1>1, <1>4, PrimitiveRecursion
<1>6. f \in [Nat -> S] /\ f[0] = first /\ \A i \in Nat : f[i + 1] = After(f[i], i)
  BY <1>3, <1>5 DEF Recursion
<1>7. BitLength(k) \in Nat
  BY BitLengthFacts
<1> DEFINE g == [i \in 0 .. BitLength(k) |-> f[i]]
<1>8. g = Step(g)
  <2>1. ASSUME NEW i \in 0 .. BitLength(k)
        PROVE  g[i] = IF i = 0 THEN first ELSE After(g[i - 1], i - 1)
    <3>1. CASE i = 0
      BY <1>6, <1>7, <3>1
    <3>2. CASE i # 0
      <4>1. i - 1 \in Nat /\ i - 1 \in 0 .. BitLength(k) /\ (i - 1) + 1 = i
        BY <1>7, <3>2
      <4>2. f[(i - 1) + 1] = After(f[i - 1], i - 1)
        BY <1>6, <4>1
      <4> QED BY <3>2, <4>1, <4>2
    <3> QED BY <3>1, <3>2
  <2>2. g = [i \in 0 .. BitLength(k) |-> g[i]]
    OBVIOUS
  <2> HIDE DEF g
  <2> QED BY <2>1, <2>2
<1> DEFINE Loop == CHOOSE l : l = Step(l)
<1>9. Loop = Step(Loop)
  <2> HIDE DEF g, Step
  <2> QED BY <1>8
<1>10. EcScalarMult(k, p) = Loop[BitLength(k)].result
  BY DEF EcScalarMult, After, first
<1> HIDE DEF Loop
<1>11. Loop[0] = first
  BY <1>7, <1>9
<1>12. ASSUME NEW i \in Nat, i < BitLength(k) PROVE Loop[i + 1] = LoopStep(k, Loop[i], i)
  <2>1. i + 1 \in 0 .. BitLength(k) /\ i + 1 # 0 /\ (i + 1) - 1 = i
    BY <1>7, <1>12
  <2>2. Loop[i + 1] = After(Loop[i], i)
    BY <1>9, <2>1
  <2> QED BY <2>2 DEF After, LoopStep
<1> QED BY <1>10, <1>11, <1>12 DEF first

LEMMA EcScalarMultType ==
  ASSUME NEW k \in Nat, NEW p \in Points
  PROVE  EcScalarMult(k, p) \in Points
<1>1. PICK loop : /\ loop[0] = [result |-> Infinity, addend |-> p]
                  /\ \A i \in Nat : i < BitLength(k) => loop[i + 1] = LoopStep(k, loop[i], i)
                  /\ EcScalarMult(k, p) = loop[BitLength(k)].result
  BY EcScalarMultLoop
<1>2. BitLength(k) \in Nat
  BY BitLengthFacts
<1> DEFINE T == {i \in Nat : i <= BitLength(k) => loop[i] \in LoopStates}
<1>3. 0 \in T
  BY <1>1 DEF LoopStates, Points
<1>4. ASSUME NEW i \in T \cap Nat PROVE i + 1 \in T
  <2> SUFFICES ASSUME i + 1 <= BitLength(k) PROVE loop[i + 1] \in LoopStates
    OBVIOUS
  <2>1. i < BitLength(k) /\ loop[i] \in LoopStates
    BY <1>2
  <2>2. loop[i + 1] = LoopStep(k, loop[i], i)
    BY <1>1, <2>1
  <2> QED BY <2>1, <2>2, EcAddType, EcDoubleType DEF LoopStep, LoopStates
<1> HIDE DEF T
<1>5. Nat \subseteq T
  BY <1>3, <1>4, SetInduction
<1>6. loop[BitLength(k)] \in LoopStates
  BY <1>2, <1>5 DEF T
<1> QED BY <1>1, <1>6 DEF LoopStates

LinePoints == [x : Field, z : Field]

LEMMA ScalarMultType ==
  ASSUME NEW k \in Nat, NEW p \in LinePoints
  PROVE  ScalarMult(k, p) \in LinePoints
<1>1. KummerInfinity \in LinePoints
  BY Closed DEF KummerInfinity, LinePoints
<1>2. ASSUME NEW x \in Field PROVE FromLegendreX(x) \in LinePoints
  <2>1. x \in Int /\ A2 \in Int /\ B2 \in Int
    BY Closed
  <2>2. Sub(x, 1) \in Int
    BY <2>1, Closed
  <2> QED BY <2>1, <2>2, Closed DEF FromLegendreX, LinePoints
<1> DEFINE x == ToLegendreX(p)
           y == Sqrt[Cubic(x)]
           multiple == EcScalarMult(k, <<x, y>>)
<1>3. x = None \/ x \in Field
  <2> DEFINE n == Mul(A2, p.x)
             d == Sub(n, Mul(B2, p.z))
  <2>1. p.x \in Int /\ p.z \in Int /\ A2 \in Int /\ B2 \in Int
    BY Closed DEF LinePoints
  <2>2. n \in Int /\ Mul(B2, p.z) \in Int
    BY <2>1, Closed
  <2>3. d \in Field
    BY <2>2, Closed
  <2>4. x = IF p.z = 0 \/ d = 0 THEN None ELSE Mul(n, Inv[d])
    BY DEF ToLegendreX
  <2> HIDE DEF n, d
  <2>5. d # 0 => Mul(n, Inv[d]) \in Field
    <3>1. d # 0 => Inv[d] \in Int
      BY <2>3, Closed
    <3> QED BY <2>2, <3>1, Closed DEF n
  <2> HIDE DEF x
  <2> QED BY <2>4, <2>5
<1>4. ScalarMult(k, p) =
        IF x = None \/ k = 0 THEN KummerInfinity
        ELSE IF y = None THEN KummerInfinity
        ELSE IF multiple = Infinity THEN KummerInfinity ELSE FromLegendreX(multiple[1])
  BY DEF ScalarMult
<1> HIDE DEF x
<1>5. CASE x = None \/ k = 0 \/ y = None \/ multiple = Infinity
  <2> HIDE DEF y, multiple
  <2> QED BY <1>1, <1>4, <1>5
<1>6. CASE ~ (x = None \/ k = 0 \/ y = None \/ multiple = Infinity)
  <2>1. x \in Field /\ Cubic(x) \in Field
    BY <1>3, <1>6, CubicModulo
  <2>2. y \in Field
    BY <1>6, <2>1, SqrtSquared
  <2>3. multiple \in Points
    <3> HIDE DEF y
    <3> QED BY <2>1, <2>2, EcScalarMultType DEF Points
  <2>4. multiple[1] \in Field
    <3> HIDE DEF multiple
    <3> QED BY <1>6, <2>3 DEF Points
  <2> HIDE DEF y, multiple
  <2> QED BY <1>2, <1>4, <1>6, <2>4
<1> QED BY <1>5, <1>6

LEMMA DecodeType ==
  ASSUME NEW p \in LinePoints
  PROVE  Decode(p) = None \/ Decode(p) \in 0 .. (P - 1) \div 2
<1> DEFINE a2x == Mul(A2, p.x)
           d == Sub(a2x, Mul(B2, p.z))
           num == Sub(a2x, Mul(LambdaPlusOne, d))
           h == Mul(num, U)
           g == Mul(Mul(Neg(a2x), U), num)
           r == Mul(Neg(a2x), Inv[h])
           root == Sqrt[r]
<1>1. p.x \in Int /\ p.z \in Int /\ A2 \in Int /\ B2 \in Int /\ LambdaPlusOne \in Int
  BY Closed DEF LinePoints
<1>2. a2x \in Field /\ a2x \in Int /\ Mul(B2, p.z) \in Int
  BY <1>1, Closed
<1>3. Neg(a2x) \in Int
  BY <1>2, NegModulo, FieldElements
<1>4. d \in Int
  BY <1>2, Closed
<1>5. num \in Int
  <2>1. Mul(LambdaPlusOne, d) \in Int
    BY <1>1, <1>4, Closed
  <2> QED BY <1>2, <2>1, Closed
<1>6. h \in Field /\ h \in Int
  BY <1>5, Closed DEF U
<1>7. Decode(p) \in {0, None} \/ (Chi[g] = 1 /\ root # None /\ Decode(p) = CanonicalRep(root))
  BY DEF Decode
<1>8. ASSUME Chi[g] = 1 PROVE h # 0
  <2> DEFINE m == Mul(Neg(a2x), U)
             o == Neg(a2x)
  <2>1. o \in Int /\ m \in Int
    BY <1>3, Closed DEF U
  <2>2. g \in Field /\ Divisible(g - m * num)
    BY <1>5, <2>1, MulModulo
  <2>3. Divisible(h - num * 2)
    BY <1>5, Closed, MulModulo DEF U
  <2>4. g \in Int /\ ~ Divisible(g)
    <3>1. g # 0
      BY <1>8, <2>2, ChiIsPower
    <3> QED BY <2>2, <3>1, NonzeroElement
  <2> HIDE DEF g, m, num
  <2> SUFFICES ASSUME h = 0 PROVE FALSE
    OBVIOUS
  <2>5. num * 2 \in Int /\ m * num \in Int
    BY <1>5, <2>1
  <2>6. Divisible(num * 2 - 0)
    BY <1>6, <2>3, <2>5, OppositeDivisible
  <2>7. Divisible(num)
    BY <1>5, <2>5, <2>6, PrimeDividesFactor, DivisibleElement, FieldElements
  <2>8. Divisible(Combine(m, num, 1, g - m * num))
    BY <1>5, <2>1, <2>2, <2>4, <2>5, <2>7, Combination
  <2>9. Combine(m, num, 1, g - m * num) = g
    BY <1>5, <2>1, <2>4 DEF Combine
  <2> QED BY <2>4, <2>8, <2>9
<1>9. ASSUME Chi[g] = 1, root # None PROVE root \in Field
  <2>1. Inv[h] \in Int
    <3> HIDE DEF h
    <3> QED BY <1>6, <1>8, <1>9, Closed
  <2>2. r \in Field
    <3> HIDE DEF a2x, h
    <3> QED BY <1>3, <2>1, Closed
  <2> HIDE DEF r
  <2> QED BY <1>9, <2>2, SqrtSquared
<1>10. \A a \in Field : CanonicalRep(a) \in 0 .. (P - 1) \div 2
  BY CanonicalRepFacts DEF Half
<1>11. 0 \in 0 .. (P - 1) \div 2
  BY HalfFacts DEF Half
<1> HIDE DEF root, g
<1> QED BY <1>7, <1>9, <1>10, <1>11

-------------------------------------------------------------------------------
(***************************************************************************)
(* Combinations of several multiples of P.                                 *)
(***************************************************************************)
Combine3(a, x, b, y, c, z) == Combine(a, x, 1, Combine(b, y, c, z))

LEMMA Combination3 ==
  ASSUME NEW x \in Int, NEW y \in Int, NEW z \in Int,
         NEW a \in Int, NEW b \in Int, NEW c \in Int,
         Divisible(x), Divisible(y), Divisible(z)
  PROVE  Divisible(Combine3(a, x, b, y, c, z))
<1>1. Combine(b, y, c, z) \in Int
  BY DEF Combine
<1>2. Divisible(Combine(b, y, c, z))
  BY Combination
<1> QED BY <1>1, <1>2, Combination DEF Combine3

Combine4(a, x, b, y, c, z, d, u) == Combine(a, x, 1, Combine3(b, y, c, z, d, u))

LEMMA Combination4 ==
  ASSUME NEW x \in Int, NEW y \in Int, NEW z \in Int, NEW u \in Int,
         NEW a \in Int, NEW b \in Int, NEW c \in Int, NEW d \in Int,
         Divisible(x), Divisible(y), Divisible(z), Divisible(u)
  PROVE  Divisible(Combine4(a, x, b, y, c, z, d, u))
<1>1. Combine3(b, y, c, z, d, u) \in Int
  BY DEF Combine3, Combine
<1>2. Divisible(Combine3(b, y, c, z, d, u))
  BY Combination3
<1> QED BY <1>1, <1>2, Combination DEF Combine4

Combine5(a, x, b, y, c, z, d, u, e, v) == Combine(a, x, 1, Combine4(b, y, c, z, d, u, e, v))

LEMMA Combination5 ==
  ASSUME NEW x \in Int, NEW y \in Int, NEW z \in Int, NEW u \in Int, NEW v \in Int,
         NEW a \in Int, NEW b \in Int, NEW c \in Int, NEW d \in Int, NEW e \in Int,
         Divisible(x), Divisible(y), Divisible(z), Divisible(u), Divisible(v)
  PROVE  Divisible(Combine5(a, x, b, y, c, z, d, u, e, v))
<1>1. Combine4(b, y, c, z, d, u, e, v) \in Int
  BY DEF Combine4, Combine3, Combine
<1>2. Divisible(Combine4(b, y, c, z, d, u, e, v))
  BY Combination4
<1> QED BY <1>1, <1>2, Combination DEF Combine5

-------------------------------------------------------------------------------
(***************************************************************************)
(* Lines and the curve, as congruences: the cubic ((x - 1) * (x - l)) * x  *)
(* minus the square of m * x + n has the roots a, b and c.                 *)
(***************************************************************************)
\* The slope of a chord relates the products of two roots with those of all.
LEMMA ChordProduct ==
  ASSUME NEW s \in Int, NEW t \in Int, NEW r \in Int, NEW m \in Int,
         NEW n \in Int, NEW l \in Int,
         Same((m * s + n) * (m * s + n), ((s - 1) * (s - l)) * s),
         Same((m * t + n) * (m * t + n), ((t - 1) * (t - l)) * t),
         Same((s + t) + r, m * m + (l + 1))
  PROVE  Same((s - t) * ((s * t + s * r) + t * r), (s - t) * (l - 2 * (m * n)))
<1> DEFINE A == ((m * s + n) * (m * s + n)) - (((s - 1) * (s - l)) * s)
           B == ((m * t + n) * (m * t + n)) - (((t - 1) * (t - l)) * t)
           C == ((s + t) + r) - (m * m + (l + 1))
           goal == ((s - t) * ((s * t + s * r) + t * r)) - ((s - t) * (l - 2 * (m * n)))
           k1 == 1
           k2 == 0 - 1
           k3 == (s - t) * (s + t)
<1>1. A \in Int /\ B \in Int /\ C \in Int /\ k1 \in Int /\ k2 \in Int /\ k3 \in Int
  OBVIOUS
<1>2. Divisible(A) /\ Divisible(B) /\ Divisible(C)
  BY DEF Same
<1>3. Combine3(k1, A, k2, B, k3, C) = goal
  BY DEF Combine3, Combine
<1> HIDE DEF A, B, C, goal, k1, k2, k3
<1>4. Divisible(Combine3(k1, A, k2, B, k3, C))
  BY <1>1, <1>2, Combination3
<1> QED BY <1>3, <1>4 DEF Same, goal

LEMMA ThirdRoot ==
  ASSUME NEW s \in Int, NEW t \in Int, NEW r \in Int, NEW m \in Int,
         NEW n \in Int, NEW l \in Int,
         Same((m * s + n) * (m * s + n), ((s - 1) * (s - l)) * s),
         Same((s + t) + r, m * m + (l + 1)),
         Same((s * t + s * r) + t * r, l - 2 * (m * n))
  PROVE  Same((s * t) * r, n * n)
<1> DEFINE A == ((m * s + n) * (m * s + n)) - (((s - 1) * (s - l)) * s)
           B == ((s + t) + r) - (m * m + (l + 1))
           C == ((s * t + s * r) + t * r) - (l - 2 * (m * n))
           goal == ((s * t) * r) - (n * n)
           k1 == 0 - 1
           k2 == 0 - (s * s)
<1>1. A \in Int /\ B \in Int /\ C \in Int /\ k1 \in Int /\ k2 \in Int
  OBVIOUS
<1>2. Divisible(A) /\ Divisible(B) /\ Divisible(C)
  BY DEF Same
<1>3. Combine3(k1, A, k2, B, s, C) = goal
  BY DEF Combine3, Combine
<1> HIDE DEF A, B, C, goal, k1, k2
<1>4. Divisible(Combine3(k1, A, k2, B, s, C))
  BY <1>1, <1>2, Combination3
<1> QED BY <1>3, <1>4 DEF Same, goal

LEMMA TangentSum ==
  ASSUME NEW s \in Int, NEW y \in Int, NEW r \in Int, NEW m \in Int,
         NEW n \in Int, NEW l \in Int,
         Same(2 * (m * y), (3 * (s * s) - 2 * ((l + 1) * s)) + l),
         Same(y, m * s + n),
         Same((s + s) + r, m * m + (l + 1))
  PROVE  Same((s * s + s * r) + s * r, l - 2 * (m * n))
<1> DEFINE A == (2 * (m * y)) - ((3 * (s * s) - 2 * ((l + 1) * s)) + l)
           B == (y) - (m * s + n)
           C == ((s + s) + r) - (m * m + (l + 1))
           goal == ((s * s + s * r) + s * r) - (l - 2 * (m * n))
           k1 == 1
           k2 == 0 - (2 * m)
           k3 == 2 * s
<1>1. A \in Int /\ B \in Int /\ C \in Int /\ k1 \in Int /\ k2 \in Int /\ k3 \in Int
  OBVIOUS
<1>2. Divisible(A) /\ Divisible(B) /\ Divisible(C)
  BY DEF Same
<1>3. Combine3(k1, A, k2, B, k3, C) = goal
  BY DEF Combine3, Combine
<1> HIDE DEF A, B, C, goal, k1, k2, k3
<1>4. Divisible(Combine3(k1, A, k2, B, k3, C))
  BY <1>1, <1>2, Combination3
<1> QED BY <1>3, <1>4 DEF Same, goal

LEMMA TangentSlope ==
  ASSUME NEW s \in Int, NEW y \in Int, NEW r \in Int, NEW m \in Int,
         NEW n \in Int, NEW l \in Int,
         Same(y, m * s + n),
         Same((s + s) + r, m * m + (l + 1)),
         Same((s * s + s * r) + s * r, l - 2 * (m * n))
  PROVE  Same(2 * (m * y), (3 * (s * s) - 2 * ((l + 1) * s)) + l)
<1> DEFINE A == (y) - (m * s + n)
           B == ((s + s) + r) - (m * m + (l + 1))
           C == ((s * s + s * r) + s * r) - (l - 2 * (m * n))
           goal == (2 * (m * y)) - ((3 * (s * s) - 2 * ((l + 1) * s)) + l)
           k1 == 2 * m
           k2 == 0 - (2 * s)
           k3 == 1
<1>1. A \in Int /\ B \in Int /\ C \in Int /\ k1 \in Int /\ k2 \in Int /\ k3 \in Int
  OBVIOUS
<1>2. Divisible(A) /\ Divisible(B) /\ Divisible(C)
  BY DEF Same
<1>3. Combine3(k1, A, k2, B, k3, C) = goal
  BY DEF Combine3, Combine
<1> HIDE DEF A, B, C, goal, k1, k2, k3
<1>4. Divisible(Combine3(k1, A, k2, B, k3, C))
  BY <1>1, <1>2, Combination3
<1> QED BY <1>3, <1>4 DEF Same, goal

\* The cubic has no double root.
LEMMA SingularZero ==
  ASSUME NEW s \in Int, NEW l \in Int,
         Same(s, 0),
         Same((3 * (s * s) - 2 * ((l + 1) * s)) + l, 0)
  PROVE  Same(l, 0)
<1> DEFINE A == (s) - (0)
           B == ((3 * (s * s) - 2 * ((l + 1) * s)) + l) - (0)
           goal == (l) - (0)
           k1 == 0 - (3 * s - 2 * (l + 1))
           k2 == 1
<1>1. A \in Int /\ B \in Int /\ k1 \in Int /\ k2 \in Int
  OBVIOUS
<1>2. Divisible(A) /\ Divisible(B)
  BY DEF Same
<1>3. Combine(k1, A, k2, B) = goal
  BY DEF Combine
<1> HIDE DEF A, B, goal, k1, k2
<1>4. Divisible(Combine(k1, A, k2, B))
  BY <1>1, <1>2, Combination
<1> QED BY <1>3, <1>4 DEF Same, goal

LEMMA SingularOne ==
  ASSUME NEW s \in Int, NEW l \in Int,
         Same(s, 1),
         Same((3 * (s * s) - 2 * ((l + 1) * s)) + l, 0)
  PROVE  Same(l, 1)
<1> DEFINE A == (s) - (1)
           B == ((3 * (s * s) - 2 * ((l + 1) * s)) + l) - (0)
           goal == (l) - (1)
           k1 == (3 * s + 3) - 2 * (l + 1)
           k2 == 0 - 1
<1>1. A \in Int /\ B \in Int /\ k1 \in Int /\ k2 \in Int
  OBVIOUS
<1>2. Divisible(A) /\ Divisible(B)
  BY DEF Same
<1>3. Combine(k1, A, k2, B) = goal
  BY DEF Combine
<1> HIDE DEF A, B, goal, k1, k2
<1>4. Divisible(Combine(k1, A, k2, B))
  BY <1>1, <1>2, Combination
<1> QED BY <1>3, <1>4 DEF Same, goal

LEMMA SingularLambda ==
  ASSUME NEW s \in Int, NEW l \in Int,
         Same(s, l),
         Same((3 * (s * s) - 2 * ((l + 1) * s)) + l, 0)
  PROVE  Same(l * (l - 1), 0)
<1> DEFINE A == (s) - (l)
           B == ((3 * (s * s) - 2 * ((l + 1) * s)) + l) - (0)
           goal == (l * (l - 1)) - (0)
           k1 == 0 - ((3 * s + 3 * l) - 2 * (l + 1))
           k2 == 1
<1>1. A \in Int /\ B \in Int /\ k1 \in Int /\ k2 \in Int
  OBVIOUS
<1>2. Divisible(A) /\ Divisible(B)
  BY DEF Same
<1>3. Combine(k1, A, k2, B) = goal
  BY DEF Combine
<1> HIDE DEF A, B, goal, k1, k2
<1>4. Divisible(Combine(k1, A, k2, B))
  BY <1>1, <1>2, Combination
<1> QED BY <1>3, <1>4 DEF Same, goal

-------------------------------------------------------------------------------
(***************************************************************************)
(* Two lines that meet at opposite points, together: a conic.              *)
(***************************************************************************)
LEMMA MeetingLines ==
  ASSUME NEW u \in Int, NEW v \in Int, NEW k \in Int, NEW m \in Int,
         NEW n \in Int, NEW d \in Int, NEW e \in Int,
         Same(0 - v, k * u + m),
         Same(v, n * u + e),
         Same(d, k + n)
  PROVE  Same(m + e, 0 - (d * u))
<1> DEFINE A == (0 - v) - (k * u + m)
           B == (v) - (n * u + e)
           C == (d) - (k + n)
           goal == (m + e) - (0 - (d * u))
           k1 == 0 - 1
           k2 == 0 - 1
<1>1. A \in Int /\ B \in Int /\ C \in Int /\ k1 \in Int /\ k2 \in Int
  OBVIOUS
<1>2. Divisible(A) /\ Divisible(B) /\ Divisible(C)
  BY DEF Same
<1>3. Combine3(k1, A, k2, B, u, C) = goal
  BY DEF Combine3, Combine
<1> HIDE DEF A, B, C, goal, k1, k2
<1>4. Divisible(Combine3(k1, A, k2, B, u, C))
  BY <1>1, <1>2, Combination3
<1> QED BY <1>3, <1>4 DEF Same, goal

RootSum(p, q, u, m, e) == Same((p + q) + u, m * m + e)

RootPairs(p, q, u, x, y, l) == Same((p * q + p * u) + q * u, l - 2 * (x * y))

LinesMeet(m1, n1, m2, n2, u) == Same(n1 + n2, 0 - ((m1 + m2) * u))

Leading(b, d, m, x, y) == Same(b, d * m - (x + y))

\* The coefficients of the conic are the same from either line.
LEMMA ConicLinear ==
  ASSUME NEW p \in Int, NEW q \in Int, NEW u \in Int, NEW s \in Int,
         NEW w \in Int, NEW e \in Int, NEW m1 \in Int, NEW m2 \in Int,
         NEW d \in Int, NEW b \in Int,
         RootSum(p, q, u, m1, e),
         RootSum(u, s, w, m2, e),
         Same(d, m1 + m2),
         Leading(b, d, m1, p, q)
  PROVE  Leading(b, d, m2, s, w)
<1> DEFINE A == ((p + q) + u) - (m1 * m1 + e)
           B == ((u + s) + w) - (m2 * m2 + e)
           C == (d) - (m1 + m2)
           D == (b) - (d * m1 - (p + q))
           goal == (b) - (d * m2 - (s + w))
           k1 == 0 - 1
           k2 == 1
           k3 == m1 - m2
           k4 == 1
<1>1. A \in Int /\ B \in Int /\ C \in Int /\ D \in Int /\ k1 \in Int /\ k2 \in Int /\ k3 \in Int /\ k4 \in Int
  OBVIOUS
<1>2. Divisible(A) /\ Divisible(B) /\ Divisible(C) /\ Divisible(D)
  BY DEF Same, RootSum, Leading
<1>3. Combine4(k1, A, k2, B, k3, C, k4, D) = goal
  BY DEF Combine4, Combine3, Combine
<1> HIDE DEF A, B, C, D, goal, k1, k2, k3, k4
<1>4. Divisible(Combine4(k1, A, k2, B, k3, C, k4, D))
  BY <1>1, <1>2, Combination4
<1> QED BY <1>3, <1>4 DEF Same, goal, Leading

LEMMA ConicProduct ==
  ASSUME NEW p \in Int, NEW q \in Int, NEW u \in Int, NEW s \in Int,
         NEW w \in Int, NEW l \in Int, NEW m1 \in Int, NEW n1 \in Int,
         NEW m2 \in Int, NEW n2 \in Int,
         NEW e \in Int,
         RootPairs(p, q, u, m1, n1, l), RootPairs(u, s, w, m2, n2, l),
         RootSum(p, q, u, m1, e), RootSum(u, s, w, m2, e),
         LinesMeet(m1, n1, m2, n2, u)
  PROVE  Same(p * q + (m1 + m2) * n1, s * w + (m1 + m2) * n2)
<1> DEFINE A == ((p * q + p * u) + q * u) - (l - 2 * (m1 * n1))
           B == ((u * s + u * w) + s * w) - (l - 2 * (m2 * n2))
           C == ((p + q) + u) - (m1 * m1 + e)
           D == ((u + s) + w) - (m2 * m2 + e)
           E == (n1 + n2) - (0 - ((m1 + m2) * u))
           goal == (p * q + (m1 + m2) * n1) - (s * w + (m1 + m2) * n2)
           k1 == 1
           k2 == 0 - 1
           k3 == 0 - u
           k5 == m2 - m1
<1>1. A \in Int /\ B \in Int /\ C \in Int /\ D \in Int /\ E \in Int /\ k1 \in Int /\ k2 \in Int /\ k3 \in Int /\ k5 \in Int
  OBVIOUS
<1>2. Divisible(A) /\ Divisible(B) /\ Divisible(C) /\ Divisible(D) /\ Divisible(E)
  BY DEF Same, RootPairs, RootSum, LinesMeet
<1>3. Combine5(k1, A, k2, B, k3, C, u, D, k5, E) = goal
  BY DEF Combine5, Combine4, Combine3, Combine
<1> HIDE DEF A, B, C, D, E, goal, k1, k2, k3, k5
<1>4. Divisible(Combine5(k1, A, k2, B, k3, C, u, D, k5, E))
  BY <1>1, <1>2, Combination5
<1> QED BY <1>3, <1>4 DEF Same, goal

LEMMA ConicAtRoot ==
  ASSUME NEW p \in Int, NEW q \in Int, NEW y \in Int, NEW m \in Int,
         NEW n \in Int, NEW b \in Int, NEW c \in Int, NEW d \in Int,
         Same(b, d * m - (p + q)),
         Same(c, p * q + d * n),
         Same(y, m * p + n)
  PROVE  Same((p * p + b * p) + c, d * y)
<1> DEFINE A == (b) - (d * m - (p + q))
           B == (c) - (p * q + d * n)
           C == (y) - (m * p + n)
           goal == ((p * p + b * p) + c) - (d * y)
           k2 == 1
           k3 == 0 - d
<1>1. A \in Int /\ B \in Int /\ C \in Int /\ k2 \in Int /\ k3 \in Int
  OBVIOUS
<1>2. Divisible(A) /\ Divisible(B) /\ Divisible(C)
  BY DEF Same
<1>3. Combine3(p, A, k2, B, k3, C) = goal
  BY DEF Combine3, Combine
<1> HIDE DEF A, B, C, goal, k2, k3
<1>4. Divisible(Combine3(p, A, k2, B, k3, C))
  BY <1>1, <1>2, Combination3
<1> QED BY <1>3, <1>4 DEF Same, goal

LEMMA ConicElsewhere ==
  ASSUME NEW x \in Int, NEW y \in Int, NEW p \in Int, NEW q \in Int,
         NEW m \in Int, NEW n \in Int, NEW b \in Int, NEW c \in Int,
         NEW d \in Int,
         Same(b, d * m - (p + q)),
         Same(c, p * q + d * n),
         Same((x * x + b * x) + c, d * y)
  PROVE  Same(d * (y - (m * x + n)), (x - p) * (x - q))
<1> DEFINE A == (b) - (d * m - (p + q))
           B == (c) - (p * q + d * n)
           C == ((x * x + b * x) + c) - (d * y)
           goal == (d * (y - (m * x + n))) - ((x - p) * (x - q))
           k2 == 1
           k3 == 0 - 1
<1>1. A \in Int /\ B \in Int /\ C \in Int /\ k2 \in Int /\ k3 \in Int
  OBVIOUS
<1>2. Divisible(A) /\ Divisible(B) /\ Divisible(C)
  BY DEF Same
<1>3. Combine3(x, A, k2, B, k3, C) = goal
  BY DEF Combine3, Combine
<1> HIDE DEF A, B, C, goal, k2, k3
<1>4. Divisible(Combine3(x, A, k2, B, k3, C))
  BY <1>1, <1>2, Combination3
<1> QED BY <1>3, <1>4 DEF Same, goal

LEMMA ConicSum ==
  ASSUME NEW p \in Int, NEW q \in Int, NEW s \in Int, NEW w \in Int,
         NEW m1 \in Int, NEW m2 \in Int, NEW b \in Int, NEW d \in Int,
         Same(b, d * m1 - (p + q)),
         Same(b, d * m2 - (s + w)),
         Same(d, m1 + m2)
  PROVE  Same(2 * b, d * d - ((p + q) + (s + w)))
<1> DEFINE A == (b) - (d * m1 - (p + q))
           B == (b) - (d * m2 - (s + w))
           C == (d) - (m1 + m2)
           goal == (2 * b) - (d * d - ((p + q) + (s + w)))
           k1 == 1
           k2 == 1
           k3 == 0 - d
<1>1. A \in Int /\ B \in Int /\ C \in Int /\ k1 \in Int /\ k2 \in Int /\ k3 \in Int
  OBVIOUS
<1>2. Divisible(A) /\ Divisible(B) /\ Divisible(C)
  BY DEF Same
<1>3. Combine3(k1, A, k2, B, k3, C) = goal
  BY DEF Combine3, Combine
<1> HIDE DEF A, B, C, goal, k1, k2, k3
<1>4. Divisible(Combine3(k1, A, k2, B, k3, C))
  BY <1>1, <1>2, Combination3
<1> QED BY <1>3, <1>4 DEF Same, goal

LEMMA ConicDifference ==
  ASSUME NEW x \in Int, NEW y \in Int, NEW b \in Int, NEW c \in Int,
         NEW d \in Int, NEW b2 \in Int, NEW c2 \in Int, NEW d2 \in Int,
         Same((x * x + b * x) + c, d * y),
         Same((x * x + b2 * x) + c2, d2 * y)
  PROVE  Same((b - b2) * x + (c - c2), (d - d2) * y)
<1> DEFINE A == ((x * x + b * x) + c) - (d * y)
           B == ((x * x + b2 * x) + c2) - (d2 * y)
           goal == ((b - b2) * x + (c - c2)) - ((d - d2) * y)
           k1 == 1
           k2 == 0 - 1
<1>1. A \in Int /\ B \in Int /\ k1 \in Int /\ k2 \in Int
  OBVIOUS
<1>2. Divisible(A) /\ Divisible(B)
  BY DEF Same
<1>3. Combine(k1, A, k2, B) = goal
  BY DEF Combine
<1> HIDE DEF A, B, goal, k1, k2
<1>4. Divisible(Combine(k1, A, k2, B))
  BY <1>1, <1>2, Combination
<1> QED BY <1>3, <1>4 DEF Same, goal

\* If b * x + c = d * y holds at two points of a line, d times its slope is b.
LEMMA SlopeProduct ==
  ASSUME NEW p \in Int, NEW y \in Int, NEW q \in Int, NEW z \in Int,
         NEW m \in Int, NEW n \in Int, NEW b \in Int, NEW c \in Int,
         NEW d \in Int,
         Same(b * p + c, d * y),
         Same(b * q + c, d * z),
         Same(y, m * p + n),
         Same(z, m * q + n)
  PROVE  Same((p - q) * (b - d * m), 0)
<1> DEFINE A == (b * p + c) - (d * y)
           B == (b * q + c) - (d * z)
           C == (y) - (m * p + n)
           D == (z) - (m * q + n)
           goal == ((p - q) * (b - d * m)) - (0)
           k1 == 1
           k2 == 0 - 1
           k4 == 0 - d
<1>1. A \in Int /\ B \in Int /\ C \in Int /\ D \in Int /\ k1 \in Int /\ k2 \in Int /\ k4 \in Int
  OBVIOUS
<1>2. Divisible(A) /\ Divisible(B) /\ Divisible(C) /\ Divisible(D)
  BY DEF Same
<1>3. Combine4(k1, A, k2, B, d, C, k4, D) = goal
  BY DEF Combine4, Combine3, Combine
<1> HIDE DEF A, B, C, D, goal, k1, k2, k4
<1>4. Divisible(Combine4(k1, A, k2, B, d, C, k4, D))
  BY <1>1, <1>2, Combination4
<1> QED BY <1>3, <1>4 DEF Same, goal

LEMMA SlopeIntercept ==
  ASSUME NEW p \in Int, NEW y \in Int, NEW m \in Int, NEW n \in Int,
         NEW b \in Int, NEW c \in Int, NEW d \in Int,
         Same(b * p + c, d * y),
         Same(y, m * p + n),
         Same(b, d * m)
  PROVE  Same(c, d * n)
<1> DEFINE A == (b * p + c) - (d * y)
           B == (y) - (m * p + n)
           C == (b) - (d * m)
           goal == (c) - (d * n)
           k1 == 1
           k3 == 0 - p
<1>1. A \in Int /\ B \in Int /\ C \in Int /\ k1 \in Int /\ k3 \in Int
  OBVIOUS
<1>2. Divisible(A) /\ Divisible(B) /\ Divisible(C)
  BY DEF Same
<1>3. Combine3(k1, A, d, B, k3, C) = goal
  BY DEF Combine3, Combine
<1> HIDE DEF A, B, C, goal, k1, k3
<1>4. Divisible(Combine3(k1, A, d, B, k3, C))
  BY <1>1, <1>2, Combination3
<1> QED BY <1>3, <1>4 DEF Same, goal

LEMMA SlopeElsewhere ==
  ASSUME NEW s \in Int, NEW z \in Int, NEW m \in Int, NEW n \in Int,
         NEW b \in Int, NEW c \in Int, NEW d \in Int,
         Same(b * s + c, d * z),
         Same(b, d * m),
         Same(c, d * n)
  PROVE  Same(d * (z - (m * s + n)), 0)
<1> DEFINE A == (b * s + c) - (d * z)
           B == (b) - (d * m)
           C == (c) - (d * n)
           goal == (d * (z - (m * s + n))) - (0)
           k1 == 0 - 1
           k3 == 1
<1>1. A \in Int /\ B \in Int /\ C \in Int /\ k1 \in Int /\ k3 \in Int
  OBVIOUS
<1>2. Divisible(A) /\ Divisible(B) /\ Divisible(C)
  BY DEF Same
<1>3. Combine3(k1, A, s, B, k3, C) = goal
  BY DEF Combine3, Combine
<1> HIDE DEF A, B, C, goal, k1, k3
<1>4. Divisible(Combine3(k1, A, s, B, k3, C))
  BY <1>1, <1>2, Combination3
<1> QED BY <1>3, <1>4 DEF Same, goal

LEMMA TangentDerivative ==
  ASSUME NEW p \in Int, NEW y \in Int, NEW s \in Int, NEW v \in Int,
         NEW m \in Int, NEW n \in Int, NEW l \in Int,
         Same((p + s) + v, m * m + (l + 1)),
         Same((p * s + p * v) + s * v, l - 2 * (m * n)),
         Same(y, m * p + n)
  PROVE  Same((3 * (p * p) - 2 * ((l + 1) * p)) + l, 2 * (m * y) + (p - s) * (p - v))
<1> DEFINE A == ((p + s) + v) - (m * m + (l + 1))
           B == ((p * s + p * v) + s * v) - (l - 2 * (m * n))
           C == (y) - (m * p + n)
           goal == ((3 * (p * p) - 2 * ((l + 1) * p)) + l) - (2 * (m * y) + (p - s) * (p - v))
           k1 == 2 * p
           k2 == 0 - 1
           k3 == 0 - (2 * m)
<1>1. A \in Int /\ B \in Int /\ C \in Int /\ k1 \in Int /\ k2 \in Int /\ k3 \in Int
  OBVIOUS
<1>2. Divisible(A) /\ Divisible(B) /\ Divisible(C)
  BY DEF Same
<1>3. Combine3(k1, A, k2, B, k3, C) = goal
  BY DEF Combine3, Combine
<1> HIDE DEF A, B, C, goal, k1, k2, k3
<1>4. Divisible(Combine3(k1, A, k2, B, k3, C))
  BY <1>1, <1>2, Combination3
<1> QED BY <1>3, <1>4 DEF Same, goal

LEMMA TwoLinesAtPoint ==
  ASSUME NEW p \in Int, NEW y \in Int, NEW v \in Int, NEW m \in Int,
         NEW n \in Int, NEW k \in Int, NEW e \in Int, NEW d \in Int,
         Same(y, m * p + n),
         Same(y, k * p + e),
         Same(n + e, 0 - (d * v)),
         Same(d, m + k)
  PROVE  Same(2 * y, d * (p - v))
<1> DEFINE A == (y) - (m * p + n)
           B == (y) - (k * p + e)
           C == (n + e) - (0 - (d * v))
           D == (d) - (m + k)
           goal == (2 * y) - (d * (p - v))
           k1 == 1
           k2 == 1
           k3 == 1
           k4 == 0 - p
<1>1. A \in Int /\ B \in Int /\ C \in Int /\ D \in Int /\ k1 \in Int /\ k2 \in Int /\ k3 \in Int /\ k4 \in Int
  OBVIOUS
<1>2. Divisible(A) /\ Divisible(B) /\ Divisible(C) /\ Divisible(D)
  BY DEF Same
<1>3. Combine4(k1, A, k2, B, k3, C, k4, D) = goal
  BY DEF Combine4, Combine3, Combine
<1> HIDE DEF A, B, C, D, goal, k1, k2, k3, k4
<1>4. Divisible(Combine4(k1, A, k2, B, k3, C, k4, D))
  BY <1>1, <1>2, Combination4
<1> QED BY <1>3, <1>4 DEF Same, goal

LEMMA TangentQuotient ==
  ASSUME NEW p \in Int, NEW y \in Int, NEW s \in Int, NEW v \in Int,
         NEW m \in Int, NEW k \in Int, NEW d \in Int, NEW f \in Int,
         Same(2 * (m * y), f),
         Same(f, 2 * (k * y) + (p - s) * (p - v)),
         Same(2 * y, d * (p - v))
  PROVE  Same((p - v) * (d * (m - k) - (p - s)), 0)
<1> DEFINE A == (2 * (m * y)) - (f)
           B == (f) - (2 * (k * y) + (p - s) * (p - v))
           C == (2 * y) - (d * (p - v))
           goal == ((p - v) * (d * (m - k) - (p - s))) - (0)
           k1 == 1
           k2 == 1
           k3 == 0 - (m - k)
<1>1. A \in Int /\ B \in Int /\ C \in Int /\ k1 \in Int /\ k2 \in Int /\ k3 \in Int
  OBVIOUS
<1>2. Divisible(A) /\ Divisible(B) /\ Divisible(C)
  BY DEF Same
<1>3. Combine3(k1, A, k2, B, k3, C) = goal
  BY DEF Combine3, Combine
<1> HIDE DEF A, B, C, goal, k1, k2, k3
<1>4. Divisible(Combine3(k1, A, k2, B, k3, C))
  BY <1>1, <1>2, Combination3
<1> QED BY <1>3, <1>4 DEF Same, goal

LEMMA TangentDifference ==
  ASSUME NEW p \in Int, NEW s \in Int, NEW m \in Int, NEW k \in Int,
         NEW b \in Int, NEW d \in Int, NEW b2 \in Int, NEW d2 \in Int,
         Same(b, d * m - (p + p)),
         Same(b2, d2 * k - (p + s)),
         Same(d2 * (m - k), p - s)
  PROVE  Same(b - b2, (d - d2) * m)
<1> DEFINE A == (b) - (d * m - (p + p))
           B == (b2) - (d2 * k - (p + s))
           C == (d2 * (m - k)) - (p - s)
           goal == (b - b2) - ((d - d2) * m)
           k1 == 1
           k2 == 0 - 1
           k3 == 1
<1>1. A \in Int /\ B \in Int /\ C \in Int /\ k1 \in Int /\ k2 \in Int /\ k3 \in Int
  OBVIOUS
<1>2. Divisible(A) /\ Divisible(B) /\ Divisible(C)
  BY DEF Same
<1>3. Combine3(k1, A, k2, B, k3, C) = goal
  BY DEF Combine3, Combine
<1> HIDE DEF A, B, C, goal, k1, k2, k3
<1>4. Divisible(Combine3(k1, A, k2, B, k3, C))
  BY <1>1, <1>2, Combination3
<1> QED BY <1>3, <1>4 DEF Same, goal

LEMMA EqualSums ==
  ASSUME NEW p \in Int, NEW q \in Int, NEW s \in Int, NEW w \in Int,
         NEW z \in Int, NEW b \in Int, NEW d \in Int, NEW b2 \in Int,
         NEW d2 \in Int,
         Same(2 * b, d * d - ((p + q) + (s + w))),
         Same(2 * b2, d2 * d2 - ((q + s) + (p + z))),
         Same(b, b2),
         Same(d, d2)
  PROVE  Same(w, z)
<1> DEFINE A == (2 * b) - (d * d - ((p + q) + (s + w)))
           B == (2 * b2) - (d2 * d2 - ((q + s) + (p + z)))
           C == (b) - (b2)
           D == (d) - (d2)
           goal == (w) - (z)
           k1 == 1
           k2 == 0 - 1
           k3 == 0 - 2
           k4 == d + d2
<1>1. A \in Int /\ B \in Int /\ C \in Int /\ D \in Int /\ k1 \in Int /\ k2 \in Int /\ k3 \in Int /\ k4 \in Int
  OBVIOUS
<1>2. Divisible(A) /\ Divisible(B) /\ Divisible(C) /\ Divisible(D)
  BY DEF Same
<1>3. Combine4(k1, A, k2, B, k3, C, k4, D) = goal
  BY DEF Combine4, Combine3, Combine
<1> HIDE DEF A, B, C, D, goal, k1, k2, k3, k4
<1>4. Divisible(Combine4(k1, A, k2, B, k3, C, k4, D))
  BY <1>1, <1>2, Combination4
<1> QED BY <1>3, <1>4 DEF Same, goal

LEMMA EqualOrdinates ==
  ASSUME NEW x \in Int, NEW y \in Int, NEW z \in Int, NEW b \in Int,
         NEW c \in Int, NEW d \in Int, NEW b2 \in Int, NEW c2 \in Int,
         NEW d2 \in Int,
         Same((x * x + b * x) + c, d * y),
         Same((x * x + b2 * x) + c2, d2 * z),
         Same(b, b2),
         Same(c, c2),
         Same(d, d2)
  PROVE  Same(d * (y - z), 0)
<1> DEFINE A == ((x * x + b * x) + c) - (d * y)
           B == ((x * x + b2 * x) + c2) - (d2 * z)
           C == (b) - (b2)
           D == (c) - (c2)
           E == (d) - (d2)
           goal == (d * (y - z)) - (0)
           k1 == 0 - 1
           k2 == 1
           k4 == 1
           k5 == 0 - z
<1>1. A \in Int /\ B \in Int /\ C \in Int /\ D \in Int /\ E \in Int /\ k1 \in Int /\ k2 \in Int /\ k4 \in Int /\ k5 \in Int
  OBVIOUS
<1>2. Divisible(A) /\ Divisible(B) /\ Divisible(C) /\ Divisible(D) /\ Divisible(E)
  BY DEF Same
<1>3. Combine5(k1, A, k2, B, x, C, k4, D, k5, E) = goal
  BY DEF Combine5, Combine4, Combine3, Combine
<1> HIDE DEF A, B, C, D, E, goal, k1, k2, k4, k5
<1>4. Divisible(Combine5(k1, A, k2, B, x, C, k4, D, k5, E))
  BY <1>1, <1>2, Combination5
<1> QED BY <1>3, <1>4 DEF Same, goal

-------------------------------------------------------------------------------
(***************************************************************************)
(* Points of lines.                                                        *)
(***************************************************************************)
LEMMA ChordOn ==
  ASSUME NEW a \in Int, NEW b \in Int, NEW c \in Int, NEW d \in Int,
         NEW m \in Int, NEW n \in Int,
         Same(m * (c - a), d - b),
         Same(n, b - m * a)
  PROVE  Same(d, m * c + n)
<1> DEFINE A == (m * (c - a)) - (d - b)
           B == (n) - (b - m * a)
           goal == (d) - (m * c + n)
           k1 == 0 - 1
           k2 == 0 - 1
<1>1. A \in Int /\ B \in Int /\ k1 \in Int /\ k2 \in Int
  OBVIOUS
<1>2. Divisible(A) /\ Divisible(B)
  BY DEF Same
<1>3. Combine(k1, A, k2, B) = goal
  BY DEF Combine
<1> HIDE DEF A, B, goal, k1, k2
<1>4. Divisible(Combine(k1, A, k2, B))
  BY <1>1, <1>2, Combination
<1> QED BY <1>3, <1>4 DEF Same, goal

LEMMA ReflectionOn ==
  ASSUME NEW a \in Int, NEW b \in Int, NEW x \in Int, NEW y \in Int,
         NEW z \in Int, NEW m \in Int, NEW n \in Int,
         Same(z, 0 - y),
         Same(y, m * (a - x) - b),
         Same(n, b - m * a)
  PROVE  Same(z, m * x + n)
<1> DEFINE A == (z) - (0 - y)
           B == (y) - (m * (a - x) - b)
           C == (n) - (b - m * a)
           goal == (z) - (m * x + n)
           k1 == 1
           k2 == 0 - 1
           k3 == 0 - 1
<1>1. A \in Int /\ B \in Int /\ C \in Int /\ k1 \in Int /\ k2 \in Int /\ k3 \in Int
  OBVIOUS
<1>2. Divisible(A) /\ Divisible(B) /\ Divisible(C)
  BY DEF Same
<1>3. Combine3(k1, A, k2, B, k3, C) = goal
  BY DEF Combine3, Combine
<1> HIDE DEF A, B, C, goal, k1, k2, k3
<1>4. Divisible(Combine3(k1, A, k2, B, k3, C))
  BY <1>1, <1>2, Combination3
<1> QED BY <1>3, <1>4 DEF Same, goal

LEMMA SquareOnLine ==
  ASSUME NEW x \in Int, NEW y \in Int, NEW m \in Int, NEW n \in Int,
         NEW f \in Int,
         Same(y, m * x + n),
         Same(y * y, f)
  PROVE  Same((m * x + n) * (m * x + n), f)
<1> DEFINE A == (y) - (m * x + n)
           B == (y * y) - (f)
           goal == ((m * x + n) * (m * x + n)) - (f)
           k1 == 0 - (y + (m * x + n))
           k2 == 1
<1>1. A \in Int /\ B \in Int /\ k1 \in Int /\ k2 \in Int
  OBVIOUS
<1>2. Divisible(A) /\ Divisible(B)
  BY DEF Same
<1>3. Combine(k1, A, k2, B) = goal
  BY DEF Combine
<1> HIDE DEF A, B, goal, k1, k2
<1>4. Divisible(Combine(k1, A, k2, B))
  BY <1>1, <1>2, Combination
<1> QED BY <1>3, <1>4 DEF Same, goal

LEMMA ThirdOnCurve ==
  ASSUME NEW x \in Int, NEW y \in Int, NEW m \in Int, NEW n \in Int,
         NEW l \in Int, NEW a \in Int, NEW b \in Int,
         Same((a + b) + x, m * m + (l + 1)),
         Same((a * b + a * x) + b * x, l - 2 * (m * n)),
         Same((a * b) * x, n * n),
         Same(y, m * x + n)
  PROVE  Same(y * y, ((x - 1) * (x - l)) * x)
<1> DEFINE A == ((a + b) + x) - (m * m + (l + 1))
           B == ((a * b + a * x) + b * x) - (l - 2 * (m * n))
           C == ((a * b) * x) - (n * n)
           D == (y) - (m * x + n)
           goal == (y * y) - (((x - 1) * (x - l)) * x)
           k1 == 0 - (x * x)
           k3 == 0 - 1
           k4 == y + (m * x + n)
<1>1. A \in Int /\ B \in Int /\ C \in Int /\ D \in Int /\ k1 \in Int /\ k3 \in Int /\ k4 \in Int
  OBVIOUS
<1>2. Divisible(A) /\ Divisible(B) /\ Divisible(C) /\ Divisible(D)
  BY DEF Same
<1>3. Combine4(k1, A, x, B, k3, C, k4, D) = goal
  BY DEF Combine4, Combine3, Combine
<1> HIDE DEF A, B, C, D, goal, k1, k3, k4
<1>4. Divisible(Combine4(k1, A, x, B, k3, C, k4, D))
  BY <1>1, <1>2, Combination4
<1> QED BY <1>3, <1>4 DEF Same, goal

LEMMA EqualThirds ==
  ASSUME NEW a \in Int, NEW b \in Int, NEW u \in Int, NEW r \in Int,
         NEW k \in Int, NEW m \in Int, NEW e \in Int,
         Same((a + b) + u, k * k + e),
         Same((a + b) + r, m * m + e),
         Same(k, m)
  PROVE  Same(u, r)
<1> DEFINE A == ((a + b) + u) - (k * k + e)
           B == ((a + b) + r) - (m * m + e)
           C == (k) - (m)
           goal == (u) - (r)
           k1 == 1
           k2 == 0 - 1
           k3 == k + m
<1>1. A \in Int /\ B \in Int /\ C \in Int /\ k1 \in Int /\ k2 \in Int /\ k3 \in Int
  OBVIOUS
<1>2. Divisible(A) /\ Divisible(B) /\ Divisible(C)
  BY DEF Same
<1>3. Combine3(k1, A, k2, B, k3, C) = goal
  BY DEF Combine3, Combine
<1> HIDE DEF A, B, C, goal, k1, k2, k3
<1>4. Divisible(Combine3(k1, A, k2, B, k3, C))
  BY <1>1, <1>2, Combination3
<1> QED BY <1>3, <1>4 DEF Same, goal

LEMMA OppositeThirds ==
  ASSUME NEW a \in Int, NEW b \in Int, NEW u \in Int, NEW v \in Int,
         NEW r \in Int, NEW t \in Int, NEW k \in Int, NEW m \in Int,
         NEW n \in Int,
         Same(v, k * (a - u) - b),
         Same(t, m * r + n),
         Same(b, m * a + n),
         Same(k, m),
         Same(u, r)
  PROVE  Same(v, 0 - t)
<1> DEFINE A == (v) - (k * (a - u) - b)
           B == (t) - (m * r + n)
           C == (b) - (m * a + n)
           D == (k) - (m)
           E == (u) - (r)
           goal == (v) - (0 - t)
           k1 == 1
           k2 == 1
           k3 == 0 - 1
           k4 == a - u
           k5 == 0 - m
<1>1. A \in Int /\ B \in Int /\ C \in Int /\ D \in Int /\ E \in Int /\ k1 \in Int /\ k2 \in Int /\ k3 \in Int /\ k4 \in Int /\ k5 \in Int
  OBVIOUS
<1>2. Divisible(A) /\ Divisible(B) /\ Divisible(C) /\ Divisible(D) /\ Divisible(E)
  BY DEF Same
<1>3. Combine5(k1, A, k2, B, k3, C, k4, D, k5, E) = goal
  BY DEF Combine5, Combine4, Combine3, Combine
<1> HIDE DEF A, B, C, D, E, goal, k1, k2, k3, k4, k5
<1>4. Divisible(Combine5(k1, A, k2, B, k3, C, k4, D, k5, E))
  BY <1>1, <1>2, Combination5
<1> QED BY <1>3, <1>4 DEF Same, goal

LEMMA ChordSlopes ==
  ASSUME NEW a \in Int, NEW b \in Int, NEW c \in Int, NEW d \in Int,
         NEW k \in Int, NEW m \in Int, NEW n \in Int,
         Same(k * (c - a), d - b),
         Same(b, m * a + n),
         Same(d, m * c + n)
  PROVE  Same((a - c) * k, (a - c) * m)
<1> DEFINE A == (k * (c - a)) - (d - b)
           B == (b) - (m * a + n)
           C == (d) - (m * c + n)
           goal == ((a - c) * k) - ((a - c) * m)
           k1 == 0 - 1
           k2 == 1
           k3 == 0 - 1
<1>1. A \in Int /\ B \in Int /\ C \in Int /\ k1 \in Int /\ k2 \in Int /\ k3 \in Int
  OBVIOUS
<1>2. Divisible(A) /\ Divisible(B) /\ Divisible(C)
  BY DEF Same
<1>3. Combine3(k1, A, k2, B, k3, C) = goal
  BY DEF Combine3, Combine
<1> HIDE DEF A, B, C, goal, k1, k2, k3
<1>4. Divisible(Combine3(k1, A, k2, B, k3, C))
  BY <1>1, <1>2, Combination3
<1> QED BY <1>3, <1>4 DEF Same, goal

LEMMA TangentSlopes ==
  ASSUME NEW b \in Int, NEW k \in Int, NEW m \in Int, NEW f \in Int,
         Same(2 * (k * b), f),
         Same(2 * (m * b), f)
  PROVE  Same((2 * b) * k, (2 * b) * m)
<1> DEFINE A == (2 * (k * b)) - (f)
           B == (2 * (m * b)) - (f)
           goal == ((2 * b) * k) - ((2 * b) * m)
           k1 == 1
           k2 == 0 - 1
<1>1. A \in Int /\ B \in Int /\ k1 \in Int /\ k2 \in Int
  OBVIOUS
<1>2. Divisible(A) /\ Divisible(B)
  BY DEF Same
<1>3. Combine(k1, A, k2, B) = goal
  BY DEF Combine
<1> HIDE DEF A, B, goal, k1, k2
<1>4. Divisible(Combine(k1, A, k2, B))
  BY <1>1, <1>2, Combination
<1> QED BY <1>3, <1>4 DEF Same, goal

LEMMA OppositeOn ==
  ASSUME NEW x \in Int, NEW y \in Int, NEW z \in Int, NEW m \in Int,
         NEW n \in Int,
         Same(z, 0 - y),
         Same(y, m * x + n)
  PROVE  Same(z, (0 - m) * x + (0 - n))
<1> DEFINE A == (z) - (0 - y)
           B == (y) - (m * x + n)
           goal == (z) - ((0 - m) * x + (0 - n))
           k1 == 1
           k2 == 0 - 1
<1>1. A \in Int /\ B \in Int /\ k1 \in Int /\ k2 \in Int
  OBVIOUS
<1>2. Divisible(A) /\ Divisible(B)
  BY DEF Same
<1>3. Combine(k1, A, k2, B) = goal
  BY DEF Combine
<1> HIDE DEF A, B, goal, k1, k2
<1>4. Divisible(Combine(k1, A, k2, B))
  BY <1>1, <1>2, Combination
<1> QED BY <1>3, <1>4 DEF Same, goal

LEMMA CancelFactor ==
  ASSUME NEW k \in Int, NEW x \in Int, NEW y \in Int, ~ Divisible(k), Same(k * x, k * y)
  PROVE  Same(x, y)
<1>1. k * x - k * y = k * (x - y) /\ x - y \in Int
  OBVIOUS
<1>2. Divisible(k * (x - y))
  BY <1>1 DEF Same
<1> QED BY <1>1, <1>2, PrimeDividesFactor DEF Same

-------------------------------------------------------------------------------
(***************************************************************************)
(* The points of the curve and the slope of the line that adds two.        *)
(***************************************************************************)
AffinePoints == Field \X Field

Opp(p) == IF p = Infinity THEN Infinity ELSE <<p[1], Neg(p[2])>>

CubicAt(x) == ((x - 1) * (x - Lambda)) * x

DerivativeAt(x) == (3 * (x * x) - 2 * ((Lambda + 1) * x)) + Lambda

LEMMA LambdaNotOne == ~ Divisible(Lambda - 1)
<1> DEFINE d == Sub(Sqr(A2), Sqr(B2))
           i == Inv[d]
           aa == A2 * A2
           bb == B2 * B2
<1>1. A2 \in Int /\ B2 \in Int /\ ~ Divisible(A2) /\ ~ Divisible(B2)
  BY LineFacts
<1>2. aa \in Int /\ bb \in Int
  BY <1>1
<1>3. /\ Sqr(A2) \in Field /\ Sqr(A2) \in Int /\ Same(Sqr(A2), aa)
      /\ Sqr(B2) \in Field /\ Sqr(B2) \in Int /\ Same(Sqr(B2), bb)
  BY <1>1, MulSame, SameReflexive DEF Sqr
<1>4. ~ Divisible(bb)
  BY <1>1, PrimeDividesFactor
<1> HIDE DEF aa, bb
<1>5. d \in Field /\ d \in Int /\ Same(d, aa - bb)
  BY <1>2, <1>3, SubSame
<1>6. d # 0
  <2>1. Same(d, Sqr(A2) - Sqr(B2))
    BY <1>3, SubSame, SameReflexive
  <2> SUFFICES ASSUME d = 0 PROVE FALSE
    OBVIOUS
  <2>2. Divisible(0 - (Sqr(A2) - Sqr(B2)))
    BY <2>1 DEF Same
  <2>3. 0 - (Sqr(A2) - Sqr(B2)) = Sqr(B2) - Sqr(A2)
    BY <1>3
  <2>4. Sqr(B2) = Sqr(A2)
    BY <1>3, <2>2, <2>3, SameElement
  <2> QED BY <2>4, FieldAssumption
<1>7. i \in Field /\ i \in Int /\ Divisible(d * i - 1)
  BY <1>5, <1>6, InvIsInverse, FieldElements
<1>8. Lambda = Mul(Sqr(A2), i)
  BY DEF Lambda
<1> HIDE DEF d, i
<1>9. Lambda \in Int /\ Same(Lambda, aa * i)
  BY <1>2, <1>3, <1>7, <1>8, MulSame, SameReflexive, LineFacts
<1> SUFFICES ASSUME Divisible(Lambda - 1) PROVE FALSE
  OBVIOUS
<1> DEFINE l == Lambda
           A == l - 1
           B == l - aa * i
           C == d * i - 1
           D == d - (aa - bb)
           k1 == d
           k2 == 0 - d
           k3 == 0 - aa
           k4 == 1
<1>10. l \in Int
  BY <1>9
<1> HIDE DEF l
<1>11. /\ A \in Int /\ B \in Int /\ C \in Int /\ D \in Int
       /\ k1 \in Int /\ k2 \in Int /\ k3 \in Int /\ k4 \in Int
  BY <1>2, <1>5, <1>7, <1>10
<1>12. Divisible(A) /\ Divisible(B) /\ Divisible(C) /\ Divisible(D)
  BY <1>5, <1>7, <1>9 DEF Same, l
<1>13. Combine4(k1, A, k2, B, k3, C, k4, D) = bb
  BY <1>2, <1>5, <1>7, <1>10 DEF Combine4, Combine3, Combine
<1> HIDE DEF A, B, C, D, k1, k2, k3, k4
<1>14. Divisible(Combine4(k1, A, k2, B, k3, C, k4, D))
  BY <1>11, <1>12, Combination4
<1> QED BY <1>4, <1>13, <1>14

\* The cubic and its derivative have no common root: tangents exist.
LEMMA CubicIsSmooth ==
  ASSUME NEW s \in Int, Divisible(CubicAt(s)), Divisible(DerivativeAt(s))
  PROVE  FALSE
<1> DEFINE l == Lambda
<1>1. l \in Int /\ ~ Divisible(l) /\ ~ Divisible(l - 1)
  BY LineFacts, LambdaNotOne
<1>2. Divisible(((s - 1) * (s - l)) * s)
  BY DEF CubicAt
<1>3. Same((3 * (s * s) - 2 * ((l + 1) * s)) + l, 0)
  <2> DEFINE x == DerivativeAt(s)
  <2>1. x \in Int
    BY <1>1 DEF DerivativeAt
  <2>2. Same(x, 0)
    <3> HIDE DEF x
    <3>1. x - 0 = x
      BY <2>1
    <3> QED BY <3>1 DEF Same, x
  <2> QED BY <2>2 DEF DerivativeAt
<1> HIDE DEF l
<1>4. \A x \in Int : x - 0 = x
  OBVIOUS
<1>5. s - 1 \in Int /\ s - l \in Int /\ l - 1 \in Int /\ (s - 1) * (s - l) \in Int /\ l * (l - 1) \in Int
  BY <1>1
<1>6. Divisible(s - 1) \/ Divisible(s - l) \/ Divisible(s)
  BY <1>2, <1>5, PrimeDividesFactor
<1>7. CASE Divisible(s)
  <2>1. Same(s, 0)
    BY <1>4, <1>7 DEF Same
  <2>2. Same(l, 0)
    BY <1>1, <1>3, <2>1, SingularZero
  <2> QED BY <1>1, <1>4, <2>2 DEF Same
<1>8. CASE Divisible(s - 1)
  <2>1. Same(s, 1)
    BY <1>8 DEF Same
  <2>2. Same(l, 1)
    BY <1>1, <1>3, <2>1, SingularOne
  <2> QED BY <1>1, <2>2 DEF Same
<1>9. CASE Divisible(s - l)
  <2>1. Same(s, l)
    BY <1>9 DEF Same
  <2>2. Same(l * (l - 1), 0)
    BY <1>1, <1>3, <2>1, SingularLambda
  <2>3. Divisible(l * (l - 1))
    BY <1>4, <1>5, <2>2 DEF Same
  <2> QED BY <1>1, <1>5, <2>3, PrimeDividesFactor
<1> QED BY <1>6, <1>7, <1>8, <1>9

LEMMA AffineFacts ==
  ASSUME NEW p \in AffinePoints
  PROVE  /\ p[1] \in Field /\ p[2] \in Field /\ p[1] \in Int /\ p[2] \in Int
         /\ p = <<p[1], p[2]>> /\ p # Infinity
<1>1. p[1] \in Field /\ p[2] \in Field /\ p = <<p[1], p[2]>>
  BY DEF AffinePoints
<1>2. p # Infinity
  BY <1>1 DEF Infinity
<1> QED BY <1>1, <1>2, FieldElements

LEMMA EqualPoints ==
  ASSUME NEW p \in AffinePoints, NEW q \in AffinePoints,
         Same(p[1], q[1]), Same(p[2], q[2])
  PROVE  p = q
<1>1. p[1] = q[1] /\ p[2] = q[2]
  BY AffineFacts, SameElements
<1> QED BY <1>1, AffineFacts

LEMMA OppFacts ==
  ASSUME NEW p \in AffinePoints
  PROVE  /\ Opp(p) \in AffinePoints /\ Opp(p)[1] = p[1]
         /\ Same(Opp(p)[2], 0 - p[2]) /\ Opp(Opp(p)) = p
<1>1. \A q \in AffinePoints : /\ Opp(q) \in AffinePoints /\ Opp(q)[1] = q[1]
                              /\ Same(Opp(q)[2], 0 - q[2])
  <2> TAKE q \in AffinePoints
  <2>1. q[1] \in Field /\ q[2] \in Int /\ q # Infinity
    BY AffineFacts
  <2>2. Opp(q) = <<q[1], Neg(q[2])>>
    BY <2>1 DEF Opp
  <2>3. Neg(q[2]) \in Field /\ Same(Neg(q[2]), 0 - q[2])
    BY <2>1, NegSame, SameReflexive
  <2> QED BY <2>1, <2>2, <2>3 DEF AffinePoints
<1> DEFINE o == Opp(p)
           r == Opp(o)
<1>2. o \in AffinePoints /\ o[1] = p[1] /\ Same(o[2], 0 - p[2])
  BY <1>1
<1>3. r \in AffinePoints /\ r[1] = p[1] /\ Same(r[2], 0 - o[2])
  BY <1>1, <1>2
<1> HIDE DEF o, r
<1>4. p[1] \in Int /\ p[2] \in Int /\ o[2] \in Int /\ r[2] \in Int
  BY <1>2, <1>3, AffineFacts
<1>5. Same(r[2], p[2])
  <2> DEFINE A == r[2] - (0 - o[2])
             B == o[2] - (0 - p[2])
             k == 0 - 1
  <2>1. A \in Int /\ B \in Int /\ Divisible(A) /\ Divisible(B) /\ k \in Int /\ 1 \in Int
    BY <1>2, <1>3, <1>4 DEF Same
  <2>2. Combine(1, A, k, B) = r[2] - p[2]
    BY <1>4 DEF Combine
  <2> HIDE DEF A, B, k
  <2> QED BY <2>1, <2>2, Combination DEF Same
<1>6. r = p
  BY <1>3, <1>4, <1>5, EqualPoints, SameReflexive
<1> QED BY <1>2, <1>6 DEF o, r

LEMMA CurvePoint ==
  ASSUME NEW p \in AffinePoints
  PROVE  p \in Curve <=> Same(p[2] * p[2], CubicAt(p[1]))
<1> DEFINE x == p[1]
           y == p[2]
           s == Sqr(y)
           c == Cubic(x)
           e == CubicAt(x)
           yy == y * y
<1>1. x \in Field /\ y \in Field /\ x \in Int /\ y \in Int /\ p # Infinity
  BY AffineFacts
<1>2. p \in Curve <=> s = c
  BY <1>1 DEF Curve, AffinePoints
<1> HIDE DEF x, y
<1>3. yy \in Int /\ e \in Int
  BY <1>1, LineFacts DEF CubicAt
<1>4. s \in Field /\ s \in Int /\ Same(s, yy)
  BY <1>1, MulSame, SameReflexive DEF Sqr
<1>5. c \in Field /\ c \in Int /\ Same(c, e)
  BY <1>1, CubicModulo DEF CubicAt
<1> HIDE DEF s, c, e, yy
<1>6. ASSUME s = c PROVE Same(yy, e)
  BY <1>3, <1>4, <1>5, <1>6, SameTransitive, SameSymmetric
<1>7. ASSUME Same(yy, e) PROVE s = c
  <2>1. Same(s, e)
    BY <1>3, <1>4, <1>5, <1>7, SameTransitive
  <2>2. Same(s, c)
    BY <1>3, <1>4, <1>5, <2>1, SameTransitive, SameSymmetric
  <2> QED BY <1>4, <1>5, <2>2, SameElements
<1> QED BY <1>2, <1>6, <1>7 DEF x, y, e, yy

LEMMA CurveFacts ==
  /\ Infinity \in Curve /\ Curve \subseteq Points
  /\ \A p \in Curve : p # Infinity <=> p \in AffinePoints
  /\ Points = {Infinity} \cup AffinePoints
<1>1. Points = {Infinity} \cup AffinePoints
  BY DEF Points, AffinePoints
<1>2. Infinity \in Curve /\ Curve \subseteq Points
  BY DEF Curve, Points
<1> QED BY <1>1, <1>2, AffineFacts

\* m is the slope of the line through p and q, of the tangent when they are one.
Slope(m, p, q) ==
  \/ ~ Divisible(p[1] - q[1]) /\ Same(m * (q[1] - p[1]), q[2] - p[2])
  \/ p = q /\ ~ Divisible(p[2]) /\ Same(2 * (m * p[2]), DerivativeAt(p[1]))

\* u is where the line of slope m through p and q meets the curve, reflected.
Reflects(m, p, q, u) ==
  /\ Same((p[1] + q[1]) + u[1], m * m + (Lambda + 1))
  /\ Same(u[2], m * (p[1] - u[1]) - p[2])

LEMMA ReflectedFacts ==
  ASSUME NEW slope \in Field, NEW p \in AffinePoints, NEW q \in AffinePoints
  PROVE  LET u == Reflected(slope, p, q[1])
         IN  u \in AffinePoints /\ Reflects(slope, p, q, u)
<1> DEFINE u == Reflected(slope, p, q[1])
           a == p[1]
           b == p[2]
           c == q[1]
           s == LambdaPlusOne
           l == Lambda + 1
           x1 == Sqr(slope)
           x2 == Add(x1, s)
           x3 == Sub(x2, a)
           x4 == Sub(x3, c)
           y1 == Sub(a, x4)
           y2 == Mul(slope, y1)
           y3 == Sub(y2, b)
<1>1. a \in Int /\ b \in Int /\ c \in Int /\ slope \in Int /\ s \in Int /\ l \in Int /\ Same(s, l)
  BY AffineFacts, FieldElements, LineFacts
<1>2. u = <<x4, y3>>
  BY DEF Reflected
<1> HIDE DEF a, b, c, s, l
<1>3. x1 \in Int /\ Same(x1, slope * slope)
  BY <1>1, MulSame, SameReflexive DEF Sqr
<1> HIDE DEF x1
<1>4. x2 \in Int /\ Same(x2, slope * slope + l)
  <2>1. slope * slope \in Int
    BY <1>1
  <2> QED BY <1>1, <1>3, <2>1, AddSame
<1> HIDE DEF x2
<1>5. x3 \in Int /\ Same(x3, (slope * slope + l) - a)
  <2>1. slope * slope + l \in Int
    BY <1>1
  <2> QED BY <1>1, <1>4, <2>1, SubSame, SameReflexive
<1> HIDE DEF x3
<1>6. x4 \in Field /\ x4 \in Int /\ Same(x4, ((slope * slope + l) - a) - c)
  <2>1. (slope * slope + l) - a \in Int
    BY <1>1
  <2> QED BY <1>1, <1>5, <2>1, SubSame, SameReflexive
<1> HIDE DEF x4
<1>7. y1 \in Int /\ Same(y1, a - x4)
  BY <1>1, <1>6, SubSame, SameReflexive
<1> HIDE DEF y1
<1>8. y2 \in Int /\ Same(y2, slope * (a - x4))
  <2>1. a - x4 \in Int
    BY <1>1, <1>6
  <2> QED BY <1>1, <1>7, <2>1, MulSame, SameReflexive
<1> HIDE DEF y2
<1>9. y3 \in Field /\ Same(y3, slope * (a - x4) - b)
  <2>1. slope * (a - x4) \in Int
    BY <1>1, <1>6
  <2> QED BY <1>1, <1>8, <2>1, SubSame, SameReflexive
<1> HIDE DEF y3
<1>10. Same((a + c) + x4, slope * slope + l)
  <2>1. x4 - (((slope * slope + l) - a) - c) = ((a + c) + x4) - (slope * slope + l)
    BY <1>1, <1>6
  <2> QED BY <1>6, <2>1 DEF Same
<1>11. u \in AffinePoints /\ u[1] = x4 /\ u[2] = y3
  BY <1>2, <1>6, <1>9 DEF AffinePoints
<1> HIDE DEF u
<1> QED BY <1>9, <1>10, <1>11 DEF Reflects, a, b, c, l, u

\* A quotient: (n / d) * d is n.
LEMMA QuotientSame ==
  ASSUME NEW n \in Int, NEW d \in Field \ {0}
  PROVE  LET m == Mul(n, Inv[d]) IN m \in Field /\ m \in Int /\ Same(m * d, n)
<1> DEFINE i == Inv[d]
           m == Mul(n, i)
<1>1. d \in Int /\ i \in Int /\ Divisible(d * i - 1)
  BY InvIsInverse, FieldElements
<1> HIDE DEF i
<1>2. m \in Field /\ m \in Int /\ Same(m, n * i)
  BY <1>1, MulSame, SameReflexive
<1> HIDE DEF m
<1> DEFINE A == m - n * i
           B == d * i - 1
<1>3. A \in Int /\ B \in Int /\ Divisible(A) /\ Divisible(B)
  BY <1>1, <1>2 DEF Same
<1>4. Combine(d, A, n, B) = m * d - n
  BY <1>1, <1>2 DEF Combine
<1> HIDE DEF A, B
<1>5. Divisible(Combine(d, A, n, B))
  BY <1>1, <1>3, Combination
<1> QED BY <1>2, <1>4, <1>5 DEF Same, m, i

LEMMA EcDoubleSlope ==
  ASSUME NEW p \in AffinePoints, p[2] # 0
  PROVE  /\ EcDouble(p) \in AffinePoints
         /\ \E m \in Int : /\ Slope(m, p, p) /\ Reflects(m, p, p, EcDouble(p))
<1> DEFINE a == p[1]
           b == p[2]
           s == LambdaPlusOne
           l == Lambda
           x1 == Sqr(a)
           x2 == Mul(3, x1)
           x3 == Mul(s, a)
           x4 == Mul(2, x3)
           x5 == Sub(x2, x4)
           num == Add(x5, l)
           den == Mul(2, b)
           slope == Mul(num, Inv[den])
<1>1. /\ a \in Int /\ b \in Int /\ s \in Int /\ l \in Int /\ Same(s, l + 1) /\ Same(l, l)
      /\ b \in Field \ {0} /\ ~ Divisible(b) /\ p # Infinity
  <2>1. p[2] \in Field \ {0}
    BY AffineFacts
  <2> QED BY <2>1, AffineFacts, NonzeroElement, LineFacts, SameReflexive
<1>2. EcDouble(p) = Reflected(slope, p, p[1])
  BY <1>1 DEF EcDouble
<1> HIDE DEF a, b, s, l
<1>0. 2 \in Int /\ 3 \in Int /\ Same(2, 2) /\ Same(3, 3)
  BY SameReflexive
<1>3. x1 \in Int /\ Same(x1, a * a)
  BY <1>1, MulSame, SameReflexive DEF Sqr
<1> HIDE DEF x1
<1>4. x2 \in Int /\ Same(x2, 3 * (a * a))
  <2>1. a * a \in Int
    BY <1>1
  <2> QED BY <1>0, <1>3, <2>1, MulSame
<1> HIDE DEF x2
<1>5. x3 \in Int /\ Same(x3, (l + 1) * a)
  <2>1. l + 1 \in Int
    BY <1>1
  <2> QED BY <1>1, <2>1, MulSame, SameReflexive
<1> HIDE DEF x3
<1>6. x4 \in Int /\ Same(x4, 2 * ((l + 1) * a))
  <2>1. (l + 1) * a \in Int
    BY <1>1
  <2> QED BY <1>0, <1>5, <2>1, MulSame
<1> HIDE DEF x4
<1>7. x5 \in Int /\ Same(x5, 3 * (a * a) - 2 * ((l + 1) * a))
  <2>1. 3 * (a * a) \in Int /\ 2 * ((l + 1) * a) \in Int
    BY <1>1
  <2> QED BY <1>4, <1>6, <2>1, SubSame
<1> HIDE DEF x5
<1> DEFINE f == (3 * (a * a) - 2 * ((l + 1) * a)) + l
<1>8. num \in Int /\ Same(num, f) /\ f \in Int
  <2>1. 3 * (a * a) - 2 * ((l + 1) * a) \in Int
    BY <1>1
  <2> QED BY <1>1, <1>7, <2>1, AddSame
<1> HIDE DEF num, f
<1>9. den \in Field /\ den \in Int /\ Same(den, 2 * b)
  BY <1>0, <1>1, MulSame, SameReflexive
<1>10. den # 0
  <2> SUFFICES ASSUME den = 0 PROVE FALSE
    OBVIOUS
  <2>1. 2 * b \in Int /\ ~ Divisible(2 * b)
    BY <1>1, PrimeDividesFactor, NonzeroElement, FieldElements
  <2>2. Same(2 * b, 0)
    BY <1>9, <2>1, SameSymmetric
  <2>3. (2 * b) - 0 = 2 * b
    BY <2>1
  <2> QED BY <2>1, <2>2, <2>3 DEF Same
<1> HIDE DEF den
<1>11. slope \in Field /\ slope \in Int /\ Same(slope * den, num)
  BY <1>8, <1>9, <1>10, QuotientSame
<1> HIDE DEF slope
<1>12. Same(2 * (slope * b), f)
  <2>1. slope * den \in Int /\ slope * (2 * b) \in Int
    BY <1>1, <1>9, <1>11
  <2>2. Same(slope * den, f)
    BY <1>8, <1>11, <2>1, SameTransitive
  <2> DEFINE A == slope * den - f
             B == den - 2 * b
             k == 0 - slope
  <2>3. A \in Int /\ B \in Int /\ k \in Int /\ 1 \in Int /\ Divisible(A) /\ Divisible(B)
    BY <1>1, <1>8, <1>9, <1>11, <2>2 DEF Same
  <2>4. Combine(1, A, k, B) = 2 * (slope * b) - f
    BY <1>1, <1>8, <1>9, <1>11 DEF Combine
  <2> HIDE DEF A, B, k
  <2> QED BY <2>3, <2>4, Combination DEF Same
<1>13. Slope(slope, p, p)
  BY <1>1, <1>12 DEF Slope, DerivativeAt, a, b, l, f
<1> QED BY <1>2, <1>11, <1>13, ReflectedFacts

LEMMA EcAddSlope ==
  ASSUME NEW p \in AffinePoints, NEW q \in AffinePoints, p[1] # q[1]
  PROVE  /\ EcAdd(p, q) \in AffinePoints
         /\ \E m \in Int : Slope(m, p, q) /\ Reflects(m, p, q, EcAdd(p, q))
<1> DEFINE a == p[1]
           b == p[2]
           c == q[1]
           d == q[2]
           den == Sub(c, a)
           num == Sub(d, b)
           slope == Mul(num, Inv[den])
<1>1. /\ p[1] \in Field /\ q[1] \in Field /\ p # Infinity /\ q # Infinity
      /\ a \in Int /\ b \in Int /\ c \in Int /\ d \in Int /\ a \in Field /\ c \in Field /\ a # c
  BY AffineFacts
<1>2. EcAdd(p, q) = Reflected(slope, p, q[1])
  BY <1>1 DEF EcAdd
<1> HIDE DEF a, b, c, d
<1>3. den \in Field /\ den \in Int /\ Same(den, c - a) /\ c - a \in Int
  <2>1. Same(a, a) /\ Same(c, c)
    BY <1>1, SameReflexive
  <2> QED BY <1>1, <2>1, SubSame
<1>4. num \in Int /\ Same(num, d - b) /\ d - b \in Int
  <2>1. Same(b, b) /\ Same(d, d)
    BY <1>1, SameReflexive
  <2> QED BY <1>1, <2>1, SubSame
<1>5. den # 0 /\ ~ Divisible(a - c)
  <2>1. ~ Divisible(a - c)
    BY <1>1, SameElement
  <2> SUFFICES ASSUME den = 0 PROVE FALSE
    BY <2>1
  <2>2. 0 - (c - a) = a - c
    BY <1>1
  <2> QED BY <1>3, <2>1, <2>2 DEF Same
<1> HIDE DEF den, num
<1>6. slope \in Field /\ slope \in Int /\ Same(slope * den, num)
  BY <1>3, <1>4, <1>5, QuotientSame
<1> HIDE DEF slope
<1>7. Same(slope * (c - a), d - b)
  <2> DEFINE e == c - a
             f == d - b
  <2>1. e \in Int /\ f \in Int /\ Same(den, e) /\ Same(num, f)
    BY <1>3, <1>4
  <2> HIDE DEF e, f
  <2>2. slope * den \in Int
    BY <1>3, <1>6
  <2>3. Same(slope * den, f)
    BY <1>4, <1>6, <2>1, <2>2, SameTransitive
  <2> DEFINE A == slope * den - f
             B == den - e
             k == 0 - slope
  <2>4. A \in Int /\ B \in Int /\ k \in Int /\ 1 \in Int /\ Divisible(A) /\ Divisible(B)
    BY <1>3, <1>6, <2>1, <2>3 DEF Same
  <2>5. Combine(1, A, k, B) = slope * e - f
    BY <1>3, <1>6, <2>1 DEF Combine
  <2> HIDE DEF A, B, k
  <2>6. Same(slope * e, f)
    BY <2>4, <2>5, Combination DEF Same
  <2> QED BY <2>6 DEF e, f
<1>8. Slope(slope, p, q)
  BY <1>5, <1>7 DEF Slope, a, b, c, d
<1>9. EcAdd(p, q) \in AffinePoints /\ Reflects(slope, p, q, EcAdd(p, q))
  BY <1>2, <1>6, ReflectedFacts DEF c
<1> QED BY <1>6, <1>8, <1>9

\* A sum is the neutral element for opposite points only; otherwise it is where
\* the line through the points, or their tangent, meets the curve, reflected.
LEMMA SumFacts ==
  ASSUME NEW p \in AffinePoints \cap Curve, NEW q \in AffinePoints \cap Curve
  PROVE  /\ EcAdd(p, q) = Infinity <=> q = Opp(p)
         /\ q # Opp(p) =>
              /\ EcAdd(p, q) \in AffinePoints
              /\ \E m \in Int : Slope(m, p, q) /\ Reflects(m, p, q, EcAdd(p, q))
<1>1. /\ p[1] \in Field /\ q[1] \in Field /\ p # Infinity /\ q # Infinity
      /\ p[2] \in Field /\ q[2] \in Field
      /\ p[1] \in Int /\ p[2] \in Int /\ q[1] \in Int /\ q[2] \in Int
  BY AffineFacts
<1>2. Opp(p) \in AffinePoints /\ Opp(p)[1] = p[1] /\ Opp(p)[2] = Neg(p[2])
  BY <1>1, OppFacts DEF Opp
<1>3. CASE p[1] # q[1]
  BY <1>2, <1>3, EcAddSlope, AffineFacts
<1>4. CASE p[1] = q[1]
  <2> DEFINE y == p[2]
             z == q[2]
             s == Add(y, z)
             e == CubicAt(p[1])
  <2>1. s \in Field /\ s \in Int /\ Same(s, y + z) /\ y + z \in Int /\ y \in Int /\ z \in Int
    <3>1. y \in Int /\ z \in Int
      BY <1>1
    <3> HIDE DEF y, z
    <3>2. Same(y, y) /\ Same(z, z)
      BY <3>1, SameReflexive
    <3> QED BY <3>1, <3>2, AddSame
  <2>2. Same(y * y, e) /\ Same(z * z, e) /\ e \in Int
    BY <1>1, <1>4, CurvePoint, LineFacts DEF CubicAt
  <2>3. EcAdd(p, q) = IF s = 0 THEN Infinity ELSE EcDouble(p)
    BY <1>1, <1>4 DEF EcAdd
  <2>4. s = 0 <=> Divisible(y + z)
    <3> HIDE DEF s, y, z
    <3>1. ASSUME s = 0 PROVE Divisible(y + z)
      <4>1. Divisible((y + z) - 0)
        BY <2>1, <3>1, SameSymmetric DEF Same
      <4> QED BY <2>1, <4>1
    <3>2. ASSUME Divisible(y + z) PROVE s = 0
      <4>1. Same(y + z, 0)
        BY <2>1, <3>2 DEF Same
      <4>2. Same(s, 0)
        BY <2>1, <4>1, SameTransitive
      <4> QED BY <2>1, <4>2, SameElements, FieldElements
    <3> QED BY <3>1, <3>2
  <2>5. Divisible(y - z) \/ Divisible(y + z)
    <3> HIDE DEF y, z, e
    <3> DEFINE A == y * y - e
               B == z * z - e
               k == 0 - 1
    <3>1. A \in Int /\ B \in Int /\ k \in Int /\ 1 \in Int /\ Divisible(A) /\ Divisible(B)
      BY <2>1, <2>2 DEF Same
    <3>2. Combine(1, A, k, B) = (y - z) * (y + z)
      BY <2>1, <2>2 DEF Combine
    <3> HIDE DEF A, B, k
    <3>3. Divisible((y - z) * (y + z)) /\ y - z \in Int
      BY <2>1, <3>1, <3>2, Combination
    <3> QED BY <2>1, <3>3, PrimeDividesFactor
  <2>6. Divisible(y + z) <=> q = Opp(p)
    <3> DEFINE o == Opp(p)[2]
    <3>1. o \in Int /\ Same(o, 0 - y)
      BY <1>2, OppFacts, AffineFacts
    <3>2. z - (0 - y) = y + z
      BY <2>1
    <3>3. Same(z, 0 - y) <=> Divisible(y + z)
      BY <3>2 DEF Same
    <3>4. ASSUME Divisible(y + z) PROVE q = Opp(p)
      <4>1. 0 - y \in Int
        BY <2>1
      <4>2. Same(z, o)
        <5> HIDE DEF o, y, z
        <5> QED BY <2>1, <3>1, <3>3, <3>4, <4>1, SameSymmetric, SameTransitive
      <4> QED BY <1>1, <1>2, <1>4, <4>2, EqualPoints, SameReflexive
    <3> QED BY <3>1, <3>3, <3>4
  <2>7. CASE s = 0
    BY <2>3, <2>4, <2>6, <2>7
  <2>8. CASE s # 0
    <3>1. ~ Divisible(y + z) /\ q # Opp(p)
      BY <2>4, <2>6, <2>8
    <3>2. y = z
      BY <1>1, <2>5, <3>1, SameElement
    <3>3. p = q
      BY <1>1, <1>4, <3>2, EqualPoints, SameReflexive
    <3>4. y # 0
      <4> SUFFICES ASSUME y = 0 PROVE FALSE
        OBVIOUS
      <4>1. y + z = 0 /\ 0 = 0 * P
        BY <3>2, PrimeFacts
      <4> QED BY <3>1, <4>1 DEF Divisible
    <3>5. EcAdd(p, q) = EcDouble(p)
      BY <2>3, <2>8
    <3>6. /\ EcDouble(p) \in AffinePoints
          /\ \E m \in Int : Slope(m, p, p) /\ Reflects(m, p, p, EcDouble(p))
      BY <3>4, EcDoubleSlope
    <3> QED BY <3>1, <3>3, <3>5, <3>6, AffineFacts
  <2> QED BY <2>7, <2>8
<1> QED BY <1>3, <1>4

-------------------------------------------------------------------------------
(***************************************************************************)
(* The three points in which a line meets the curve.                       *)
(***************************************************************************)
On(m, n, p) == Same(p[2], m * p[1] + n)

Roots(m, n, a, b, c) ==
  /\ Same((a + b) + c, m * m + (Lambda + 1))
  /\ Same((a * b + a * c) + b * c, Lambda - 2 * (m * n))
  /\ Same((a * b) * c, n * n)

\* p, q and r, with multiplicity, are where the line y = m * x + n meets the curve.
Line(m, n, p, q, r) ==
  /\ On(m, n, p) /\ On(m, n, q) /\ On(m, n, r)
  /\ Roots(m, n, p[1], q[1], r[1])

CurvePoints == AffinePoints \cap Curve

LEMMA RootsSymmetric ==
  ASSUME NEW m \in Int, NEW n \in Int, NEW a \in Int, NEW b \in Int, NEW c \in Int,
         Roots(m, n, a, b, c)
  PROVE  Roots(m, n, b, a, c) /\ Roots(m, n, a, c, b)
<1>1. /\ (b + a) + c = (a + b) + c /\ (a + c) + b = (a + b) + c
      /\ (b * a + b * c) + a * c = (a * b + a * c) + b * c
      /\ (a * c + a * b) + c * b = (a * b + a * c) + b * c
      /\ (b * a) * c = (a * b) * c /\ (a * c) * b = (a * b) * c
  OBVIOUS
<1> QED BY <1>1 DEF Roots

LEMMA LineSymmetric ==
  ASSUME NEW m \in Int, NEW n \in Int,
         NEW p \in AffinePoints, NEW q \in AffinePoints, NEW r \in AffinePoints,
         Line(m, n, p, q, r)
  PROVE  Line(m, n, q, p, r) /\ Line(m, n, p, r, q)
<1>1. p[1] \in Int /\ q[1] \in Int /\ r[1] \in Int
  BY AffineFacts
<1> QED BY <1>1, RootsSymmetric DEF Line

\* The third point is on the curve.
LEMMA ThirdInCurve ==
  ASSUME NEW m \in Int, NEW n \in Int,
         NEW p \in AffinePoints, NEW q \in AffinePoints, NEW r \in AffinePoints,
         Line(m, n, p, q, r)
  PROVE  r \in CurvePoints
<1> DEFINE a == p[1]
           b == q[1]
           x == r[1]
           y == r[2]
           l == Lambda
<1>1. a \in Int /\ b \in Int /\ x \in Int /\ y \in Int /\ l \in Int
  BY AffineFacts, LineFacts
<1>2. /\ Same((a + b) + x, m * m + (l + 1))
      /\ Same((a * b + a * x) + b * x, l - 2 * (m * n))
      /\ Same((a * b) * x, n * n) /\ Same(y, m * x + n)
  BY DEF Line, Roots, On
<1> HIDE DEF a, b, x, y, l
<1>3. Same(y * y, ((x - 1) * (x - l)) * x)
  BY <1>1, <1>2, ThirdOnCurve
<1>4. Same(r[2] * r[2], CubicAt(r[1]))
  BY <1>3 DEF CubicAt, x, y, l
<1> QED BY <1>4, CurvePoint DEF CurvePoints

LEMMA OppOnCurve ==
  ASSUME NEW p \in CurvePoints
  PROVE  Opp(p) \in CurvePoints
<1> DEFINE o == Opp(p)
           e == CubicAt(p[1])
           y == p[2]
           z == o[2]
<1>1. p \in AffinePoints /\ o \in AffinePoints /\ o[1] = p[1] /\ Same(z, 0 - y)
  BY OppFacts DEF CurvePoints
<1>2. y \in Int /\ z \in Int /\ e \in Int /\ Same(y * y, e)
  BY <1>1, AffineFacts, CurvePoint, LineFacts DEF CurvePoints, CubicAt
<1> HIDE DEF y, z, e
<1>3. Same(z * z, e)
  <2> DEFINE A == z - (0 - y)
             B == y * y - e
             k == z - y
  <2>1. A \in Int /\ B \in Int /\ k \in Int /\ 1 \in Int /\ Divisible(A) /\ Divisible(B)
    BY <1>1, <1>2 DEF Same
  <2>2. Combine(k, A, 1, B) = z * z - e
    BY <1>2 DEF Combine
  <2> HIDE DEF A, B, k
  <2> QED BY <2>1, <2>2, Combination DEF Same
<1> HIDE DEF o
<1>4. Same(o[2] * o[2], CubicAt(o[1]))
  BY <1>1, <1>3 DEF z, e
<1> QED BY <1>1, <1>4, CurvePoint DEF CurvePoints, o

LEMMA LineOfSlope ==
  ASSUME NEW m \in Int, NEW p \in CurvePoints, NEW q \in CurvePoints,
         NEW u \in AffinePoints, Slope(m, p, q), Reflects(m, p, q, u)
  PROVE  \E n \in Int : Line(m, n, p, q, Opp(u))
<1> DEFINE o == Opp(u)
           a == p[1]
           b == p[2]
           c == q[1]
           d == q[2]
           x == u[1]
           y == u[2]
           z == o[2]
           l == Lambda
           n == b - m * a
<1>1. p \in AffinePoints /\ q \in AffinePoints /\ o \in AffinePoints /\ o[1] = x
  BY OppFacts DEF CurvePoints
<1>2. /\ a \in Int /\ b \in Int /\ c \in Int /\ d \in Int /\ x \in Int /\ y \in Int
      /\ z \in Int /\ l \in Int
  BY <1>1, AffineFacts, LineFacts
<1>3. Same(z, 0 - y)
  BY OppFacts
<1>4. Same((a + c) + x, m * m + (l + 1)) /\ Same(y, m * (a - x) - b)
  BY DEF Reflects
<1>5. /\ Same(b * b, ((a - 1) * (a - l)) * a)
      /\ Same(d * d, ((c - 1) * (c - l)) * c)
  BY <1>1, CurvePoint DEF CurvePoints, CubicAt
<1>6. \/ ~ Divisible(a - c) /\ Same(m * (c - a), d - b)
      \/ p = q /\ Same(2 * (m * b), (3 * (a * a) - 2 * ((l + 1) * a)) + l)
  BY DEF Slope, DerivativeAt
<1> HIDE DEF o
<1>7. p = q => a = c /\ b = d
  OBVIOUS
<1>8. /\ Same(b, m * a + n) /\ Same(d, m * c + n) /\ Same(z, m * x + n)
      /\ Roots(m, n, a, c, x)
  <2> HIDE DEF a, b, c, d, x, y, z, l
  <2>1. n \in Int
    BY <1>2
  <2>2. Same(b, m * a + n)
    <3>1. b = m * a + n
      BY <1>2
    <3> HIDE DEF n
    <3> QED BY <1>2, <3>1, SameReflexive
  <2>3. Same(n, b - m * a)
    BY <2>1, SameReflexive
  <2> HIDE DEF n
  <2>4. Same(z, m * x + n)
    BY <1>2, <1>3, <1>4, <2>1, <2>3, ReflectionOn
  <2>5. CASE ~ Divisible(a - c) /\ Same(m * (c - a), d - b)
    <3>1. Same(d, m * c + n)
      BY <1>2, <2>1, <2>3, <2>5, ChordOn
    <3> DEFINE f == ((a - 1) * (a - l)) * a
               g == ((c - 1) * (c - l)) * c
    <3>2. f \in Int /\ g \in Int /\ Same(b * b, f) /\ Same(d * d, g)
      BY <1>2, <1>5
    <3>3. Same((m * a + n) * (m * a + n), f) /\ Same((m * c + n) * (m * c + n), g)
      <4> HIDE DEF f, g
      <4> QED BY <1>2, <2>1, <2>2, <3>1, <3>2, SquareOnLine
    <3> DEFINE v == (a * c + a * x) + c * x
               w == l - 2 * (m * n)
    <3>4. Same((a - c) * v, (a - c) * w)
      BY <1>2, <1>4, <2>1, <3>3, ChordProduct
    <3>5. v \in Int /\ w \in Int /\ a - c \in Int
      BY <1>2, <2>1
    <3>6. Same(v, w)
      <4> HIDE DEF v, w
      <4> QED BY <2>5, <3>4, <3>5, CancelFactor
    <3>7. Same((a * c) * x, n * n)
      BY <1>2, <1>4, <2>1, <3>3, <3>6, ThirdRoot
    <3> QED BY <1>4, <2>2, <2>4, <3>1, <3>6, <3>7 DEF Roots, l
  <2>6. CASE p = q /\ Same(2 * (m * b), (3 * (a * a) - 2 * ((l + 1) * a)) + l)
    <3>1. a = c /\ b = d
      BY <1>7, <2>6
    <3>2. Same((a + a) + x, m * m + (l + 1))
      BY <1>4, <3>1
    <3>3. Same((a * a + a * x) + a * x, l - 2 * (m * n))
      BY <1>2, <2>1, <2>2, <2>6, <3>2, TangentSum
    <3> DEFINE f == ((a - 1) * (a - l)) * a
    <3>4. f \in Int /\ Same(b * b, f)
      BY <1>2, <1>5
    <3>5. Same((m * a + n) * (m * a + n), f)
      <4> HIDE DEF f
      <4> QED BY <1>2, <2>1, <2>2, <3>4, SquareOnLine
    <3>6. Same((a * a) * x, n * n)
      BY <1>2, <2>1, <3>2, <3>3, <3>5, ThirdRoot
    <3> QED BY <2>2, <2>4, <3>1, <3>2, <3>3, <3>6 DEF Roots, l
  <2> QED BY <1>6, <2>5, <2>6
<1>9. n \in Int
  BY <1>2
<1>10. Line(m, n, p, q, o)
  BY <1>1, <1>8 DEF Line, On
<1> QED BY <1>9, <1>10 DEF o

LEMMA SumLine ==
  ASSUME NEW p \in CurvePoints, NEW q \in CurvePoints, q # Opp(p)
  PROVE  /\ EcAdd(p, q) \in CurvePoints
         /\ \E m, n \in Int : Line(m, n, p, q, Opp(EcAdd(p, q)))
<1> DEFINE u == EcAdd(p, q)
<1>1. p \in AffinePoints /\ q \in AffinePoints
  BY DEF CurvePoints
<1>2. u \in AffinePoints /\ \E m \in Int : Slope(m, p, q) /\ Reflects(m, p, q, u)
  BY SumFacts DEF CurvePoints
<1> HIDE DEF u
<1>3. PICK m \in Int : Slope(m, p, q) /\ Reflects(m, p, q, u)
  BY <1>2
<1>4. PICK n \in Int : Line(m, n, p, q, Opp(u))
  BY <1>2, <1>3, LineOfSlope
<1>5. Opp(u) \in AffinePoints /\ Opp(Opp(u)) = u
  BY <1>2, OppFacts
<1>6. Opp(u) \in CurvePoints
  BY <1>1, <1>4, <1>5, ThirdInCurve
<1>7. u \in CurvePoints
  BY <1>5, <1>6, OppOnCurve
<1> QED BY <1>4, <1>7 DEF u

\* Points that a line meets the curve in add up to the neutral element.
LEMMA LineSum ==
  ASSUME NEW m \in Int, NEW n \in Int,
         NEW p \in CurvePoints, NEW q \in CurvePoints, NEW r \in AffinePoints,
         Line(m, n, p, q, r), q # Opp(p)
  PROVE  EcAdd(p, q) = Opp(r)
<1> DEFINE e == EcAdd(p, q)
           o == Opp(r)
           a == p[1]
           b == p[2]
           c == q[1]
           d == q[2]
           u == e[1]
           v == e[2]
           x == r[1]
           t == r[2]
           z == o[2]
           l == Lambda
           f == (3 * (a * a) - 2 * ((l + 1) * a)) + l
<1>1. p \in AffinePoints /\ q \in AffinePoints /\ o \in AffinePoints /\ o[1] = x
  BY OppFacts DEF CurvePoints
<1>2. e \in AffinePoints /\ \E k \in Int : Slope(k, p, q) /\ Reflects(k, p, q, e)
  BY SumFacts DEF CurvePoints
<1>3. /\ a \in Int /\ b \in Int /\ c \in Int /\ d \in Int /\ u \in Int /\ v \in Int
      /\ x \in Int /\ t \in Int /\ z \in Int /\ l \in Int
  BY <1>1, <1>2, AffineFacts, LineFacts
<1>4. PICK k \in Int : Slope(k, p, q) /\ Reflects(k, p, q, e)
  BY <1>2
<1>5. /\ Same((a + c) + u, k * k + (l + 1)) /\ Same(v, k * (a - u) - b)
      /\ Same((a + c) + x, m * m + (l + 1))
      /\ Same((a * c + a * x) + c * x, l - 2 * (m * n))
      /\ Same(b, m * a + n) /\ Same(d, m * c + n) /\ Same(t, m * x + n)
  BY <1>4 DEF Reflects, Line, On, Roots
<1>6. \/ ~ Divisible(a - c) /\ Same(k * (c - a), d - b)
      \/ p = q /\ ~ Divisible(b) /\ Same(2 * (k * b), f)
  BY <1>4 DEF Slope, DerivativeAt
<1>7. p = q => a = c /\ b = d
  OBVIOUS
<1>8. Same(z, 0 - t)
  BY OppFacts
<1> HIDE DEF e, o, a, b, c, d, u, v, x, t, z, l
<1>9. Same(k, m)
  <2>1. CASE ~ Divisible(a - c) /\ Same(k * (c - a), d - b)
    <3>1. Same((a - c) * k, (a - c) * m)
      BY <1>3, <1>5, <2>1, ChordSlopes
    <3>2. a - c \in Int
      BY <1>3
    <3> QED BY <2>1, <3>1, <3>2, CancelFactor
  <2>2. CASE p = q /\ ~ Divisible(b) /\ Same(2 * (k * b), f)
    <3>1. a = c
      BY <1>7, <2>2
    <3>2. /\ Same((a + a) + x, m * m + (l + 1))
          /\ Same((a * a + a * x) + a * x, l - 2 * (m * n))
      BY <1>5, <3>1
    <3>3. Same(2 * (m * b), f)
      BY <1>3, <1>5, <3>2, TangentSlope
    <3>4. f \in Int
      BY <1>3
    <3> HIDE DEF f
    <3>5. Same((2 * b) * k, (2 * b) * m)
      BY <1>3, <2>2, <3>3, <3>4, TangentSlopes
    <3>6. 2 * b \in Int /\ ~ Divisible(2 * b)
      BY <1>3, <2>2, PrimeDividesFactor, NonzeroElement, FieldElements
    <3> DEFINE g == 2 * b
    <3> HIDE DEF g
    <3>7. g \in Int /\ ~ Divisible(g) /\ Same(g * k, g * m)
      BY <3>5, <3>6 DEF g
    <3> QED BY <3>7, CancelFactor
  <2> QED BY <1>6, <2>1, <2>2
<1>10. Same(u, x)
  <2> DEFINE h == l + 1
  <2>1. h \in Int
    BY <1>3
  <2>2. Same((a + c) + u, k * k + h) /\ Same((a + c) + x, m * m + h)
    BY <1>5
  <2> HIDE DEF h
  <2> QED BY <1>3, <1>9, <2>1, <2>2, EqualThirds
<1>11. Same(v, 0 - t)
  BY <1>3, <1>5, <1>9, <1>10, OppositeThirds
<1>12. Same(v, z)
  <2>1. 0 - t \in Int
    BY <1>3
  <2> QED BY <1>3, <1>8, <1>11, <2>1, SameSymmetric, SameTransitive
<1>13. e = o
  BY <1>1, <1>2, <1>10, <1>12, EqualPoints DEF u, v, x, z
<1> QED BY <1>13 DEF e, o

LEMMA OppositeLine ==
  ASSUME NEW m \in Int, NEW n \in Int,
         NEW p \in AffinePoints, NEW q \in AffinePoints, NEW r \in AffinePoints,
         Line(m, n, p, q, r)
  PROVE  Line(0 - m, 0 - n, Opp(p), Opp(q), Opp(r))
<1>1. ASSUME NEW s \in AffinePoints, On(m, n, s) PROVE On(0 - m, 0 - n, Opp(s))
  <2> DEFINE o == Opp(s)
             x == s[1]
             y == s[2]
             z == o[2]
  <2>1. x \in Int /\ y \in Int /\ z \in Int /\ o[1] = x /\ Same(z, 0 - y) /\ Same(y, m * x + n)
    BY <1>1, AffineFacts, OppFacts DEF On
  <2> HIDE DEF x, y, z
  <2>2. Same(z, (0 - m) * x + (0 - n))
    BY <2>1, OppositeOn
  <2> QED BY <2>1, <2>2 DEF On, x, z
<1>2. Roots(0 - m, 0 - n, p[1], q[1], r[1])
  <2>1. (0 - m) * (0 - m) = m * m /\ (0 - m) * (0 - n) = m * n /\ (0 - n) * (0 - n) = n * n
    OBVIOUS
  <2>2. Roots(m, n, p[1], q[1], r[1])
    BY DEF Line
  <2> QED BY <2>1, <2>2 DEF Roots
<1>3. Opp(p)[1] = p[1] /\ Opp(q)[1] = q[1] /\ Opp(r)[1] = r[1]
  BY OppFacts
<1> QED BY <1>1, <1>2, <1>3 DEF Line

-------------------------------------------------------------------------------
(***************************************************************************)
(* The group.                                                              *)
(***************************************************************************)
LEMMA CurveCases ==
  /\ Curve = {Infinity} \cup CurvePoints /\ Infinity \notin CurvePoints
  /\ CurvePoints \subseteq AffinePoints
BY CurveFacts DEF CurvePoints

LEMMA OppOfPoints ==
  /\ Opp(Infinity) = Infinity
  /\ \A p \in Curve : Opp(p) \in Curve /\ Opp(Opp(p)) = p
  /\ \A p \in CurvePoints : Opp(p) \in CurvePoints
<1>1. Opp(Infinity) = Infinity
  BY DEF Opp
<1> QED BY <1>1, CurveCases, OppFacts, OppOnCurve

LEMMA SumOfInfinity ==
  \A p : EcAdd(Infinity, p) = p /\ EcAdd(p, Infinity) = p
BY DEF EcAdd

LEMMA OppUnique ==
  ASSUME NEW p \in Curve, NEW q \in Curve
  PROVE  p = Opp(q) <=> q = Opp(p)
BY OppOfPoints

LEMMA SumIsInfinity ==
  ASSUME NEW p \in Curve, NEW q \in Curve
  PROVE  EcAdd(p, q) = Infinity <=> q = Opp(p)
<1>1. CASE p = Infinity
  BY <1>1, OppOfPoints, SumOfInfinity
<1>2. CASE q = Infinity
  BY <1>2, OppOfPoints, SumOfInfinity
<1>3. CASE p # Infinity /\ q # Infinity
  <2>1. p \in AffinePoints \cap Curve /\ q \in AffinePoints \cap Curve
    BY <1>3, CurveFacts
  <2> QED BY <2>1, SumFacts
<1> QED BY <1>1, <1>2, <1>3

LEMMA SumOnCurve ==
  ASSUME NEW p \in Curve, NEW q \in Curve
  PROVE  EcAdd(p, q) \in Curve
<1>1. CASE p = Infinity \/ q = Infinity
  BY <1>1, SumOfInfinity
<1>2. CASE p # Infinity /\ q # Infinity
  <2>1. p \in CurvePoints /\ q \in CurvePoints
    BY <1>2, CurveCases
  <2>2. CASE q = Opp(p)
    BY <2>2, SumIsInfinity, CurveCases
  <2>3. CASE q # Opp(p)
    BY <2>1, <2>3, SumLine, CurveCases
  <2> QED BY <2>2, <2>3
<1> QED BY <1>1, <1>2

LEMMA Commutative ==
  ASSUME NEW p \in Curve, NEW q \in Curve
  PROVE  EcAdd(p, q) = EcAdd(q, p)
<1>1. CASE p = Infinity \/ q = Infinity
  BY <1>1, SumOfInfinity
<1>2. CASE q = Opp(p)
  BY <1>2, SumIsInfinity, OppUnique
<1>3. CASE p # Infinity /\ q # Infinity /\ q # Opp(p)
  <2> DEFINE u == EcAdd(p, q)
  <2>1. p \in CurvePoints /\ q \in CurvePoints /\ p # Opp(q)
    BY <1>3, CurveCases, OppUnique
  <2>2. u \in CurvePoints /\ \E m, n \in Int : Line(m, n, p, q, Opp(u))
    BY <1>3, <2>1, SumLine
  <2> HIDE DEF u
  <2>3. Opp(u) \in AffinePoints /\ Opp(Opp(u)) = u
    BY <2>2, CurveCases, OppOfPoints
  <2>4. PICK m, n \in Int : Line(m, n, q, p, Opp(u))
    BY <2>1, <2>2, <2>3, LineSymmetric, CurveCases
  <2>5. EcAdd(q, p) = Opp(Opp(u))
    BY <2>1, <2>3, <2>4, LineSum
  <2> QED BY <2>3, <2>5 DEF u
<1> QED BY <1>1, <1>2, <1>3

\* The opposite of a sum is the sum of the opposites.
LEMMA OppOfSum ==
  ASSUME NEW p \in Curve, NEW q \in Curve
  PROVE  Opp(EcAdd(p, q)) = EcAdd(Opp(p), Opp(q))
<1>1. CASE p = Infinity \/ q = Infinity
  BY <1>1, SumOfInfinity, OppOfPoints
<1>2. CASE q = Opp(p)
  <2>1. EcAdd(p, q) = Infinity
    BY <1>2, SumIsInfinity
  <2>2. EcAdd(Opp(p), Opp(q)) = Infinity
    BY <1>2, SumIsInfinity, OppOfPoints
  <2> QED BY <2>1, <2>2, OppOfPoints
<1>3. CASE p # Infinity /\ q # Infinity /\ q # Opp(p)
  <2> DEFINE u == EcAdd(p, q)
             a == Opp(p)
             b == Opp(q)
  <2>1. p \in CurvePoints /\ q \in CurvePoints
    BY <1>3, CurveCases
  <2>2. u \in CurvePoints /\ \E m, n \in Int : Line(m, n, p, q, Opp(u))
    BY <1>3, <2>1, SumLine
  <2>3. a \in CurvePoints /\ b \in CurvePoints /\ b # Opp(a)
    BY <1>3, <2>1, OppOfPoints
  <2> HIDE DEF u
  <2>4. Opp(u) \in AffinePoints /\ Opp(Opp(u)) = u /\ u \in AffinePoints
    BY <2>2, CurveCases, OppOfPoints
  <2>5. PICK m, n \in Int : Line(m, n, p, q, Opp(u))
    BY <2>2
  <2>6. Line(0 - m, 0 - n, a, b, u)
    BY <2>1, <2>4, <2>5, OppositeLine, CurveCases
  <2> HIDE DEF a, b
  <2>7. 0 - m \in Int /\ 0 - n \in Int
    OBVIOUS
  <2>8. EcAdd(a, b) = Opp(u)
    BY <2>3, <2>4, <2>6, <2>7, LineSum
  <2> QED BY <2>8 DEF u, a, b
<1> QED BY <1>1, <1>2, <1>3

\* Adding a point that is not neutral moves every point.
LEMMA SumMoves ==
  ASSUME NEW p \in CurvePoints, NEW s \in CurvePoints
  PROVE  EcAdd(p, s) # p
<1> SUFFICES ASSUME EcAdd(p, s) = p PROVE FALSE
  OBVIOUS
<1> DEFINE o == Opp(p)
           a == p[1]
           b == p[2]
           c == s[1]
           z == o[2]
           l == Lambda
           f == (3 * (a * a) - 2 * ((l + 1) * a)) + l
           g == ((a - 1) * (a - l)) * a
<1>1. p \in AffinePoints /\ s \in AffinePoints /\ o \in AffinePoints /\ o[1] = a
  BY CurveCases, OppFacts
<1>2. s # Opp(p)
  BY <1>1, SumIsInfinity, AffineFacts, CurveCases
<1>3. PICK m, n \in Int : Line(m, n, p, s, o)
  BY <1>2, SumLine
<1>4. /\ a \in Int /\ b \in Int /\ c \in Int /\ z \in Int /\ l \in Int
      /\ Same(z, 0 - b) /\ Same(b * b, g)
  BY <1>1, AffineFacts, OppFacts, LineFacts, CurvePoint DEF CurvePoints, CubicAt
<1>5. Line(m, n, p, o, s)
  BY <1>1, <1>3, LineSymmetric
<1>6. /\ Same((a + a) + c, m * m + (l + 1))
      /\ Same((a * a + a * c) + a * c, l - 2 * (m * n))
      /\ Same(b, m * a + n) /\ Same(z, m * a + n)
  BY <1>1, <1>5 DEF Line, On, Roots
<1>7. CubicAt(p[1]) = g /\ DerivativeAt(p[1]) = f
  BY DEF CubicAt, DerivativeAt
<1> HIDE DEF a, b, c, z, l, o
<1>8. Divisible(b)
  <2> DEFINE h == m * a + n
  <2>1. h \in Int /\ Same(b, h) /\ Same(z, h)
    BY <1>4, <1>6
  <2> HIDE DEF h
  <2>2. Same(b, z)
    BY <1>4, <2>1, SameSymmetric, SameTransitive
  <2>3. 0 - b \in Int
    BY <1>4
  <2>4. Same(b, 0 - b)
    BY <1>4, <2>2, <2>3, SameTransitive
  <2>5. b - (0 - b) = 2 * b
    BY <1>4
  <2>6. Divisible(2 * b)
    BY <2>4, <2>5 DEF Same
  <2> QED BY <1>4, <2>6, PrimeDividesFactor, NonzeroElement, FieldElements
<1>9. f \in Int /\ g \in Int
  BY <1>4
<1>10. Same(2 * (m * b), f)
  BY <1>4, <1>6, TangentSlope
<1> HIDE DEF f, g
<1>11. Divisible(g)
  <2> DEFINE A == b * b - g
             B == b
             k == 0 - 1
  <2>1. A \in Int /\ B \in Int /\ k \in Int /\ Divisible(A) /\ Divisible(B)
    BY <1>4, <1>8, <1>9 DEF Same
  <2>2. Combine(k, A, b, B) = g
    BY <1>4, <1>9 DEF Combine
  <2> HIDE DEF A, B, k
  <2> QED BY <1>4, <2>1, <2>2, Combination
<1>12. Divisible(f)
  <2> DEFINE A == 2 * (m * b) - f
             B == b
             k == 0 - 1
             j == 2 * m
  <2>1. A \in Int /\ B \in Int /\ k \in Int /\ j \in Int /\ Divisible(A) /\ Divisible(B)
    BY <1>4, <1>8, <1>9, <1>10 DEF Same
  <2>2. Combine(k, A, j, B) = f
    BY <1>4, <1>9 DEF Combine
  <2> HIDE DEF A, B, k, j
  <2> QED BY <1>4, <2>1, <2>2, Combination
<1>13. p[1] \in Int
  BY <1>4 DEF a
<1> QED BY <1>7, <1>11, <1>12, <1>13, CubicIsSmooth

\* Adding a point and then its opposite changes nothing.
LEMMA Cancel ==
  ASSUME NEW p \in Curve, NEW s \in Curve
  PROVE  EcAdd(Opp(p), EcAdd(p, s)) = s
<1>1. CASE p = Infinity \/ s = Infinity
  <2>1. EcAdd(Opp(p), p) = Infinity
    BY SumIsInfinity, OppOfPoints
  <2> QED BY <1>1, <2>1, SumOfInfinity, OppOfPoints
<1>2. CASE s = Opp(p)
  <2>1. EcAdd(p, s) = Infinity
    BY <1>2, SumIsInfinity
  <2> QED BY <1>2, <2>1, SumOfInfinity
<1>3. CASE p # Infinity /\ s # Infinity /\ s # Opp(p)
  <2> DEFINE u == EcAdd(p, s)
             a == Opp(p)
             b == Opp(s)
  <2>1. p \in CurvePoints /\ s \in CurvePoints
    BY <1>3, CurveCases
  <2>2. u \in CurvePoints /\ \E m, n \in Int : Line(m, n, p, s, Opp(u))
    BY <1>3, <2>1, SumLine
  <2>3. u # p
    BY <2>1, SumMoves
  <2> HIDE DEF u
  <2>4. /\ a \in CurvePoints /\ b \in CurvePoints /\ u # Opp(a)
        /\ a \in AffinePoints /\ b \in AffinePoints /\ u \in AffinePoints
        /\ Opp(u) \in AffinePoints /\ Opp(Opp(u)) = u /\ Opp(b) = s
    BY <2>1, <2>2, <2>3, OppOfPoints, CurveCases
  <2>5. PICK m, n \in Int : Line(m, n, p, s, Opp(u))
    BY <2>2
  <2>6. Line(0 - m, 0 - n, a, b, u)
    BY <2>1, <2>4, <2>5, OppositeLine, CurveCases
  <2> HIDE DEF a, b
  <2>7. 0 - m \in Int /\ 0 - n \in Int
    OBVIOUS
  <2>8. Line(0 - m, 0 - n, a, u, b)
    BY <2>4, <2>6, <2>7, LineSymmetric
  <2>9. EcAdd(a, u) = Opp(b)
    BY <2>2, <2>4, <2>7, <2>8, LineSum
  <2> QED BY <2>4, <2>9 DEF u, a
<1> QED BY <1>1, <1>2, <1>3

-------------------------------------------------------------------------------
(***************************************************************************)
(* Associativity. The line through p and q and the line that adds s to     *)
(* u = p + q meet the curve in p, q, -u, and u, s and -(u + s). Through    *)
(* u and -u goes a vertical line; divided by it the product of the two     *)
(* lines is a conic, x * x + b * x + c = d * y, that meets the curve in    *)
(* p, q, s and -(u + s). Taken the other way round the sum gives a conic   *)
(* through p, q and s as well: the two are one, and so is the fourth       *)
(* point. Where points coincide, tangents take the place of points.        *)
(***************************************************************************)
\* The conic x * x + b * x + c = d * y meets the line of m and n at p and q.
Factors(b, c, d, m, n, p, q) ==
  /\ Same(b, d * m - (p[1] + q[1]))
  /\ Same(c, p[1] * q[1] + d * n)

Vanishes(b, c, d, p) == Same((p[1] * p[1] + b * p[1]) + c, d * p[2])

LEMMA FactorsVanish ==
  ASSUME NEW b \in Int, NEW c \in Int, NEW d \in Int, NEW m \in Int, NEW n \in Int,
         NEW p \in AffinePoints, NEW q \in AffinePoints,
         Factors(b, c, d, m, n, p, q), On(m, n, p), On(m, n, q)
  PROVE  Vanishes(b, c, d, p) /\ Vanishes(b, c, d, q)
<1> DEFINE x == p[1]
           y == p[2]
           v == q[1]
           w == q[2]
<1>1. x \in Int /\ y \in Int /\ v \in Int /\ w \in Int
  BY AffineFacts
<1>2. /\ Same(b, d * m - (x + v)) /\ Same(c, x * v + d * n)
      /\ Same(y, m * x + n) /\ Same(w, m * v + n)
  BY DEF Factors, On
<1> HIDE DEF x, y, v, w
<1>3. x + v = v + x /\ x * v = v * x
  BY <1>1
<1>4. Same(b, d * m - (v + x)) /\ Same(c, v * x + d * n)
  BY <1>2, <1>3
<1>5. Same((x * x + b * x) + c, d * y)
  BY <1>1, <1>2, ConicAtRoot
<1>6. Same((v * v + b * v) + c, d * w)
  BY <1>1, <1>2, <1>4, ConicAtRoot
<1> QED BY <1>5, <1>6 DEF Vanishes, x, y, v, w

\* The conic of the two lines that add s to the sum u of p and q.
TwoLines(b, c, d, m1, n1, m2, n2, p, q, u, s, w) ==
  /\ Same(d, m1 + m2) /\ Same(n1 + n2, 0 - (d * u[1]))
  /\ Factors(b, c, d, m1, n1, p, q) /\ Factors(b, c, d, m2, n2, s, w)
  /\ Vanishes(b, c, d, p) /\ Vanishes(b, c, d, q)
  /\ Vanishes(b, c, d, s) /\ Vanishes(b, c, d, w)
  /\ Same(2 * b, d * d - ((p[1] + q[1]) + (s[1] + w[1])))

LEMMA ConicOfLines ==
  ASSUME NEW m1 \in Int, NEW n1 \in Int, NEW m2 \in Int, NEW n2 \in Int,
         NEW p \in AffinePoints, NEW q \in AffinePoints, NEW u \in AffinePoints,
         NEW s \in AffinePoints, NEW w \in AffinePoints,
         Line(m1, n1, p, q, Opp(u)), Line(m2, n2, u, s, w)
  PROVE  \E b, c, d \in Int : TwoLines(b, c, d, m1, n1, m2, n2, p, q, u, s, w)
<1> DEFINE o == Opp(u)
           pp == p[1]
           qq == q[1]
           uu == u[1]
           ss == s[1]
           ww == w[1]
           v == u[2]
           z == o[2]
           l == Lambda
           d == m1 + m2
           b == d * m1 - (pp + qq)
           c == pp * qq + d * n1
<1>1. o[1] = uu /\ Same(z, 0 - v) /\ o \in AffinePoints
  BY OppFacts
<1>2. /\ pp \in Int /\ qq \in Int /\ uu \in Int /\ ss \in Int /\ ww \in Int
      /\ v \in Int /\ z \in Int /\ l \in Int
  BY <1>1, AffineFacts, LineFacts
<1>3. /\ Same((pp + qq) + uu, m1 * m1 + (l + 1))
      /\ Same((pp * qq + pp * uu) + qq * uu, l - 2 * (m1 * n1))
      /\ Same(z, m1 * uu + n1)
  BY <1>1 DEF Line, On, Roots
<1>4. /\ Same((uu + ss) + ww, m2 * m2 + (l + 1))
      /\ Same((uu * ss + uu * ww) + ss * ww, l - 2 * (m2 * n2))
      /\ Same(v, m2 * uu + n2)
  BY DEF Line, On, Roots
<1> HIDE DEF o, pp, qq, uu, ss, ww, v, z, l
<1>5. d \in Int /\ b \in Int /\ c \in Int
  BY <1>2
<1>6. Same(d, m1 + m2)
  BY <1>5, SameReflexive
<1>7. Same(n1 + n2, 0 - (d * uu))
  <2>1. Same(0 - v, m1 * uu + n1)
    <3>1. 0 - v \in Int /\ m1 * uu + n1 \in Int
      BY <1>2
    <3> QED BY <1>1, <1>2, <1>3, <3>1, SameSymmetric, SameTransitive
  <2> HIDE DEF d
  <2> QED BY <1>2, <1>4, <1>5, <1>6, <2>1, MeetingLines
<1>8. Same(b, d * m1 - (pp + qq)) /\ Same(c, pp * qq + d * n1)
  BY <1>5, SameReflexive
<1>9. Same(b, d * m2 - (ss + ww))
  <2> HIDE DEF b, c, d
  <2> DEFINE e == l + 1
  <2>1. /\ RootSum(pp, qq, uu, m1, e) /\ RootSum(uu, ss, ww, m2, e)
        /\ Leading(b, d, m1, pp, qq) /\ e \in Int
    BY <1>2, <1>3, <1>4, <1>8 DEF Leading, RootSum
  <2> HIDE DEF e
  <2>2. Leading(b, d, m2, ss, ww)
    BY <1>2, <1>5, <1>6, <2>1, ConicLinear
  <2> QED BY <2>2 DEF Leading
<1>10. Same(c, ss * ww + d * n2)
  <2>1. Same(n1 + n2, 0 - ((m1 + m2) * uu))
    BY <1>7
  <2>2. Same(pp * qq + (m1 + m2) * n1, ss * ww + (m1 + m2) * n2)
    <3> HIDE DEF b, c, d
    <3> DEFINE e == l + 1
    <3>1. e \in Int /\ RootSum(pp, qq, uu, m1, e) /\ RootSum(uu, ss, ww, m2, e)
      BY <1>2, <1>3, <1>4 DEF RootSum
    <3>2. /\ RootPairs(pp, qq, uu, m1, n1, l) /\ RootPairs(uu, ss, ww, m2, n2, l)
          /\ LinesMeet(m1, n1, m2, n2, uu)
      BY <1>3, <1>4, <2>1 DEF RootPairs, LinesMeet
    <3> HIDE DEF e
    <3> QED BY <1>2, <3>1, <3>2, ConicProduct
  <2> QED BY <2>2
<1> HIDE DEF b, c, d
<1>11. Factors(b, c, d, m1, n1, p, q) /\ Factors(b, c, d, m2, n2, s, w)
  BY <1>8, <1>9, <1>10 DEF Factors, pp, qq, ss, ww
<1>12. /\ Vanishes(b, c, d, p) /\ Vanishes(b, c, d, q)
       /\ Vanishes(b, c, d, s) /\ Vanishes(b, c, d, w)
  BY <1>5, <1>11, FactorsVanish DEF Line
<1>13. Same(2 * b, d * d - ((pp + qq) + (ss + ww)))
  BY <1>2, <1>5, <1>6, <1>8, <1>9, ConicSum
<1> QED BY <1>5, <1>6, <1>7, <1>11, <1>12, <1>13 DEF TwoLines, pp, qq, ss, ww, uu

\* Two conics through three points that are not on a line are one.
LEMMA ConicsAgree ==
  ASSUME NEW m \in Int, NEW n \in Int,
         NEW p \in AffinePoints, NEW q \in AffinePoints, NEW s \in AffinePoints,
         NEW b \in Int, NEW c \in Int, NEW d \in Int,
         NEW b2 \in Int, NEW c2 \in Int, NEW d2 \in Int,
         On(m, n, p), On(m, n, q), ~ On(m, n, s), ~ Divisible(p[1] - q[1]),
         Vanishes(b, c, d, p), Vanishes(b, c, d, q), Vanishes(b, c, d, s),
         Vanishes(b2, c2, d2, p), Vanishes(b2, c2, d2, q), Vanishes(b2, c2, d2, s)
  PROVE  Same(b, b2) /\ Same(c, c2) /\ Same(d, d2)
<1> DEFINE p1 == p[1]
           p2 == p[2]
           q1 == q[1]
           q2 == q[2]
           s1 == s[1]
           s2 == s[2]
           e == b - b2
           f == c - c2
           g == d - d2
<1>1. p1 \in Int /\ p2 \in Int /\ q1 \in Int /\ q2 \in Int /\ s1 \in Int /\ s2 \in Int
  BY AffineFacts
<1>2. e \in Int /\ f \in Int /\ g \in Int
  OBVIOUS
<1>3. /\ Same((p1 * p1 + b * p1) + c, d * p2) /\ Same((p1 * p1 + b2 * p1) + c2, d2 * p2)
      /\ Same((q1 * q1 + b * q1) + c, d * q2) /\ Same((q1 * q1 + b2 * q1) + c2, d2 * q2)
      /\ Same((s1 * s1 + b * s1) + c, d * s2) /\ Same((s1 * s1 + b2 * s1) + c2, d2 * s2)
      /\ Same(p2, m * p1 + n) /\ Same(q2, m * q1 + n) /\ ~ Same(s2, m * s1 + n)
      /\ ~ Divisible(p1 - q1)
  BY DEF On, Vanishes
<1> HIDE DEF p1, p2, q1, q2, s1, s2
<1>4. Same(e * p1 + f, g * p2) /\ Same(e * q1 + f, g * q2) /\ Same(e * s1 + f, g * s2)
  BY <1>1, <1>3, ConicDifference
<1> HIDE DEF e, f, g
<1>5. Same((p1 - q1) * (e - g * m), 0)
  BY <1>1, <1>2, <1>3, <1>4, SlopeProduct
<1>6. \A x \in Int : x - 0 = x
  OBVIOUS
<1>7. Same(e, g * m)
  <2>1. p1 - q1 \in Int /\ e - g * m \in Int /\ (p1 - q1) * (e - g * m) \in Int
    BY <1>1, <1>2
  <2>2. Divisible((p1 - q1) * (e - g * m))
    BY <1>5, <1>6, <2>1 DEF Same
  <2> QED BY <1>3, <2>1, <2>2, PrimeDividesFactor DEF Same
<1>8. Same(f, g * n)
  BY <1>1, <1>2, <1>3, <1>4, <1>7, SlopeIntercept
<1>9. Divisible(g)
  <2> DEFINE t == s2 - (m * s1 + n)
  <2>1. t \in Int /\ ~ Divisible(t)
    BY <1>1, <1>3 DEF Same
  <2>2. Same(g * t, 0)
    BY <1>1, <1>2, <1>4, <1>7, <1>8, SlopeElsewhere
  <2> HIDE DEF t
  <2>3. g * t \in Int
    BY <1>2, <2>1
  <2>4. Divisible(g * t)
    BY <1>6, <2>2, <2>3 DEF Same
  <2> QED BY <1>2, <2>1, <2>4, PrimeDividesFactor
<1>10. ASSUME NEW x \in Int, NEW k \in Int, Same(x, g * k) PROVE Divisible(x)
  <2> DEFINE A == x - g * k
             B == g
  <2>1. A \in Int /\ Divisible(A) /\ B \in Int /\ Divisible(B) /\ 1 \in Int
    BY <1>2, <1>9, <1>10 DEF Same
  <2>2. Combine(1, A, k, B) = x
    BY <1>2 DEF Combine
  <2> HIDE DEF A, B
  <2> QED BY <2>1, <2>2, Combination
<1>11. Divisible(e) /\ Divisible(f)
  BY <1>2, <1>7, <1>8, <1>10
<1> QED BY <1>9, <1>11 DEF Same, e, f, g

\* Two conics through p and s, both tangent to the curve at p.
LEMMA TangentConicsAgree ==
  ASSUME NEW m \in Int, NEW n \in Int, NEW k \in Int, NEW h \in Int, NEW j \in Int,
         NEW i \in Int,
         NEW p \in AffinePoints, NEW s \in AffinePoints, NEW v \in AffinePoints,
         NEW b \in Int, NEW c \in Int, NEW d \in Int,
         NEW b2 \in Int, NEW c2 \in Int, NEW d2 \in Int,
         Same(2 * (m * p[2]), DerivativeAt(p[1])), ~ Divisible(p[2]),
         ~ Divisible(p[1] - s[1]),
         Line(k, h, p, s, Opp(v)), On(j, i, p),
         Same(d2, k + j), Same(h + i, 0 - (d2 * v[1])),
         Factors(b, c, d, m, n, p, p), Factors(b2, c2, d2, k, h, p, s),
         Vanishes(b, c, d, p), Vanishes(b, c, d, s),
         Vanishes(b2, c2, d2, p), Vanishes(b2, c2, d2, s)
  PROVE  Same(b, b2) /\ Same(c, c2) /\ Same(d, d2)
<1> DEFINE p1 == p[1]
           p2 == p[2]
           s1 == s[1]
           s2 == s[2]
           v1 == v[1]
           l == Lambda
           e == b - b2
           f == c - c2
           g == d - d2
           t == (3 * (p1 * p1) - 2 * ((l + 1) * p1)) + l
<1>1. p1 \in Int /\ p2 \in Int /\ s1 \in Int /\ s2 \in Int /\ v1 \in Int /\ l \in Int
  BY AffineFacts, LineFacts
<1>2. e \in Int /\ f \in Int /\ g \in Int
  OBVIOUS
<1>3. Opp(v)[1] = v1
  BY OppFacts
<1>4. /\ Same((p1 * p1 + b * p1) + c, d * p2) /\ Same((p1 * p1 + b2 * p1) + c2, d2 * p2)
      /\ Same((s1 * s1 + b * s1) + c, d * s2) /\ Same((s1 * s1 + b2 * s1) + c2, d2 * s2)
      /\ Same(p2, k * p1 + h) /\ Same(s2, k * s1 + h) /\ Same(p2, j * p1 + i)
      /\ Same(b, d * m - (p1 + p1)) /\ Same(b2, d2 * k - (p1 + s1))
      /\ ~ Divisible(p1 - s1) /\ ~ Divisible(p2)
      /\ Same(d2, k + j) /\ Same(h + i, 0 - (d2 * v1))
      /\ Same(2 * (m * p2), t)
  BY DEF On, Line, Vanishes, Factors, DerivativeAt
<1>5. /\ Same((p1 + s1) + v1, k * k + (l + 1))
      /\ Same((p1 * s1 + p1 * v1) + s1 * v1, l - 2 * (k * h))
  BY <1>3 DEF Line, Roots
<1> HIDE DEF p1, p2, s1, s2, v1, l
<1>6. \A x \in Int : x - 0 = x
  OBVIOUS
<1>7. t \in Int
  BY <1>1
<1>8. Same(t, 2 * (k * p2) + (p1 - s1) * (p1 - v1))
  BY <1>1, <1>4, <1>5, TangentDerivative
<1> HIDE DEF t
<1>9. Same(2 * p2, d2 * (p1 - v1))
  BY <1>1, <1>4, TwoLinesAtPoint
<1>10. Same((p1 - v1) * (d2 * (m - k) - (p1 - s1)), 0)
  BY <1>1, <1>4, <1>7, <1>8, <1>9, TangentQuotient
<1>11. ~ Divisible(p1 - v1)
  <2> SUFFICES ASSUME Divisible(p1 - v1) PROVE FALSE
    OBVIOUS
  <2> DEFINE A == 2 * p2 - d2 * (p1 - v1)
             B == p1 - v1
  <2>1. A \in Int /\ B \in Int /\ 1 \in Int /\ Divisible(A) /\ Divisible(B)
    BY <1>1, <1>9 DEF Same
  <2>2. Combine(1, A, d2, B) = 2 * p2
    BY <1>1 DEF Combine
  <2> HIDE DEF A, B
  <2>3. Divisible(2 * p2)
    BY <2>1, <2>2, Combination
  <2> QED BY <1>1, <1>4, <2>3, PrimeDividesFactor, NonzeroElement, FieldElements
<1>12. Same(d2 * (m - k), p1 - s1)
  <2>1. /\ p1 - v1 \in Int /\ d2 * (m - k) - (p1 - s1) \in Int
        /\ (p1 - v1) * (d2 * (m - k) - (p1 - s1)) \in Int
    BY <1>1
  <2>2. Divisible((p1 - v1) * (d2 * (m - k) - (p1 - s1)))
    BY <1>6, <1>10, <2>1 DEF Same
  <2> QED BY <1>11, <2>1, <2>2, PrimeDividesFactor DEF Same
<1>13. Same(e, g * m)
  BY <1>1, <1>4, <1>12, TangentDifference
<1>14. Same(e * p1 + f, g * p2) /\ Same(e * s1 + f, g * s2)
  BY <1>1, <1>4, ConicDifference
<1> HIDE DEF e, f, g
<1>15. Same((p1 - s1) * (e - g * k), 0)
  BY <1>1, <1>2, <1>4, <1>14, SlopeProduct
<1>16. Same(e, g * k)
  <2>1. p1 - s1 \in Int /\ e - g * k \in Int /\ (p1 - s1) * (e - g * k) \in Int
    BY <1>1, <1>2
  <2>2. Divisible((p1 - s1) * (e - g * k))
    BY <1>6, <1>15, <2>1 DEF Same
  <2> QED BY <1>4, <2>1, <2>2, PrimeDividesFactor DEF Same
<1>17. ~ Divisible(m - k)
  <2> SUFFICES ASSUME Divisible(m - k) PROVE FALSE
    OBVIOUS
  <2> DEFINE A == d2 * (m - k) - (p1 - s1)
             B == m - k
             r == 0 - 1
  <2>1. A \in Int /\ B \in Int /\ r \in Int /\ Divisible(A) /\ Divisible(B)
    BY <1>1, <1>12 DEF Same
  <2>2. Combine(r, A, d2, B) = p1 - s1
    BY <1>1 DEF Combine
  <2> HIDE DEF A, B, r
  <2>3. Divisible(Combine(r, A, d2, B))
    BY <1>1, <2>1, Combination
  <2> QED BY <1>4, <2>2, <2>3
<1>18. Divisible(g)
  <2> DEFINE A == e - g * k
             B == e - g * m
             r == 0 - 1
  <2>1. A \in Int /\ B \in Int /\ r \in Int /\ 1 \in Int /\ Divisible(A) /\ Divisible(B)
    BY <1>2, <1>13, <1>16 DEF Same
  <2>2. Combine(1, A, r, B) = g * (m - k)
    BY <1>2 DEF Combine
  <2> HIDE DEF A, B, r
  <2>3. Divisible(g * (m - k)) /\ m - k \in Int
    BY <2>1, <2>2, Combination
  <2> QED BY <1>2, <1>17, <2>3, PrimeDividesFactor
<1>19. Divisible(e)
  <2> DEFINE A == e - g * k
             B == g
  <2>1. A \in Int /\ Divisible(A) /\ B \in Int /\ Divisible(B) /\ 1 \in Int
    BY <1>2, <1>16, <1>18 DEF Same
  <2>2. Combine(1, A, k, B) = e
    BY <1>2 DEF Combine
  <2> HIDE DEF A, B
  <2> QED BY <2>1, <2>2, Combination
<1>20. Divisible(f)
  <2> DEFINE A == (e * p1 + f) - g * p2
             B == g
             C == e
             r == 0 - p1
  <2>1. /\ A \in Int /\ Divisible(A) /\ B \in Int /\ Divisible(B) /\ C \in Int /\ Divisible(C)
        /\ 1 \in Int /\ r \in Int
    BY <1>1, <1>2, <1>14, <1>18, <1>19 DEF Same
  <2>2. Combine3(1, A, p2, B, r, C) = f
    BY <1>1, <1>2 DEF Combine3, Combine
  <2> HIDE DEF A, B, C, r
  <2> QED BY <1>1, <2>1, <2>2, Combination3
<1> QED BY <1>18, <1>19, <1>20 DEF Same, e, f, g

\* The same conic meets the curve in the same fourth point.
LEMMA FourthPoint ==
  ASSUME NEW p \in AffinePoints, NEW q \in AffinePoints, NEW s \in AffinePoints,
         NEW w \in AffinePoints, NEW z \in AffinePoints,
         NEW b \in Int, NEW c \in Int, NEW d \in Int,
         NEW b2 \in Int, NEW c2 \in Int, NEW d2 \in Int,
         Same(b, b2), Same(c, c2), Same(d, d2), ~ Divisible(d),
         Vanishes(b, c, d, w), Vanishes(b2, c2, d2, z),
         Same(2 * b, d * d - ((p[1] + q[1]) + (s[1] + w[1]))),
         Same(2 * b2, d2 * d2 - ((q[1] + s[1]) + (p[1] + z[1])))
  PROVE  w = z
<1> DEFINE p1 == p[1]
           q1 == q[1]
           s1 == s[1]
           w1 == w[1]
           w2 == w[2]
           z1 == z[1]
           z2 == z[2]
<1>1. /\ p1 \in Int /\ q1 \in Int /\ s1 \in Int
      /\ w1 \in Int /\ w2 \in Int /\ z1 \in Int /\ z2 \in Int
      /\ w1 \in Field /\ z1 \in Field /\ w2 \in Field /\ z2 \in Field
  BY AffineFacts
<1>2. /\ Same(2 * b, d * d - ((p1 + q1) + (s1 + w1)))
      /\ Same(2 * b2, d2 * d2 - ((q1 + s1) + (p1 + z1)))
      /\ Same((w1 * w1 + b * w1) + c, d * w2) /\ Same((z1 * z1 + b2 * z1) + c2, d2 * z2)
  BY DEF Vanishes
<1> HIDE DEF p1, q1, s1, w1, w2, z1, z2
<1>3. Same(w1, z1)
  BY <1>1, <1>2, EqualSums
<1>4. w1 = z1
  BY <1>1, <1>3, SameElements
<1>5. Same((w1 * w1 + b2 * w1) + c2, d2 * z2)
  BY <1>2, <1>4
<1>6. Same(d * (w2 - z2), 0)
  BY <1>1, <1>2, <1>5, EqualOrdinates
<1>7. Same(w2, z2)
  <2>1. w2 - z2 \in Int /\ d * (w2 - z2) \in Int
    BY <1>1
  <2>2. \A x \in Int : x - 0 = x
    OBVIOUS
  <2>3. Divisible(d * (w2 - z2))
    BY <1>6, <2>1, <2>2 DEF Same
  <2> QED BY <2>1, <2>3, PrimeDividesFactor DEF Same
<1> QED BY <1>3, <1>7, EqualPoints DEF w1, w2, z1, z2

\* Off the line through p and q the conic is not two vertical lines.
LEMMA ConicIsProper ==
  ASSUME NEW m \in Int, NEW n \in Int,
         NEW p \in AffinePoints, NEW q \in AffinePoints, NEW s \in AffinePoints,
         NEW b \in Int, NEW c \in Int, NEW d \in Int,
         Factors(b, c, d, m, n, p, q), Vanishes(b, c, d, s),
         ~ Divisible(s[1] - p[1]), ~ Divisible(s[1] - q[1])
  PROVE  ~ Divisible(d) /\ ~ On(m, n, s)
<1> DEFINE p1 == p[1]
           q1 == q[1]
           s1 == s[1]
           s2 == s[2]
           g == s1 - p1
           h == s1 - q1
           t == s2 - (m * s1 + n)
<1>1. p1 \in Int /\ q1 \in Int /\ s1 \in Int /\ s2 \in Int
  BY AffineFacts
<1>2. /\ Same(b, d * m - (p1 + q1)) /\ Same(c, p1 * q1 + d * n)
      /\ Same((s1 * s1 + b * s1) + c, d * s2)
      /\ ~ Divisible(g) /\ ~ Divisible(h)
      /\ On(m, n, s) <=> Divisible(t)
  BY DEF Factors, Vanishes, On, Same
<1> HIDE DEF p1, q1, s1, s2
<1>3. g \in Int /\ h \in Int /\ t \in Int
  BY <1>1
<1>4. Same(d * t, g * h)
  BY <1>1, <1>2, ConicElsewhere
<1> HIDE DEF g, h, t
<1>5. ~ Divisible(g * h)
  BY <1>2, <1>3, PrimeDividesFactor
<1>6. ASSUME Divisible(d) \/ Divisible(t) PROVE FALSE
  <2>1. Divisible(d * t)
    <3>1. t * d = d * t
      BY <1>3
    <3> QED BY <1>3, <1>6, <3>1, Multiple
  <2> DEFINE A == d * t - g * h
             B == d * t
             k == 0 - 1
  <2>2. A \in Int /\ B \in Int /\ k \in Int /\ 1 \in Int /\ Divisible(A) /\ Divisible(B)
    BY <1>3, <1>4, <2>1 DEF Same
  <2>3. Combine(k, A, 1, B) = g * h
    BY <1>3 DEF Combine
  <2> HIDE DEF A, B, k
  <2> QED BY <1>5, <2>2, <2>3, Combination
<1> QED BY <1>2, <1>6

\* Two points with one abscissa are the same or opposite.
LEMMA SameAbscissa ==
  ASSUME NEW p \in CurvePoints, NEW q \in CurvePoints, Divisible(p[1] - q[1])
  PROVE  p = q \/ q = Opp(p)
<1> SUFFICES ASSUME q # Opp(p) PROVE p = q
  OBVIOUS
<1>1. \E m \in Int : Slope(m, p, q)
  BY SumFacts DEF CurvePoints
<1> QED BY <1>1 DEF Slope

LEMMA TangentOfLine ==
  ASSUME NEW m \in Int, NEW n \in Int, NEW p \in CurvePoints, NEW r \in AffinePoints,
         Line(m, n, p, p, r), p # Opp(p)
  PROVE  ~ Divisible(p[2]) /\ Same(2 * (m * p[2]), DerivativeAt(p[1]))
<1> DEFINE a == p[1]
           b == p[2]
           x == r[1]
           l == Lambda
           o == Opp(p)
           z == o[2]
<1>1. p \in AffinePoints /\ o \in AffinePoints /\ o[1] = p[1] /\ Same(z, 0 - b)
  BY CurveCases, OppFacts
<1>2. a \in Int /\ b \in Int /\ x \in Int /\ l \in Int /\ z \in Int
  BY <1>1, AffineFacts, LineFacts
<1>3. /\ Same((a + a) + x, m * m + (l + 1))
      /\ Same((a * a + a * x) + a * x, l - 2 * (m * n))
      /\ Same(b, m * a + n)
  BY DEF Line, On, Roots
<1>4. DerivativeAt(p[1]) = (3 * (a * a) - 2 * ((l + 1) * a)) + l
  BY DEF DerivativeAt
<1>5. ~ Divisible(b)
  <2> SUFFICES ASSUME Divisible(b) PROVE FALSE
    OBVIOUS
  <2> HIDE DEF a, b, x, l, z
  <2> DEFINE A == z - (0 - b)
             B == b
             k == 0 - 2
  <2>1. A \in Int /\ B \in Int /\ k \in Int /\ 1 \in Int /\ Divisible(A) /\ Divisible(B)
    BY <1>1, <1>2 DEF Same
  <2>2. Combine(1, A, k, B) = z - b
    BY <1>2 DEF Combine
  <2> HIDE DEF A, B, k
  <2>3. Same(z, b)
    BY <2>1, <2>2, Combination DEF Same
  <2> HIDE DEF o
  <2>4. o = p
    BY <1>1, <1>2, <2>3, EqualPoints, SameReflexive DEF a, b, z
  <2> QED BY <2>4 DEF o
<1> HIDE DEF a, b, x, l, z
<1>6. Same(2 * (m * b), (3 * (a * a) - 2 * ((l + 1) * a)) + l)
  BY <1>2, <1>3, TangentSlope
<1> QED BY <1>4, <1>5, <1>6 DEF b

\* The sums of three points that meet no special case.
LEMMA GenericSum ==
  ASSUME NEW p \in CurvePoints, NEW q \in CurvePoints, NEW s \in CurvePoints,
         q # Opp(p), s # Opp(q), s # Opp(EcAdd(p, q)), EcAdd(q, s) # Opp(p),
         s # p, s # Opp(p), s # q
  PROVE  EcAdd(EcAdd(p, q), s) = EcAdd(p, EcAdd(q, s))
<1> DEFINE u == EcAdd(p, q)
           v == EcAdd(q, s)
           w == EcAdd(u, s)
           z == EcAdd(v, p)
<1>1. u \in CurvePoints /\ \E m, n \in Int : Line(m, n, p, q, Opp(u))
  BY SumLine
<1>2. v \in CurvePoints /\ \E m, n \in Int : Line(m, n, q, s, Opp(v))
  BY SumLine
<1>3. p # Opp(v) /\ z = EcAdd(p, v)
  BY <1>2, CurveCases, OppUnique, Commutative
<1>4. s # Opp(u)
  OBVIOUS
<1> HIDE DEF u, v
<1>5. w \in CurvePoints /\ \E m, n \in Int : Line(m, n, u, s, Opp(w))
  BY <1>1, <1>4, SumLine
<1>6. z \in CurvePoints /\ \E m, n \in Int : Line(m, n, v, p, Opp(z))
  BY <1>2, <1>3, SumLine
<1> HIDE DEF w, z
<1> DEFINE ow == Opp(w)
           oz == Opp(z)
<1>7. /\ p \in AffinePoints /\ q \in AffinePoints /\ s \in AffinePoints
      /\ u \in AffinePoints /\ v \in AffinePoints
      /\ ow \in AffinePoints /\ oz \in AffinePoints /\ Opp(ow) = w /\ Opp(oz) = z
      /\ Opp(v) \in AffinePoints /\ Opp(u) \in AffinePoints
  BY <1>1, <1>2, <1>5, <1>6, CurveCases, OppOfPoints
<1>8. PICK m1, n1 \in Int : Line(m1, n1, p, q, Opp(u))
  BY <1>1
<1>9. PICK m2, n2 \in Int : Line(m2, n2, u, s, ow)
  BY <1>5
<1>10. PICK m3, n3 \in Int : Line(m3, n3, q, s, Opp(v))
  BY <1>2
<1>11. PICK m4, n4 \in Int : Line(m4, n4, v, p, oz)
  BY <1>6
<1> HIDE DEF ow, oz
<1>12. PICK b, c, d \in Int : TwoLines(b, c, d, m1, n1, m2, n2, p, q, u, s, ow)
  BY <1>7, <1>8, <1>9, ConicOfLines
<1>13. PICK b2, c2, d2 \in Int : TwoLines(b2, c2, d2, m3, n3, m4, n4, q, s, v, p, oz)
  BY <1>7, <1>10, <1>11, ConicOfLines
<1>14. ~ Divisible(s[1] - p[1]) /\ ~ Divisible(s[1] - q[1])
  BY SameAbscissa, CurveCases, OppUnique
<1>15. ~ Divisible(d) /\ ~ On(m1, n1, s)
  BY <1>7, <1>12, <1>14, ConicIsProper DEF TwoLines
<1>16. Same(b, b2) /\ Same(c, c2) /\ Same(d, d2)
  <2>1. CASE ~ Divisible(p[1] - q[1])
    <3>1. On(m1, n1, p) /\ On(m1, n1, q)
      BY <1>8 DEF Line
    <3> QED BY <1>7, <1>12, <1>13, <1>15, <2>1, <3>1, ConicsAgree DEF TwoLines
  <2>2. CASE Divisible(p[1] - q[1])
    <3>1. p = q
      BY <2>2, SameAbscissa
    <3>2. ~ Divisible(p[2]) /\ Same(2 * (m1 * p[2]), DerivativeAt(p[1]))
      BY <1>7, <1>8, <3>1, TangentOfLine
    <3>3. Line(m3, n3, p, s, Opp(v)) /\ On(m4, n4, p)
      BY <1>10, <1>11, <3>1 DEF Line
    <3>4. Factors(b, c, d, m1, n1, p, p) /\ Factors(b2, c2, d2, m3, n3, p, s)
      BY <1>12, <1>13, <3>1 DEF TwoLines
    <3>5. /\ Vanishes(b, c, d, p) /\ Vanishes(b, c, d, s)
          /\ Vanishes(b2, c2, d2, p) /\ Vanishes(b2, c2, d2, s)
          /\ Same(d2, m3 + m4) /\ Same(n3 + n4, 0 - (d2 * v[1]))
      BY <1>12, <1>13 DEF TwoLines
    <3>6. ~ Divisible(p[1] - s[1])
      <4>1. p[1] \in Int /\ s[1] \in Int
        BY <1>7, AffineFacts
      <4> QED BY <1>14, <4>1, OppositeDivisible
    <3> QED BY <1>7, <3>2, <3>3, <3>4, <3>5, <3>6, TangentConicsAgree
  <2> QED BY <2>1, <2>2
<1>17. ow = oz
  <2>1. /\ Vanishes(b, c, d, ow) /\ Vanishes(b2, c2, d2, oz)
        /\ Same(2 * b, d * d - ((p[1] + q[1]) + (s[1] + ow[1])))
        /\ Same(2 * b2, d2 * d2 - ((q[1] + s[1]) + (p[1] + oz[1])))
    BY <1>12, <1>13 DEF TwoLines
  <2> QED BY <1>7, <1>15, <1>16, <2>1, FourthPoint
<1>18. w = z
  BY <1>7, <1>17
<1> QED BY <1>3, <1>18 DEF w, u, v

\* What GenericSum leaves: neutral elements, opposites and repeated points.
LEMMA Associative ==
  ASSUME NEW p \in Curve, NEW q \in Curve, NEW s \in Curve
  PROVE  EcAdd(EcAdd(p, q), s) = EcAdd(p, EcAdd(q, s))
<1>1. CASE p = Infinity \/ q = Infinity \/ s = Infinity
  BY <1>1, SumOfInfinity
<1> DEFINE u == EcAdd(p, q)
           v == EcAdd(q, s)
<1>2. /\ u \in Curve /\ v \in Curve /\ Opp(p) \in Curve /\ Opp(q) \in Curve /\ Opp(s) \in Curve
      /\ Opp(Opp(p)) = p /\ Opp(Opp(q)) = q /\ Opp(Opp(s)) = s
  BY SumOnCurve, OppOfPoints
<1>3. CASE q = Opp(p)
  <2>1. u = Infinity /\ p = Opp(q)
    BY <1>3, SumIsInfinity, OppUnique
  <2>2. EcAdd(Opp(q), EcAdd(q, s)) = s
    BY Cancel
  <2> QED BY <2>1, <2>2, SumOfInfinity
<1>4. CASE s = Opp(q)
  <2>1. v = Infinity
    BY <1>4, SumIsInfinity
  <2>2. EcAdd(Opp(q), EcAdd(q, p)) = p
    BY Cancel
  <2>3. EcAdd(u, s) = EcAdd(Opp(q), EcAdd(q, p))
    BY <1>2, <1>4, Commutative
  <2> QED BY <2>1, <2>2, <2>3, SumOfInfinity
<1>5. CASE s = p
  <2>1. EcAdd(u, p) = EcAdd(p, u)
    BY <1>2, Commutative
  <2>2. EcAdd(q, p) = u
    BY Commutative
  <2> QED BY <1>5, <2>1, <2>2
<1>6. CASE s = Opp(p)
  <2>1. EcAdd(Opp(p), u) = q
    BY Cancel
  <2>2. EcAdd(u, s) = q
    BY <1>2, <1>6, <2>1, Commutative
  <2>3. v = EcAdd(s, q) /\ p = Opp(s)
    BY <1>6, Commutative, OppUnique
  <2>4. EcAdd(p, v) = q
    BY <2>3, Cancel
  <2> QED BY <2>2, <2>4
<1>7. CASE s = Opp(u)
  <2>1. EcAdd(u, s) = Infinity
    BY <1>2, <1>7, SumIsInfinity
  <2>2. s = EcAdd(Opp(q), Opp(p))
    BY <1>2, <1>7, OppOfSum, Commutative
  <2>3. v = Opp(p)
    BY <1>2, <2>2, Cancel
  <2> QED BY <1>2, <2>1, <2>3, SumIsInfinity
<1>8. CASE v = Opp(p)
  <2>1. EcAdd(p, v) = Infinity
    BY <1>2, <1>8, SumIsInfinity
  <2>2. p = EcAdd(Opp(q), Opp(s))
    BY <1>2, <1>8, OppOfSum, OppUnique
  <2>3. u = EcAdd(q, p)
    BY Commutative
  <2>4. u = Opp(s)
    BY <1>2, <2>2, <2>3, Cancel
  <2>5. EcAdd(u, s) = Infinity
    BY <1>2, <2>4, SumIsInfinity, OppUnique
  <2> QED BY <2>1, <2>5
<1>9. CASE /\ p # Infinity /\ q # Infinity /\ s # Infinity
           /\ q # Opp(p) /\ s # Opp(q) /\ s # p /\ s # Opp(p) /\ s # Opp(u) /\ v # Opp(p)
  <2>1. p \in CurvePoints /\ q \in CurvePoints /\ s \in CurvePoints
    BY <1>9, CurveCases
  <2>2. CASE s # q
    BY <1>9, <2>1, <2>2, GenericSum
  <2>3. CASE s = q
    \* The sum mirrored: (q + q) + p = q + (q + p).
    <3>1. EcAdd(q, p) = u /\ EcAdd(u, q) = EcAdd(q, u) /\ EcAdd(v, p) = EcAdd(p, v)
      BY <1>2, Commutative
    <3>2. /\ q # Opp(q) /\ p # Opp(q) /\ p # q
      BY <1>9, <2>3, OppUnique
    <3>3. p # Opp(EcAdd(q, q)) /\ EcAdd(q, p) # Opp(q)
      BY <1>2, <1>9, <2>3, <3>1, OppUnique
    <3>4. EcAdd(EcAdd(q, q), p) = EcAdd(q, EcAdd(q, p))
      BY <2>1, <3>2, <3>3, GenericSum
    <3> QED BY <2>3, <3>1, <3>4
  <2> QED BY <2>2, <2>3
<1> QED BY <1>1, <1>3, <1>4, <1>5, <1>6, <1>7, <1>8, <1>9

\* ec_add is the operation of a commutative group on the points of the curve.
THEOREM CurveIsGroup ==
  /\ \A p \in Curve : EcAdd(Infinity, p) = p
  /\ \A p \in Curve : \E opposite \in Curve : EcAdd(p, opposite) = Infinity
  /\ \A p, q \in Curve : EcAdd(p, q) \in Curve /\ EcAdd(p, q) = EcAdd(q, p)
  /\ \A p, q, s \in Curve : EcAdd(EcAdd(p, q), s) = EcAdd(p, EcAdd(q, s))
<1>1. ASSUME NEW p \in Curve PROVE \E opposite \in Curve : EcAdd(p, opposite) = Infinity
  BY OppOfPoints, SumIsInfinity
<1> QED BY <1>1, SumOfInfinity, SumOnCurve, Commutative, Associative

-------------------------------------------------------------------------------
(***************************************************************************)
(* Multiples of a point.                                                   *)
(***************************************************************************)
LEMMA TimesSteps ==
  /\ \A n \in Nat, pt \in Curve : Times[n][pt] \in Curve
  /\ \A pt \in Curve : Times[0][pt] = Infinity
  /\ \A pt \in Curve, n \in Nat : Times[n + 1][pt] = EcAdd(pt, Times[n][pt])
<1> DEFINE S == [Curve -> Curve]
           zero == [pt \in Curve |-> Infinity]
           After(f) == [pt \in Curve |-> EcAdd(pt, f[pt])]
           h == [s \in S \X Nat |-> After(s[1])]
           Step(f) == [n \in Nat |-> [pt \in Curve |->
                         IF n = 0 THEN Infinity ELSE EcAdd(pt, f[n - 1][pt])]]
<1>1. zero \in S
  BY CurveCases
<1>2. ASSUME NEW f \in S PROVE After(f) \in S
  BY SumOnCurve
<1>3. \A s \in S, n \in Nat : h[<<s, n>>] = After(s)
  OBVIOUS
<1>4. StepFunction(S, h)
  <2> HIDE DEF S, After
  <2> QED BY <1>2 DEF StepFunction
<1> HIDE DEF h
<1>5. PICK g : Recursion(g, S, zero, h)
  <2> HIDE DEF S, zero
  <2> QED BY <1>1, <1>4, PrimitiveRecursion
<1>6. g \in [Nat -> S] /\ g[0] = zero /\ \A n \in Nat : g[n + 1] = After(g[n])
  BY <1>3, <1>5 DEF Recursion
<1>7. \A n \in Nat : g[n] = [pt \in Curve |-> IF n = 0 THEN Infinity ELSE EcAdd(pt, g[n - 1][pt])]
  <2> TAKE n \in Nat
  <2>1. CASE n = 0
    BY <1>6, <2>1
  <2>2. CASE n # 0
    <3>1. n - 1 \in Nat /\ (n - 1) + 1 = n
      BY <2>2
    <3>2. g[(n - 1) + 1] = After(g[n - 1])
      BY <1>6, <3>1
    <3> QED BY <2>2, <3>1, <3>2
  <2> QED BY <2>1, <2>2
<1>8. g = Step(g)
  BY <1>6, <1>7
<1>9. Times = CHOOSE f : f = Step(f)
  BY DEF Times
<1> HIDE DEF Step
<1>10. Times = Step(Times)
  BY <1>8, <1>9
<1> USE DEF Step
<1>11. \A n \in Nat, pt \in Curve :
         Times[n][pt] = IF n = 0 THEN Infinity ELSE EcAdd(pt, Times[n - 1][pt])
  BY <1>10
<1>12. \A pt \in Curve : Times[0][pt] = Infinity
  BY <1>11
<1>13. ASSUME NEW pt \in Curve, NEW n \in Nat
       PROVE  Times[n + 1][pt] = EcAdd(pt, Times[n][pt])
  <2>1. n + 1 \in Nat /\ n + 1 # 0 /\ (n + 1) - 1 = n
    OBVIOUS
  <2> QED BY <1>11, <2>1
<1> DEFINE T == {n \in Nat : \A pt \in Curve : Times[n][pt] \in Curve}
<1>14. 0 \in T
  BY <1>12, CurveCases
<1>15. ASSUME NEW n \in T \cap Nat PROVE n + 1 \in T
  BY <1>13, SumOnCurve
<1> HIDE DEF T
<1>16. Nat \subseteq T
  BY <1>14, <1>15, SetInduction
<1> QED BY <1>12, <1>13, <1>16 DEF T

LEMMA TimesOne ==
  \A pt \in Curve : Times[1][pt] = pt
<1> TAKE pt \in Curve
<1>1. 0 + 1 = 1 /\ Times[0 + 1][pt] = EcAdd(pt, Times[0][pt]) /\ Times[0][pt] = Infinity
  BY TimesSteps
<1> QED BY <1>1, SumOfInfinity

LEMMA TimesSum ==
  ASSUME NEW m \in Nat, NEW n \in Nat, NEW pt \in Curve
  PROVE  Times[m + n][pt] = EcAdd(Times[m][pt], Times[n][pt])
<1> DEFINE T == {k \in Nat : Times[k + n][pt] = EcAdd(Times[k][pt], Times[n][pt])}
<1>1. 0 \in T
  <2>1. 0 + n = n
    OBVIOUS
  <2> QED BY <2>1, TimesSteps, SumOfInfinity
<1>2. ASSUME NEW k \in T \cap Nat PROVE k + 1 \in T
  <2>1. (k + 1) + n = (k + n) + 1 /\ k + n \in Nat /\ k + 1 \in Nat
    OBVIOUS
  <2>2. Times[(k + n) + 1][pt] = EcAdd(pt, Times[k + n][pt])
    BY <2>1, TimesSteps
  <2>3. Times[k + 1][pt] = EcAdd(pt, Times[k][pt])
    BY TimesSteps
  <2>4. Times[k][pt] \in Curve /\ Times[n][pt] \in Curve
    BY TimesSteps
  <2>5. EcAdd(EcAdd(pt, Times[k][pt]), Times[n][pt]) = EcAdd(pt, EcAdd(Times[k][pt], Times[n][pt]))
    BY <2>4, Associative
  <2> QED BY <2>1, <2>2, <2>3, <2>5
<1> HIDE DEF T
<1>3. Nat \subseteq T
  BY <1>1, <1>2, SetInduction
<1> QED BY <1>3 DEF T

\* A multiple of a multiple is the multiple by the product.
LEMMA TimesProduct ==
  ASSUME NEW m \in Nat, NEW n \in Nat, NEW pt \in Curve
  PROVE  Times[m * n][pt] = Times[m][Times[n][pt]]
<1> DEFINE q == Times[n][pt]
           T == {k \in Nat : Times[k * n][pt] = Times[k][q]}
<1>0. q \in Curve
  BY TimesSteps
<1>1. 0 \in T
  <2>1. 0 * n = 0
    OBVIOUS
  <2> QED BY <1>0, <2>1, TimesSteps
<1>2. ASSUME NEW k \in T \cap Nat PROVE k + 1 \in T
  <2>1. (k + 1) * n = n + k * n /\ k * n \in Nat /\ k + 1 \in Nat
    <3>1. \A a, b \in Nat : (a + 1) * b = b + a * b /\ a * b \in Nat /\ a + 1 \in Nat
      OBVIOUS
    <3> HIDE DEF T
    <3> QED BY <3>1
  <2>2. Times[n + k * n][pt] = EcAdd(q, Times[k * n][pt])
    BY <2>1, TimesSum
  <2>3. Times[k + 1][q] = EcAdd(q, Times[k][q])
    BY <1>0, TimesSteps
  <2> QED BY <2>1, <2>2, <2>3
<1> HIDE DEF T
<1>3. Nat \subseteq T
  BY <1>1, <1>2, SetInduction
<1> QED BY <1>3 DEF T

LEMMA TimesOfInfinity ==
  \A n \in Nat : Times[n][Infinity] = Infinity
<1> DEFINE T == {n \in Nat : Times[n][Infinity] = Infinity}
<1>1. 0 \in T
  BY TimesSteps, CurveCases
<1>2. ASSUME NEW n \in T \cap Nat PROVE n + 1 \in T
  BY TimesSteps, CurveCases, SumOfInfinity
<1> HIDE DEF T
<1>3. Nat \subseteq T
  BY <1>1, <1>2, SetInduction
<1> QED BY <1>3 DEF T

LEMMA TimesOfOpp ==
  ASSUME NEW n \in Nat, NEW pt \in Curve
  PROVE  Times[n][Opp(pt)] = Opp(Times[n][pt])
<1> DEFINE q == Opp(pt)
           T == {k \in Nat : Times[k][q] = Opp(Times[k][pt])}
<1>0. q \in Curve
  BY OppOfPoints
<1>1. 0 \in T
  BY <1>0, TimesSteps, OppOfPoints
<1>2. ASSUME NEW k \in T \cap Nat PROVE k + 1 \in T
  <2>1. Times[k + 1][q] = EcAdd(q, Times[k][q]) /\ Times[k + 1][pt] = EcAdd(pt, Times[k][pt])
    BY <1>0, TimesSteps
  <2>2. Opp(EcAdd(pt, Times[k][pt])) = EcAdd(Opp(pt), Opp(Times[k][pt]))
    BY TimesSteps, OppOfSum
  <2> QED BY <2>1, <2>2
<1> HIDE DEF T
<1>3. Nat \subseteq T
  BY <1>1, <1>2, SetInduction
<1> QED BY <1>3 DEF T

-------------------------------------------------------------------------------
(***************************************************************************)
(* The order of a point.                                                   *)
(***************************************************************************)
LEMMA CurveIsFinite == IsFiniteSet(Curve) /\ Cardinality(Curve) \in Nat
<1>1. IsFiniteSet(Field)
  BY PrimeFacts, FS_Interval DEF Field
<1>2. IsFiniteSet(AffinePoints)
  BY <1>1, FS_Product DEF AffinePoints
<1>3. IsFiniteSet(AffinePoints \cup {Infinity})
  BY <1>2, FS_AddElement
<1>4. Curve \in SUBSET (AffinePoints \cup {Infinity})
  BY CurveCases
<1>5. IsFiniteSet(Curve)
  BY <1>3, <1>4, FS_Subset
<1> QED BY <1>5, FS_CardinalityType

\* The curve is finite, so that two of its first multiples are equal.
LEMMA SomeMultipleVanishes ==
  ASSUME NEW pt \in Curve
  PROVE  \E n \in 1 .. Cardinality(Curve) : Times[n][pt] = Infinity
<1> DEFINE c == Cardinality(Curve)
           I == 0 .. c
           f == [n \in I |-> Times[n][pt]]
<1>1. c \in Nat /\ IsFiniteSet(Curve)
  BY CurveIsFinite
<1> HIDE DEF c
<1>2. IsFiniteSet(I) /\ Cardinality(I) = c + 1
  BY <1>1, FS_Interval
<1>3. f \in [I -> Curve]
  BY <1>1, TimesSteps
<1> HIDE DEF f
<1>4. \E x, y \in I : x # y /\ f[x] = f[y]
  <2>1. Cardinality(Curve) < Cardinality(I)
    BY <1>1, <1>2 DEF c
  <2> HIDE DEF I
  <2> QED BY <1>1, <1>2, <1>3, <2>1, FS_PigeonHole
<1>5. ASSUME NEW x \in I, NEW y \in I, x < y, f[x] = f[y]
      PROVE  \E n \in 1 .. c : Times[n][pt] = Infinity
  <2> DEFINE d == y - x
  <2>1. d \in 1 .. c /\ d \in Nat /\ x \in Nat /\ d + x = y /\ x + d = y
    BY <1>1, <1>5
  <2>2. Times[x][pt] = Times[y][pt]
    BY <1>5 DEF f
  <2> HIDE DEF d
  <2>3. Times[x + d][pt] = EcAdd(Times[x][pt], Times[d][pt])
    BY <2>1, TimesSum
  <2> DEFINE t == Times[x][pt]
             e == Times[d][pt]
  <2>4. t \in Curve /\ e \in Curve /\ EcAdd(t, e) = t
    BY <2>1, <2>2, <2>3, TimesSteps
  <2> HIDE DEF t, e
  <2>5. EcAdd(Opp(t), EcAdd(t, e)) = e /\ EcAdd(Opp(t), t) = Infinity
    BY <2>4, Cancel, SumIsInfinity, OppOfPoints
  <2>6. e = Infinity
    BY <2>4, <2>5
  <2> QED BY <2>1, <2>6 DEF e
<1>6. PICK x \in I, y \in I : x # y /\ f[x] = f[y]
  BY <1>4
<1>7. x < y \/ y < x
  BY <1>1, <1>6
<1> QED BY <1>5, <1>6, <1>7 DEF c

LEMMA OrderFacts ==
  ASSUME NEW pt \in Curve
  PROVE  /\ Order[pt] \in Nat \ {0} /\ Times[Order[pt]][pt] = Infinity
         /\ \A m \in Nat \ {0} : Times[m][pt] = Infinity => Order[pt] <= m
<1> DEFINE T == {n \in Nat : n # 0 /\ Times[n][pt] = Infinity}
           c == Cardinality(Curve)
           Good(n) == Times[n][pt] = Infinity /\ \A m \in 1 .. n - 1 : Times[m][pt] # Infinity
           f == [q \in Curve |->
                   CHOOSE n \in 1 .. Cardinality(Curve) :
                     /\ Times[n][q] = Infinity
                     /\ \A m \in 1 .. n - 1 : Times[m][q] # Infinity]
<1>1. c \in Nat
  BY CurveIsFinite
<1>2. PICK k \in 1 .. c : Times[k][pt] = Infinity
  BY SomeMultipleVanishes
<1>3. k \in T /\ k <= c
  BY <1>1, <1>2
<1>4. PICK n \in T : \A m \in T : n <= m
  <2>1. T \subseteq Nat
    OBVIOUS
  <2> HIDE DEF T
  <2> QED BY <1>3, <2>1, LeastElement
<1>5. n \in 1 .. c /\ Good(n)
  <2>1. n \in Nat /\ n # 0 /\ Times[n][pt] = Infinity
    OBVIOUS
  <2>2. n <= k
    <3> HIDE DEF T
    <3> QED BY <1>3, <1>4
  <2>3. ASSUME NEW m \in 1 .. n - 1 PROVE Times[m][pt] # Infinity
    <3>1. m \in Nat /\ m # 0 /\ ~ n <= m
      BY <2>1
    <3>2. m \notin T
      <4> HIDE DEF T
      <4> QED BY <1>4, <3>1
    <3> QED BY <3>1, <3>2
  <2> QED BY <1>1, <1>3, <2>1, <2>2, <2>3
<1>6. Order[pt] = f[pt]
  <2>1. Order = Tabulated(f)
    BY DEF Order
  <2> HIDE DEF f
  <2> QED BY <2>1, TabulatedIsFunction
<1>7. f[pt] = CHOOSE j \in 1 .. c : Good(j)
  OBVIOUS
<1>8. Order[pt] \in 1 .. c /\ Good(Order[pt])
  <2> HIDE DEF Good, f, T, c
  <2> QED BY <1>5, <1>6, <1>7
<1>9. Order[pt] \in Nat /\ Order[pt] # 0
  BY <1>1, <1>8
<1>10. ASSUME NEW m \in Nat \ {0}, Times[m][pt] = Infinity PROVE Order[pt] <= m
  <2> SUFFICES ASSUME ~ Order[pt] <= m PROVE FALSE
    OBVIOUS
  <2>1. m \in 1 .. Order[pt] - 1
    BY <1>9
  <2> QED BY <1>8, <1>10, <2>1
<1> QED BY <1>8, <1>9, <1>10

LEMMA NaturalRemainder ==
  ASSUME NEW n \in Nat, NEW d \in Nat \ {0}
  PROVE  /\ n = (n \div d) * d + (n % d) /\ n \div d \in Nat
         /\ n % d \in Nat /\ n % d < d
<1>1. n = d * (n \div d) + (n % d) /\ n \div d \in Nat /\ n % d \in 0 .. d - 1
  OBVIOUS
<1> DEFINE q == n \div d
           r == n % d
<1>2. n = d * q + r /\ q \in Nat /\ r \in 0 .. d - 1
  BY <1>1
<1> HIDE DEF q, r
<1>3. n = q * d + r /\ r \in Nat /\ r < d
  BY <1>2
<1> QED BY <1>2, <1>3 DEF q, r

\* Multiples are those by the remainder modulo the order.
LEMMA OrderDivides ==
  ASSUME NEW pt \in Curve, NEW n \in Nat
  PROVE  /\ Times[n % Order[pt]][pt] = Times[n][pt]
         /\ Times[n][pt] = Infinity <=> n % Order[pt] = 0
<1> DEFINE d == Order[pt]
           q == n \div d
           r == n % d
<1>1. d \in Nat \ {0} /\ Times[d][pt] = Infinity
      /\ \A m \in Nat \ {0} : Times[m][pt] = Infinity => d <= m
  BY OrderFacts
<1> HIDE DEF d
<1>2. n = q * d + r /\ q \in Nat /\ r \in Nat /\ r < d
  BY <1>1, NaturalRemainder
<1> HIDE DEF q, r
<1>3. q * d \in Nat
  BY <1>1, <1>2
<1>4. Times[q * d][pt] = Infinity
  <2>1. Times[q * d][pt] = Times[q][Times[d][pt]]
    BY <1>1, <1>2, TimesProduct
  <2> QED BY <1>1, <1>2, <2>1, TimesOfInfinity
<1>5. Times[q * d + r][pt] = EcAdd(Infinity, Times[r][pt])
  BY <1>2, <1>3, <1>4, TimesSum
<1>6. Times[r][pt] = Times[n][pt]
  BY <1>2, <1>5, SumOfInfinity
<1>7. Times[n][pt] = Infinity <=> r = 0
  <2>1. r = 0 => Times[n][pt] = Infinity
    BY <1>6, TimesSteps
  <2>2. Times[n][pt] = Infinity => r = 0
    <3> SUFFICES ASSUME Times[r][pt] = Infinity, r # 0 PROVE FALSE
      BY <1>6
    <3>1. d <= r
      BY <1>1, <1>2
    <3> QED BY <1>1, <1>2, <3>1
  <2> QED BY <2>1, <2>2
<1> QED BY <1>6, <1>7 DEF d, r

-------------------------------------------------------------------------------
(***************************************************************************)
(* Double-and-add.                                                         *)
(***************************************************************************)
LEMMA RemainderUnique ==
  ASSUME NEW n \in Nat, NEW d \in Nat \ {0}, NEW q \in Nat, NEW r \in Nat,
         n = q * d + r, r < d
  PROVE  n % d = r /\ n \div d = q
<1> DEFINE u == n \div d
           v == n % d
<1>1. n = u * d + v /\ u \in Nat /\ v \in Nat /\ v < d
  BY NaturalRemainder
<1> HIDE DEF u, v
<1>2. \A x, y \in Nat : x > y => x * d >= y * d + d
  <2> TAKE x \in Nat, y \in Nat
  <2> HAVE x > y
  <2> DEFINE e == x - (y + 1)
  <2>1. e \in Nat /\ x = e + (y + 1)
    OBVIOUS
  <2> HIDE DEF e
  <2>2. (e + (y + 1)) * d = e * d + (y * d + d) /\ e * d \in Nat
    BY <2>1
  <2> QED BY <2>1, <2>2
<1>3. u * d \in Nat /\ q * d \in Nat
  BY <1>1
<1>4. u = q
  BY <1>1, <1>2, <1>3
<1> QED BY <1>1, <1>3, <1>4 DEF u, v

LEMMA NextRemainder ==
  ASSUME NEW k \in Nat, NEW a \in Nat \ {0}
  PROVE  k % (2 * a) = IF (k \div a) % 2 = 1 THEN (k % a) + a ELSE k % a
<1> DEFINE q == k \div a
           r == k % a
           h == q \div 2
           b == q % 2
<1>1. k = q * a + r /\ q \in Nat /\ r \in Nat /\ r < a
  BY NaturalRemainder
<1>2. q = h * 2 + b /\ h \in Nat /\ b \in Nat /\ b < 2
  <2> HIDE DEF q
  <2> QED BY <1>1, NaturalRemainder
<1> HIDE DEF q, r
<1> HIDE DEF h, b
<1>3. 2 * a \in Nat \ {0}
  OBVIOUS
<1>4. CASE b = 1
  <2>1. r + a \in Nat /\ r + a < 2 * a
    BY <1>1
  <2>2. k = h * (2 * a) + (r + a)
    <3>1. (h * 2 + 1) * a = h * (2 * a) + a
      BY <1>2
    <3>2. h * (2 * a) \in Nat
      BY <1>2
    <3> QED BY <1>1, <1>2, <1>4, <3>1, <3>2
  <2>3. k % (2 * a) = r + a
    <3> DEFINE w == 2 * a
    <3>1. w \in Nat \ {0} /\ k = h * w + (r + a) /\ r + a < w
      BY <1>3, <2>1, <2>2
    <3> HIDE DEF w
    <3>2. k % w = r + a
      BY <1>2, <2>1, <3>1, RemainderUnique
    <3> QED BY <3>2 DEF w
  <2> QED BY <1>4, <2>3 DEF b, q, r
<1>5. CASE b = 0
  <2>1. r < 2 * a
    BY <1>1
  <2>2. k = h * (2 * a) + r
    <3>1. (h * 2 + 0) * a = h * (2 * a)
      BY <1>2
    <3> QED BY <1>1, <1>2, <1>5, <3>1
  <2>3. k % (2 * a) = r
    <3> DEFINE w == 2 * a
    <3>1. w \in Nat \ {0} /\ k = h * w + r /\ r < w
      BY <1>3, <2>1, <2>2
    <3> HIDE DEF w
    <3>2. k % w = r
      BY <1>1, <1>2, <3>1, RemainderUnique
    <3> QED BY <3>2 DEF w
  <2> QED BY <1>5, <2>3 DEF b, q, r
<1> QED BY <1>2, <1>4, <1>5

\* ec_double, which tests for ordinate 0, is addition to itself.
LEMMA EcDoubleIsSum ==
  ASSUME NEW p \in Curve
  PROVE  EcDouble(p) = EcAdd(p, p)
<1>1. CASE p = Infinity
  BY <1>1 DEF EcDouble, EcAdd
<1>2. CASE p # Infinity
  <2> DEFINE y == p[2]
             s == Add(y, y)
  <2>1. p \in AffinePoints /\ y \in Field /\ y \in Int
    BY <1>2, CurveFacts, AffineFacts
  <2>2. EcAdd(p, p) = IF s = 0 THEN Infinity ELSE EcDouble(p)
    BY <1>2 DEF EcAdd
  <2>3. s = 0 => y = 0
    <3> HIDE DEF y
    <3> SUFFICES ASSUME s = 0 PROVE y = 0
      OBVIOUS
    <3>1. Same(0, y + y)
      BY <2>1, AddSame, SameReflexive
    <3>2. y + y = 2 * y /\ (2 * y) - 0 = 2 * y /\ 2 * y \in Int
      BY <2>1
    <3>3. Divisible(2 * y)
      BY <3>1, <3>2, SameSymmetric DEF Same
    <3>4. Divisible(y)
      BY <2>1, <3>3, PrimeDividesFactor, NonzeroElement, FieldElements
    <3> QED BY <2>1, <3>4, DivisibleElement
  <2>4. y = 0 => EcDouble(p) = Infinity
    BY DEF EcDouble
  <2> QED BY <2>2, <2>3, <2>4
<1> QED BY <1>1, <1>2

\* The loop of ec_scalar_mult, which doubles and adds from the lowest bit, adds
\* the point k times.
THEOREM EcScalarMultIsTimes ==
  ASSUME NEW k \in Nat, NEW p \in Curve
  PROVE  EcScalarMult(k, p) = Times[k][p]
<1> DEFINE n == BitLength(k)
<1>1. n \in Nat /\ PowerOfTwo[n] > k
  BY BitLengthFacts
<1>2. p \in Points
  BY CurveFacts
<1>3. PICK loop : /\ loop[0] = [result |-> Infinity, addend |-> p]
                  /\ \A i \in Nat : i < n => loop[i + 1] = LoopStep(k, loop[i], i)
                  /\ EcScalarMult(k, p) = loop[n].result
  BY <1>2, EcScalarMultLoop
<1> HIDE DEF n
<1> DEFINE T == {i \in Nat : i <= n => /\ loop[i].result = Times[k % PowerOfTwo[i]][p]
                                       /\ loop[i].addend = Times[PowerOfTwo[i]][p]}
<1>4. 0 \in T
  <2>1. PowerOfTwo[0] = 1
    BY PowerOfTwoSteps
  <2>2. k % 1 = 0
    OBVIOUS
  <2> QED BY <1>3, <2>1, <2>2, TimesSteps, TimesOne
<1>5. ASSUME NEW i \in T \cap Nat PROVE i + 1 \in T
  <2> SUFFICES ASSUME i + 1 <= n
               PROVE  /\ loop[i + 1].result = Times[k % PowerOfTwo[i + 1]][p]
                      /\ loop[i + 1].addend = Times[PowerOfTwo[i + 1]][p]
    OBVIOUS
  <2> DEFINE a == PowerOfTwo[i]
             r == k % a
  <2>1. /\ i < n /\ loop[i].result = Times[r][p] /\ loop[i].addend = Times[a][p]
        /\ loop[i + 1] = LoopStep(k, loop[i], i)
    BY <1>1, <1>3
  <2>2. a \in Nat \ {0} /\ a \in Nat /\ PowerOfTwo[i + 1] = 2 * a
    BY PowerOfTwoFacts
  <2>3. Bit(k, i) <=> (k \div a) % 2 = 1
    BY DEF Bit
  <2> HIDE DEF a
  <2>4. r \in Nat
    BY <2>2, NaturalRemainder
  <2>5. k % (2 * a) = IF (k \div a) % 2 = 1 THEN r + a ELSE r
    BY <2>2, NextRemainder
  <2> HIDE DEF r
  <2>6. Times[r + a][p] = EcAdd(Times[r][p], Times[a][p])
    BY <2>2, <2>4, TimesSum
  <2>7. Times[2 * a][p] = EcDouble(Times[a][p])
    <3>1. a + a = 2 * a
      BY <2>2
    <3>2. Times[a + a][p] = EcAdd(Times[a][p], Times[a][p])
      BY <2>2, TimesSum
    <3>3. Times[a][p] \in Curve
      BY <2>2, TimesSteps
    <3> QED BY <3>1, <3>2, <3>3, EcDoubleIsSum
  <2>8. /\ loop[i + 1].result = IF Bit(k, i) THEN EcAdd(loop[i].result, loop[i].addend)
                                             ELSE loop[i].result
        /\ loop[i + 1].addend = EcDouble(loop[i].addend)
    BY <2>1 DEF LoopStep
  <2> QED BY <2>1, <2>2, <2>3, <2>5, <2>6, <2>7, <2>8
<1> HIDE DEF T
<1>6. Nat \subseteq T
  BY <1>4, <1>5, SetInduction
<1>7. loop[n].result = Times[k % PowerOfTwo[n]][p]
  BY <1>1, <1>6 DEF T
<1>8. k % PowerOfTwo[n] = k
  <2> DEFINE a == PowerOfTwo[n]
  <2>1. a \in Nat \ {0} /\ k < a /\ k = 0 * a + k
    BY <1>1, PowerOfTwoFacts
  <2> HIDE DEF a
  <2>2. k % a = k
    BY <2>1, RemainderUnique
  <2> QED BY <2>2 DEF a
<1> QED BY <1>3, <1>7, <1>8

-------------------------------------------------------------------------------
(***************************************************************************)
(* The points of the curve that a point of the line stands for.            *)
(***************************************************************************)
LEMMA FromLegendreFacts ==
  ASSUME NEW x \in Field
  PROVE  /\ FromLegendreX(x) \in LinePoints
         /\ Same(FromLegendreX(x).x, B2 * x)
         /\ Same(FromLegendreX(x).z, A2 * (x - 1))
         /\ FromLegendreX(x).z = 0 <=> x = 1
<1> DEFINE a == Mul(B2, x)
           d == Sub(x, 1)
           b == Mul(A2, d)
<1>1. x \in Int /\ A2 \in Int /\ B2 \in Int /\ 1 \in Int
  BY FieldElements, LineFacts
<1>2. a \in Field /\ Same(a, B2 * x)
  BY <1>1, MulSame, SameReflexive
<1>3. d \in Int /\ Same(d, x - 1) /\ x - 1 \in Int
  <2>1. Same(x, x) /\ Same(1, 1)
    BY <1>1, SameReflexive
  <2> QED BY <1>1, <2>1, SubSame
<1> HIDE DEF d
<1>4. b \in Field /\ b \in Int /\ Same(b, A2 * (x - 1))
  BY <1>1, <1>3, MulSame, SameReflexive
<1>5. FromLegendreX(x) = [x |-> a, z |-> b]
  BY DEF FromLegendreX, d
<1> HIDE DEF a, b
<1>6. b = 0 <=> x = 1
  <2> DEFINE e == A2 * (x - 1)
  <2>1. e \in Int
    BY <1>1
  <2>2. b = 0 <=> Divisible(b)
    <3>1. b # 0 => ~ Divisible(b)
      BY <1>4, NonzeroElement
    <3>2. Divisible(0 - 0) /\ 0 - 0 = 0
      BY SameReflexive DEF Same
    <3> QED BY <3>1, <3>2
  <2>3. Divisible(b) <=> Divisible(e)
    <3> DEFINE D == b - e
    <3>1. Divisible(D) /\ D \in Int /\ 1 \in Int /\ 0 - 1 \in Int
      BY <1>4, <2>1 DEF Same
    <3>2. Combine(0 - 1, D, 1, b) = e /\ Combine(1, D, 1, e) = b
      BY <1>4, <2>1 DEF Combine
    <3> HIDE DEF D, e
    <3> QED BY <1>4, <2>1, <3>1, <3>2, Combination
  <2>4. Divisible(e) <=> x = 1
    <3>1. Divisible(e) => Divisible(x - 1)
      BY <1>1, <1>3, LineFacts, PrimeDividesFactor
    <3>2. Divisible(x - 1) => x = 1
      BY FieldElements, SameElements DEF Same
    <3>3. x = 1 => e = 0
      BY <1>1
    <3>4. Divisible(0)
      <4>1. Divisible(0 - 0) /\ 0 - 0 = 0
        BY SameReflexive DEF Same
      <4> QED BY <4>1
    <3> HIDE DEF e
    <3> QED BY <3>1, <3>2, <3>3, <3>4
  <2> QED BY <2>2, <2>3, <2>4
<1> QED BY <1>2, <1>4, <1>5, <1>6 DEF LinePoints

LEMMA ProjectivelySame ==
  ASSUME NEW p \in LinePoints, NEW q \in LinePoints
  PROVE  ProjectivelyEqual(p, q) <=> Same(p.x * q.z, q.x * p.z)
<1> DEFINE a == p.x
           b == q.z
           c == q.x
           d == p.z
           l == Mul(a, b)
           r == Mul(c, d)
<1>1. a \in Int /\ b \in Int /\ c \in Int /\ d \in Int
  BY Closed DEF LinePoints
<1> HIDE DEF a, b, c, d
<1>2. l \in Field /\ l \in Int /\ Same(l, a * b) /\ a * b \in Int
  BY <1>1, MulSame, SameReflexive
<1>3. r \in Field /\ r \in Int /\ Same(r, c * d) /\ c * d \in Int
  BY <1>1, MulSame, SameReflexive
<1>4. l = r <=> Same(l, r)
  BY <1>2, <1>3, SameReflexive, SameElements
<1>5. Same(l, r) <=> Same(a * b, c * d)
  <2> DEFINE u == a * b
             v == c * d
  <2> HIDE DEF l, r, u, v
  <2> QED BY <1>2, <1>3, SameSymmetric, SameTransitive DEF u, v
<1> QED BY <1>4, <1>5 DEF ProjectivelyEqual, a, b, c, d

\* The point (B2 : A2).
NeutralOfLine == [x |-> B2, z |-> A2]

LEMMA ToLegendreFacts ==
  ASSUME NEW p \in LinePoints, p.z # 0
  PROVE  LET x == ToLegendreX(p)
             c == A2 * p.x - B2 * p.z
         IN  \/ x = None /\ ProjectivelyEqual(p, NeutralOfLine)
             \/ /\ x \in Field /\ ~ ProjectivelyEqual(p, NeutralOfLine)
                /\ c \in Int /\ ~ Divisible(c) /\ Same(x * c, A2 * p.x)
<1> DEFINE a == A2 * p.x
           b == B2 * p.z
           c == a - b
           n == Mul(A2, p.x)
           e == Mul(B2, p.z)
           d == Sub(n, e)
           x == ToLegendreX(p)
<1>1. A2 \in Int /\ B2 \in Int /\ p.x \in Int /\ p.z \in Int
  BY LineFacts, Closed DEF LinePoints
<1>2. a \in Int /\ b \in Int /\ c \in Int
  BY <1>1
<1>3. n \in Field /\ n \in Int /\ Same(n, a) /\ e \in Field /\ e \in Int /\ Same(e, b)
  BY <1>1, MulSame, SameReflexive
<1>4. Mul(p.x, A2) = n
  <2>1. p.x * A2 = A2 * p.x
    BY <1>1
  <2> QED BY <2>1 DEF Mul
<1>5. ProjectivelyEqual(p, NeutralOfLine) <=> n = e
  BY <1>4 DEF ProjectivelyEqual, NeutralOfLine
<1>6. x = IF d = 0 THEN None ELSE Mul(n, Inv[d])
  BY DEF ToLegendreX
<1> HIDE DEF a, b, n, e, x
<1>7. d \in Field /\ d \in Int /\ Same(d, n - e) /\ Same(d, c)
  <2>1. Same(n, n) /\ Same(e, e)
    BY <1>3, SameReflexive
  <2> QED BY <1>2, <1>3, <2>1, SubSame
<1> HIDE DEF d, c
<1>8. d = 0 <=> n = e
  <2>1. d = 0 => n = e
    <3> SUFFICES ASSUME d = 0 PROVE n = e
      OBVIOUS
    <3>1. n - e \in Int
      BY <1>3
    <3>2. Divisible((n - e) - 0)
      BY <1>7, <3>1, OppositeDivisible DEF Same
    <3>3. Same(n, e)
      BY <1>3, <3>1, <3>2 DEF Same
    <3> QED BY <1>3, <3>3, SameElements
  <2>2. n = e => d = 0
    <3> SUFFICES ASSUME n = e PROVE d = 0
      OBVIOUS
    <3>1. Same(d, 0) /\ 0 \in Field
      BY <1>3, <1>7, FieldElements
    <3> QED BY <1>7, <3>1, SameElements
  <2> QED BY <2>1, <2>2
<1>9. ASSUME d # 0 PROVE x \in Field /\ ~ Divisible(c) /\ Same(x * c, a)
  <2>1. d \in Field \ {0} /\ ~ Divisible(d)
    BY <1>7, <1>9, NonzeroElement
  <2>2. x \in Field /\ x \in Int /\ Same(x * d, n)
    BY <1>3, <1>6, <1>9, <2>1, QuotientSame
  <2> DEFINE D == d - c
             E == x * d - n
             F == n - a
  <2>3. D \in Int /\ E \in Int /\ F \in Int /\ 1 \in Int /\ 0 - x \in Int
    BY <1>2, <1>3, <1>7, <2>2
  <2>4. Divisible(D) /\ Divisible(E) /\ Divisible(F)
    BY <1>3, <1>7, <2>2 DEF Same
  <2>5. ~ Divisible(c)
    <3> SUFFICES ASSUME Divisible(c) PROVE FALSE
      OBVIOUS
    <3>1. Combine(1, D, 1, c) = d
      BY <1>2, <1>7 DEF Combine
    <3> HIDE DEF D
    <3> QED BY <1>2, <2>1, <2>3, <2>4, <3>1, Combination
  <2>6. Combine3(0 - x, D, 1, E, 1, F) = x * c - a
    BY <1>2, <1>3, <1>7, <2>2 DEF Combine, Combine3
  <2> HIDE DEF D, E, F
  <2>7. Divisible(x * c - a)
    BY <2>3, <2>4, <2>6, Combination3
  <2> QED BY <2>2, <2>5, <2>7 DEF Same
<1>10. x = None <=> d = 0
  BY <1>6, <1>9, FieldElements DEF None
<1> QED BY <1>2, <1>5, <1>8, <1>9, <1>10 DEF a, b, c, x

LEMMA SameX ==
  ASSUME NEW p \in LinePoints, NEW u \in Field, NEW x \in Field,
         NEW c \in Int, c = A2 * p.x - B2 * p.z, ~ Divisible(c), Same(x * c, A2 * p.x)
  PROVE  ProjectivelyEqual(p, FromLegendreX(u)) <=> u = x
<1> DEFINE q == FromLegendreX(u)
           a == p.x
           b == p.z
           f == q.x
           g == q.z
<1>1. q \in LinePoints /\ Same(f, B2 * u) /\ Same(g, A2 * (u - 1))
  BY FromLegendreFacts
<1>2. /\ A2 \in Int /\ B2 \in Int /\ u \in Int /\ x \in Int
      /\ a \in Int /\ b \in Int
  BY LineFacts, Closed DEF LinePoints
<1> HIDE DEF q
<1>3. f \in Int /\ g \in Int
  BY <1>1, Closed DEF LinePoints
<1>4. ProjectivelyEqual(p, q) <=> Same(a * g, f * b)
  BY <1>1, ProjectivelySame
<1>5. c = A2 * a - B2 * b /\ Same(x * c, A2 * a)
  OBVIOUS
<1> HIDE DEF a, b, f, g
<1> DEFINE K == g - A2 * (u - 1)
           L == f - B2 * u
           M == a * g - f * b
           N == x * c - A2 * a
<1>6. K \in Int /\ L \in Int /\ M \in Int /\ N \in Int /\ 1 \in Int /\ 0 - 1 \in Int
      /\ 0 - a \in Int /\ 0 - b \in Int
  BY <1>2, <1>3
<1>7. Divisible(K) /\ Divisible(L) /\ Divisible(N)
  BY <1>1, <1>5 DEF Same
<1>8. Combine4(0 - a, K, b, L, 1, M, 0 - 1, N) = (u - x) * c
  <2>1. N = x * (A2 * a - B2 * b) - A2 * a
    BY <1>5
  <2>2. Combine4(0 - a, K, b, L, 1, M, 0 - 1, N) = (u - x) * (A2 * a - B2 * b)
    <3> HIDE DEF N
    <3> SUFFICES (0 - a) * K + 1 * (b * L + 1 * (1 * M + (0 - 1) * N)) = (u - x) * (A2 * a - B2 * b)
      BY DEF Combine, Combine3, Combine4
    <3> QED BY <1>2, <1>3, <2>1
  <2> QED BY <1>5, <2>2
<1>9. ASSUME u = x PROVE Combine3(a, K, 0 - b, L, 1, N) = M
  <2>1. N = u * (A2 * a - B2 * b) - A2 * a
    BY <1>5, <1>9
  <2> HIDE DEF N
  <2> SUFFICES a * K + 1 * ((0 - b) * L + 1 * N) = M
    BY DEF Combine, Combine3
  <2> QED BY <1>2, <1>3, <2>1
<1>10. Divisible(M) <=> Same(a * g, f * b)
  BY DEF Same
<1> HIDE DEF K, L, M, N
<1>11. ASSUME Divisible(M) PROVE u = x
  <2>0. u - x \in Int
    BY <1>2
  <2>1. Divisible((u - x) * c)
    <3>1. Divisible(Combine4(0 - a, K, b, L, 1, M, 0 - 1, N))
      BY <1>2, <1>6, <1>7, <1>11, Combination4
    <3> QED BY <1>8, <3>1
  <2>2. Same(u, x)
    BY <2>0, <2>1, PrimeDividesFactor DEF Same
  <2> QED BY <2>2, SameElements
<1>12. ASSUME u = x PROVE Divisible(M)
  <2>1. Divisible(Combine3(a, K, 0 - b, L, 1, N))
    BY <1>2, <1>6, <1>7, Combination3
  <2> QED BY <1>9, <1>12, <2>1
<1> QED BY <1>4, <1>10, <1>11, <1>12 DEF q

LEMMA PointsOfSet ==
  ASSUME NEW p \in LinePoints
  PROVE  PointsOf(p) = IF ProjectivelyEqual(p, NeutralOfLine) THEN {Infinity}
                       ELSE {pt \in Curve \ {Infinity} :
                               ProjectivelyEqual(p, FromLegendreX(pt[1]))}
<1> DEFINE S(q) == IF ProjectivelyEqual(q, NeutralOfLine) THEN {Infinity}
                   ELSE {pt \in Curve \ {Infinity} : ProjectivelyEqual(q, FromLegendreX(pt[1]))}
           row(x) == [z \in Field |-> S([x |-> x, z |-> z])]
           table == [x \in Field |-> Tabulated(row(x))]
<1>1. PointsAt = Tabulated(table)
  BY DEF PointsAt, NeutralOfLine
<1>2. p.x \in Field /\ p.z \in Field /\ p = [x |-> p.x, z |-> p.z]
  BY DEF LinePoints
<1>3. PointsAt[p.x] = row(p.x)
  <2>1. table[p.x] = Tabulated(row(p.x))
    BY <1>2
  <2> HIDE DEF row, table
  <2> QED BY <1>1, <2>1, TabulatedIsFunction DEF table
<1>4. row(p.x)[p.z] = S([x |-> p.x, z |-> p.z])
  BY <1>2
<1> HIDE DEF row
<1>5. PointsOf(p) = S(p)
  <2> HIDE DEF S
  <2> QED BY <1>2, <1>3, <1>4 DEF PointsOf
<1> QED BY <1>5

\* What a point (x : z) with z # 0 stands for.
LEMMA PointsOfLine ==
  ASSUME NEW p \in LinePoints, p.z # 0
  PROVE  \/ ToLegendreX(p) = None /\ PointsOf(p) = {Infinity}
         \/ /\ ToLegendreX(p) \in Field
            /\ PointsOf(p) = {pt \in CurvePoints : pt[1] = ToLegendreX(p)}
<1> DEFINE S(q) == IF ProjectivelyEqual(q, NeutralOfLine) THEN {Infinity}
                   ELSE {pt \in Curve \ {Infinity} : ProjectivelyEqual(q, FromLegendreX(pt[1]))}
<1>1. PointsOf(p) = S(p)
  BY PointsOfSet
<1> DEFINE x == ToLegendreX(p)
           c == A2 * p.x - B2 * p.z
<1>2. \/ x = None /\ ProjectivelyEqual(p, NeutralOfLine)
      \/ /\ x \in Field /\ ~ ProjectivelyEqual(p, NeutralOfLine)
         /\ c \in Int /\ ~ Divisible(c) /\ Same(x * c, A2 * p.x)
  BY ToLegendreFacts
<1>3. Curve \ {Infinity} = CurvePoints /\ \A pt \in CurvePoints : pt[1] \in Field
  BY CurveCases, AffineFacts
<1> HIDE DEF x
<1>4. CASE x = None /\ ProjectivelyEqual(p, NeutralOfLine)
  BY <1>1, <1>4 DEF x
<1>5. CASE /\ x \in Field /\ ~ ProjectivelyEqual(p, NeutralOfLine)
           /\ c \in Int /\ ~ Divisible(c) /\ Same(x * c, A2 * p.x)
  <2>1. \A pt \in CurvePoints : ProjectivelyEqual(p, FromLegendreX(pt[1])) <=> pt[1] = x
    BY <1>3, <1>5, SameX
  <2>2. S(p) = {pt \in CurvePoints : pt[1] = x}
    BY <1>3, <1>5, <2>1
  <2> HIDE DEF S
  <2> QED BY <1>1, <1>5, <2>2 DEF x
<1> HIDE DEF c
<1> QED BY <1>2, <1>4, <1>5 DEF c

\* The point of the line that the code returns for a point of the curve.
LineOf(pt) == IF pt = Infinity THEN KummerInfinity ELSE FromLegendreX(pt[1])

LEMMA LineOfOpp ==
  ASSUME NEW pt \in Curve
  PROVE  LineOf(Opp(pt)) = LineOf(pt)
<1>1. CASE pt = Infinity
  BY <1>1 DEF Opp
<1>2. CASE pt \in CurvePoints
  <2>1. Opp(pt)[1] = pt[1] /\ Opp(pt) # Infinity /\ pt # Infinity
    BY <1>2, CurveCases, OppOfPoints, OppFacts
  <2> QED BY <2>1 DEF LineOf
<1> QED BY <1>1, <1>2, CurveCases

\* The square of an ordinate has a root, which names the point or its opposite.
LEMMA RootOfCubic ==
  ASSUME NEW pt \in CurvePoints
  PROVE  LET y == Sqrt[Cubic(pt[1])]
         IN  y # None /\ <<pt[1], y>> \in CurvePoints /\ <<pt[1], y>> \in {pt, Opp(pt)}
<1> DEFINE x == pt[1]
           c == Cubic(x)
           y == Sqrt[c]
           q == <<x, y>>
<1>1. pt \in AffinePoints /\ x \in Field /\ x \in Int /\ pt[2] \in Int
  BY CurveCases, AffineFacts
<1>2. c \in Field /\ c \in Int /\ Same(c, CubicAt(x)) /\ CubicAt(x) \in Int
  BY <1>1, CubicModulo, LineFacts DEF CubicAt
<1>3. Same(pt[2] * pt[2], CubicAt(x))
  BY <1>1, CurveCases, CurvePoint
<1> HIDE DEF c
<1>4. Same(c, pt[2] * pt[2])
  <2> DEFINE e == CubicAt(x)
             s == pt[2] * pt[2]
  <2>1. s \in Int /\ e \in Int
    BY <1>1, <1>2
  <2> HIDE DEF e, s
  <2>2. Same(c, e) /\ Same(e, s)
    BY <1>2, <1>3, <2>1, SameSymmetric DEF e, s
  <2>3. Same(c, s)
    BY <1>2, <2>1, <2>2, SameTransitive
  <2> QED BY <2>3 DEF s
<1>5. Chi[c] # 0 - 1
  <2>1. Chi[c] = Character(pt[2] * pt[2])
    <3>1. pt[2] * pt[2] \in Int
      BY <1>1
    <3> QED BY <1>2, <1>4, <3>1, CharacterOfElement, CharacterModulo
  <2>2. Character(pt[2] * pt[2]) = Character(pt[2]) * Character(pt[2])
    BY <1>1, CharacterOfProduct
  <2>3. Character(pt[2]) \in {0, 1, 0 - 1}
    BY <1>1, CharacterIsPower
  <2> QED BY <2>1, <2>2, <2>3
<1>6. y # None /\ y \in Field /\ Same(y * y, c)
  BY <1>2, <1>5, SqrtSquared
<1>7. q \in AffinePoints /\ q[1] = x /\ q[2] = y
  BY <1>1, <1>6 DEF AffinePoints
<1> HIDE DEF y, q
<1>8. Same(y * y, CubicAt(x))
  <2> DEFINE e == CubicAt(x)
             s == y * y
  <2>1. s \in Int /\ e \in Int
    BY <1>2, <1>6, FieldElements
  <2> HIDE DEF e, s
  <2> QED BY <1>2, <1>6, <2>1, SameTransitive DEF e, s
<1>9. q \in CurvePoints
  BY <1>7, <1>8, CurvePoint DEF CurvePoints
<1>10. Divisible(pt[1] - q[1])
  BY <1>1, <1>7, SameReflexive DEF Same
<1>11. q = pt \/ q = Opp(pt)
  BY <1>9, <1>10, SameAbscissa
<1> QED BY <1>6, <1>9, <1>11 DEF y, q, c

\* scalar_mult computes the image of the multiple of either point of the
\* curve that a point of the line stands for, whichever root it takes.
THEOREM LineMultiple ==
  ASSUME NEW k \in Nat, NEW p \in LinePoints, p.z # 0, NEW pt \in PointsOf(p)
  PROVE  pt \in Curve /\ ScalarMult(k, p) = LineOf(Times[k][pt])
<1> DEFINE x == ToLegendreX(p)
           y == Sqrt[Cubic(x)]
           q == <<x, y>>
           m == EcScalarMult(k, q)
<1>1. ScalarMult(k, p) =
        IF x = None \/ k = 0 THEN KummerInfinity
        ELSE IF y = None THEN KummerInfinity ELSE LineOf(m)
  BY DEF ScalarMult, LineOf
<1>2. \/ x = None /\ pt = Infinity
      \/ x \in Field /\ pt \in CurvePoints /\ pt[1] = x
  BY PointsOfLine
<1>3. pt \in Curve
  BY <1>2, CurveCases
<1>4. CASE x = None
  <2>1. Times[k][pt] = Infinity
    BY <1>2, <1>4, TimesOfInfinity, FieldElements DEF None
  <2> QED BY <1>1, <1>3, <1>4, <2>1 DEF LineOf
<1>5. CASE k = 0
  <2>1. Times[k][pt] = Infinity
    BY <1>3, <1>5, TimesSteps
  <2> QED BY <1>1, <1>3, <1>5, <2>1 DEF LineOf
<1>6. CASE x # None /\ k # 0
  <2>1. pt \in CurvePoints /\ pt[1] = x
    BY <1>2, <1>6
  <2>2. y # None /\ q \in CurvePoints /\ q \in {pt, Opp(pt)}
    BY <2>1, RootOfCubic
  <2>3. q \in Curve
    BY <2>2, CurveCases
  <2>4. m = Times[k][q]
    <3> HIDE DEF q
    <3> QED BY <2>3, EcScalarMultIsTimes
  <2>5. ScalarMult(k, p) = LineOf(Times[k][q])
    <3> HIDE DEF x, y, m
    <3> QED BY <1>1, <1>6, <2>2, <2>4
  <2> HIDE DEF q
  <2>6. LineOf(Times[k][Opp(pt)]) = LineOf(Times[k][pt])
    BY <1>3, TimesSteps, TimesOfOpp, LineOfOpp
  <2> QED BY <1>3, <2>2, <2>5, <2>6
<1> QED BY <1>4, <1>5, <1>6

LEMMA MultipleIsZero ==
  ASSUME NEW pt \in Curve
  PROVE  /\ LineOf(pt) \in LinePoints
         /\ LineOf(pt).z = 0 <=> pt = Infinity \/ pt = <<1, 0>>
<1>1. CASE pt = Infinity
  BY <1>1, Closed DEF LineOf, KummerInfinity, LinePoints
<1>2. CASE pt \in CurvePoints
  <2>1. pt \in AffinePoints /\ pt # Infinity /\ pt[1] \in Field
    BY <1>2, CurveCases, AffineFacts
  <2>2. LineOf(pt) = FromLegendreX(pt[1])
    BY <2>1 DEF LineOf
  <2>3. LineOf(pt) \in LinePoints /\ (LineOf(pt).z = 0 <=> pt[1] = 1)
    BY <2>1, <2>2, FromLegendreFacts
  <2>4. pt[1] = 1 => pt[2] = 0
    <3> SUFFICES ASSUME pt[1] = 1 PROVE pt[2] = 0
      OBVIOUS
    <3>1. Same(pt[2] * pt[2], CubicAt(1))
      BY <1>2, <2>1, CurvePoint
    <3>2. CubicAt(1) = 0
      BY LineFacts DEF CubicAt
    <3>3. pt[2] \in Field /\ pt[2] \in Int
      BY <2>1, AffineFacts
    <3>4. (pt[2] * pt[2]) - 0 = pt[2] * pt[2]
      BY <3>3
    <3>5. Divisible(pt[2] * pt[2])
      BY <3>1, <3>2, <3>4 DEF Same
    <3>6. Divisible(pt[2])
      BY <3>3, <3>5, PrimeDividesFactor
    <3> QED BY <3>3, <3>6, DivisibleElement
  <2>5. pt[1] = 1 <=> pt = <<1, 0>>
    BY <2>1, <2>4, AffineFacts
  <2> QED BY <2>1, <2>3, <2>5
<1> QED BY <1>1, <1>2, CurveCases

\* No abscissa gives the point (B2 : A2).
LEMMA NotNeutral ==
  ASSUME NEW x \in Field
  PROVE  ~ ProjectivelyEqual(FromLegendreX(x), NeutralOfLine)
<1> DEFINE p == FromLegendreX(x)
           a == p.x
           b == p.z
<1>1. p \in LinePoints /\ Same(a, B2 * x) /\ Same(b, A2 * (x - 1))
  BY FromLegendreFacts
<1>2. A2 \in Int /\ B2 \in Int /\ ~ Divisible(A2) /\ ~ Divisible(B2) /\ x \in Int
  BY LineFacts, FieldElements
<1>3. NeutralOfLine \in LinePoints /\ NeutralOfLine.x = B2 /\ NeutralOfLine.z = A2
  BY Closed DEF NeutralOfLine, LinePoints
<1> HIDE DEF p
<1>4. a \in Int /\ b \in Int
  BY <1>1, Closed DEF LinePoints
<1>5. ProjectivelyEqual(p, NeutralOfLine) <=> Same(a * A2, B2 * b)
  BY <1>1, <1>3, ProjectivelySame
<1> HIDE DEF a, b
<1>6. ~ Same(a * A2, B2 * b)
  <2> SUFFICES ASSUME Same(a * A2, B2 * b) PROVE FALSE
    OBVIOUS
  <2> DEFINE K == a - B2 * x
             L == b - A2 * (x - 1)
             M == a * A2 - B2 * b
  <2>1. K \in Int /\ L \in Int /\ M \in Int /\ 0 - A2 \in Int /\ 1 \in Int
    BY <1>2, <1>4
  <2>2. Divisible(K) /\ Divisible(L) /\ Divisible(M)
    BY <1>1 DEF Same
  <2>3. Combine3(0 - A2, K, B2, L, 1, M) = A2 * B2
    BY <1>2, <1>4 DEF Combine, Combine3
  <2> HIDE DEF K, L, M
  <2>4. Divisible(A2 * B2)
    BY <1>2, <2>1, <2>2, <2>3, Combination3
  <2> QED BY <1>2, <2>4, PrimeDividesFactor
<1> QED BY <1>5, <1>6 DEF p

\* A point is among those of its own point of the line.
LEMMA PointOfImage ==
  ASSUME NEW pt \in CurvePoints
  PROVE  pt \in PointsOf(FromLegendreX(pt[1]))
<1>1. pt[1] \in Field /\ pt \in Curve \ {Infinity}
  BY CurveCases, AffineFacts
<1>2. FromLegendreX(pt[1]) \in LinePoints
  BY <1>1, FromLegendreFacts
<1>3. ~ ProjectivelyEqual(FromLegendreX(pt[1]), NeutralOfLine)
  BY <1>1, NotNeutral
<1>4. \A p : ProjectivelyEqual(p, p)
  BY DEF ProjectivelyEqual
<1> QED BY <1>1, <1>2, <1>3, <1>4, PointsOfSet

\* A square root of the cubic names a point.
LEMMA RootOnCurve ==
  ASSUME NEW x \in Field, Sqrt[Cubic(x)] # None
  PROVE  <<x, Sqrt[Cubic(x)]>> \in CurvePoints
<1>1. /\ Cubic(x) \in Field /\ Cubic(x) \in Int /\ Same(Cubic(x), CubicAt(x))
      /\ x \in Int
  BY FieldElements, CubicModulo DEF CubicAt
<1>2. CubicAt(x) \in Int
  BY <1>1, LineFacts DEF CubicAt
<1> DEFINE y == Sqrt[Cubic(x)]
           q == <<x, y>>
<1>3. y \in Field /\ y \in Int /\ Same(y * y, Cubic(x))
  BY <1>1, SqrtSquared, FieldElements
<1> HIDE DEF y
<1>4. Same(y * y, CubicAt(x))
  <2> DEFINE s == y * y
  <2>1. s \in Int
    BY <1>3
  <2> HIDE DEF s
  <2> QED BY <1>1, <1>2, <1>3, <2>1, SameTransitive DEF s
<1>5. q \in AffinePoints /\ q[1] = x /\ q[2] = y
  BY <1>3 DEF AffinePoints
<1> HIDE DEF q
<1>6. Same(q[2] * q[2], CubicAt(q[1]))
  BY <1>4, <1>5
<1>7. q \in CurvePoints
  BY <1>5, <1>6, CurvePoint DEF CurvePoints
<1> QED BY <1>7 DEF q, y

\* A root of the curve's equation that is an abscissa is not 1.
LEMMA RootOfEquation ==
  ASSUME NEW x \in Field, Epsilon(x) = 1
  PROVE  /\ FromLegendreX(x) \in LinePoints /\ FromLegendreX(x).z # 0
         /\ \E pt \in CurvePoints : pt[1] = x
<1>1. x \in Int /\ Cubic(x) \in Field /\ Cubic(x) \in Int /\ Same(Cubic(x), CubicAt(x))
  BY FieldElements, CubicModulo DEF CubicAt
<1>2. Chi[Cubic(x)] = 1
  BY DEF Epsilon
<1>3. x # 1
  <2> SUFFICES ASSUME x = 1 PROVE FALSE
    OBVIOUS
  <2>1. CubicAt(x) = 0
    BY LineFacts DEF CubicAt
  <2>2. Cubic(x) = 0
    BY <1>1, <2>1, SameElements, FieldElements
  <2> QED BY <1>1, <1>2, <2>2, ChiIsPower
<1> DEFINE y == Sqrt[Cubic(x)]
<1>4. y # None
  BY <1>1, <1>2, SqrtSquared
<1>5. <<x, y>> \in CurvePoints
  BY <1>4, RootOnCurve
<1> HIDE DEF y
<1>6. <<x, y>>[1] = x
  OBVIOUS
<1> QED BY <1>3, <1>5, <1>6, FromLegendreFacts

\* Every element is sent to a point of the line that stands for points.
LEMMA EncodeOnCurve ==
  ASSUME NEW t \in Field
  PROVE  Encode(t) \in LinePoints /\ Encode(t).z # 0 /\ PointsOf(Encode(t)) # {}
<1>1. CASE t = 0
  <2>1. Encode(t) = NeutralOfLine
    BY <1>1 DEF Encode, NeutralOfLine
  <2>2. NeutralOfLine \in LinePoints /\ NeutralOfLine.z # 0
    BY Closed, FieldAssumption DEF NeutralOfLine, LinePoints
  <2>3. ProjectivelyEqual(NeutralOfLine, NeutralOfLine)
    BY DEF ProjectivelyEqual
  <2>4. PointsOf(NeutralOfLine) = {Infinity}
    BY <2>2, <2>3, PointsOfSet
  <2> QED BY <2>1, <2>2, <2>4
<1>2. CASE t # 0
  <2> DEFINE v == FirstRoot(t)
             w == OtherRoot(v)
             x == IF Epsilon(v) >= 0 THEN v ELSE w
  <2>1. Encode(t) = FromLegendreX(x)
    BY <1>2 DEF Encode, FirstRoot
  <2>2. v \in Field /\ w \in Field
    BY <1>2, FirstRootFacts, OtherRootFacts
  <2>3. Epsilon(v) \in {1, 0 - 1} /\ Epsilon(w) = 0 - Epsilon(v)
    BY <1>2, EpsilonOpposite
  <2> HIDE DEF v, w
  <2>4. x \in Field /\ Epsilon(x) = 1
    BY <2>2, <2>3
  <2> HIDE DEF x
  <2>5. FromLegendreX(x) \in LinePoints /\ FromLegendreX(x).z # 0
    BY <2>4, RootOfEquation
  <2>6. PICK pt \in CurvePoints : pt[1] = x
    BY <2>4, RootOfEquation
  <2>7. pt \in PointsOf(FromLegendreX(x))
    BY <2>6, PointOfImage
  <2> QED BY <2>1, <2>5, <2>7
<1> QED BY <1>1, <1>2

\* elligator_k1_decode finds a t only where the map has one.
LEMMA DecodeOnlyImages ==
  ASSUME NEW x \in Field, Decode(FromLegendreX(x)) # None
  PROVE  Character(x * OtherRoot(x)) = 0 - 1
<1> DEFINE p == FromLegendreX(x)
           s == LambdaPlusOne
           w == Sub(s, x)
           k == A2 * B2
           a2x == Mul(A2, p.x)
           bz == Mul(B2, p.z)
           d == Sub(a2x, bz)
           num == Sub(a2x, Mul(s, d))
           opp == Neg(a2x)
           g == Mul(Mul(opp, U), num)
<1>1. /\ A2 \in Int /\ B2 \in Int /\ ~ Divisible(A2) /\ ~ Divisible(B2)
      /\ x \in Int /\ s \in Int
  BY LineFacts, FieldElements
<1>2. p \in LinePoints /\ Same(p.x, B2 * x) /\ Same(p.z, A2 * (x - 1))
  BY FromLegendreFacts
<1>3. p.x \in Int /\ p.z \in Int
  <2> HIDE DEF p
  <2> QED BY <1>2, Closed DEF LinePoints
<1>4. Chi[g] = 1
  <2>1. Mul(B2, p.z) # Mul(A2, p.x)
    <3>1. Mul(p.x, A2) = Mul(A2, p.x)
      <4>1. p.x * A2 = A2 * p.x
        BY <1>1, <1>3
      <4> QED BY <4>1 DEF Mul
    <3>2. Mul(p.x, A2) # Mul(B2, p.z)
      BY NotNeutral DEF ProjectivelyEqual, NeutralOfLine
    <3> QED BY <3>1, <3>2
  <2> HIDE DEF p
  <2>2. Decode(p) # None
    BY DEF p
  <2> QED BY <2>1, <2>2 DEF Decode
<1> HIDE DEF p
<1>5. k \in Int /\ ~ Divisible(k)
  BY <1>1, PrimeDividesFactor
<1>6. a2x \in Int /\ Same(a2x, k * x)
  <2>1. a2x \in Int /\ Same(a2x, A2 * (B2 * x))
    <3>1. B2 * x \in Int
      BY <1>1
    <3> QED BY <1>1, <1>2, <1>3, <3>1, MulSame, SameReflexive
  <2>2. A2 * (B2 * x) = k * x
    BY <1>1
  <2> QED BY <2>1, <2>2
<1>7. bz \in Int /\ Same(bz, k * x - k)
  <2>1. bz \in Int /\ Same(bz, B2 * (A2 * (x - 1)))
    <3>1. A2 * (x - 1) \in Int
      BY <1>1
    <3> QED BY <1>1, <1>2, <1>3, <3>1, MulSame, SameReflexive
  <2>2. B2 * (A2 * (x - 1)) = k * x - k
    BY <1>1
  <2> QED BY <2>1, <2>2
<1> HIDE DEF k, a2x, bz, s
<1>8. k * x \in Int /\ k * x - k \in Int
  BY <1>1, <1>5
<1>9. d \in Int /\ Same(d, k)
  <2>1. d \in Int /\ Same(d, k * x - (k * x - k))
    BY <1>6, <1>7, <1>8, SubSame
  <2>2. k * x - (k * x - k) = k
    BY <1>5, <1>8
  <2> QED BY <2>1, <2>2
<1>10. w \in Field /\ w \in Int /\ Same(w, s - x)
  BY <1>1, SubSame, SameReflexive
<1> HIDE DEF d, w
<1>11. num \in Int /\ Same(num, k * x - s * k)
  <2>1. Mul(s, d) \in Int /\ Same(Mul(s, d), s * k) /\ s * k \in Int
    <3>1. Same(s, s) /\ s * k \in Int
      BY <1>1, <1>5, SameReflexive
    <3> QED BY <1>1, <1>5, <1>9, <3>1, MulSame
  <2> QED BY <1>6, <1>8, <2>1, SubSame
<1>12. opp \in Int /\ Same(opp, 0 - k * x)
  BY <1>6, <1>8, NegSame
<1> HIDE DEF num, opp
<1> DEFINE kk == k * k
           v == s - x
           xv == x * v
           kxv == kk * xv
<1>13. g \in Field /\ g \in Int /\ Same(g, 2 * kxv)
  <2>1. Mul(opp, U) \in Int /\ Same(Mul(opp, U), (0 - k * x) * 2)
    <3>1. 2 \in Int /\ Same(2, 2) /\ 0 - k * x \in Int
      BY <1>8, SameReflexive
    <3> QED BY <1>12, <3>1, MulSame DEF U
  <2>2. (0 - k * x) * 2 \in Int /\ k * x - s * k \in Int
    BY <1>1, <1>5, <1>8
  <2>3. g \in Field /\ g \in Int /\ Same(g, ((0 - k * x) * 2) * (k * x - s * k))
    BY <1>11, <2>1, <2>2, MulSame
  <2>4. ((0 - k * x) * 2) * (k * x - s * k) = 2 * kxv
    BY <1>1, <1>5
  <2> QED BY <2>3, <2>4
<1> HIDE DEF g
<1>14. v \in Int /\ kk \in Int /\ xv \in Int /\ kxv \in Int /\ 2 * kxv \in Int
  BY <1>1, <1>5
<1>15. Character(kk) = 1
  BY <1>5, CharacterOfSquare
<1>16. Character(2 * kxv) = Character(2) * Character(kxv)
  <2> HIDE DEF kxv
  <2> QED BY <1>14, CharacterOfProduct
<1>17. Character(kxv) = Character(kk) * Character(xv)
  <2> HIDE DEF kk, xv
  <2> QED BY <1>14, CharacterOfProduct
<1>18. Character(2 * kxv) = 1
  <2> HIDE DEF kxv
  <2> QED BY <1>4, <1>13, <1>14, CharacterModulo, CharacterOfElement
<1>19. Character(xv) \in {0, 1, 0 - 1}
  <2> HIDE DEF xv
  <2> QED BY <1>14, CharacterIsPower
<1>20. Character(xv) = 0 - 1
  <2> HIDE DEF xv, kk, kxv
  <2> QED BY <1>15, <1>16, <1>17, <1>18, <1>19, CharacterOfTwo
<1>21. Same(x * w, xv) /\ x * w \in Int
  <2> DEFINE D == w - v
  <2>1. D \in Int /\ Divisible(D) /\ 0 \in Int /\ x * w \in Int
    BY <1>1, <1>10, <1>14 DEF Same
  <2>2. Combine(x, D, 0, D) = x * w - xv
    BY <1>1, <1>10, <1>14 DEF Combine
  <2> HIDE DEF D
  <2> QED BY <1>1, <2>1, <2>2, Combination DEF Same
<1>22. Character(x * w) = 0 - 1
  <2> HIDE DEF xv
  <2> QED BY <1>14, <1>20, <1>21, CharacterModulo
<1> QED BY <1>22 DEF w, s, OtherRoot

\* What it finds is a preimage: the map sends it to the point itself.
LEMMA DecodedPreimage ==
  ASSUME NEW pt \in CurvePoints, Decode(FromLegendreX(pt[1])) # None
  PROVE  /\ Decode(FromLegendreX(pt[1])) \in Field
         /\ Encode(Decode(FromLegendreX(pt[1]))) = FromLegendreX(pt[1])
<1> DEFINE x == pt[1]
           w == OtherRoot(x)
           t == Decode(FromLegendreX(x))
<1>1. x \in Field /\ x \in Int /\ pt[2] \in Int /\ pt[2] \in Field
  BY CurveCases, AffineFacts
<1>2. Character(x * w) = 0 - 1
  BY <1>1, DecodeOnlyImages
<1>3. w \in Field /\ w \in Int /\ Same(x + w, LambdaPlusOne)
  <2> DEFINE s == LambdaPlusOne
             D == w - (s - x)
  <2>1. w \in Field /\ w \in Int /\ s \in Int /\ Same(w, s - x)
    BY <1>1, LineFacts, SubSame, SameReflexive DEF OtherRoot
  <2> HIDE DEF w, s
  <2>2. D = (x + w) - s
    BY <1>1, <2>1
  <2> QED BY <2>1, <2>2 DEF Same, s
<1> HIDE DEF w
<1>4. t \in 1 .. Half /\ Same(2 * ((t * t) * w), x)
  BY <1>1, <1>2, <1>3, DecodeImage
<1> HIDE DEF t
<1>5. t \in Field \ {0}
  BY <1>4, HalfFacts, PrimeFacts DEF Field
<1>6. FirstRoot(t) = w
  BY <1>1, <1>3, <1>4, <1>5, RootOfDecoded
<1>7. OtherRoot(w) = x
  <2>1. OtherRoot(w) \in Field /\ OtherRoot(w) \in Int /\ Same(w + OtherRoot(w), LambdaPlusOne)
    BY <1>5, <1>6, OtherRootFacts
  <2> DEFINE o == OtherRoot(w)
             s == LambdaPlusOne
             D == (w + o) - s
             E == (x + w) - s
  <2>2. D \in Int /\ E \in Int /\ Divisible(D) /\ Divisible(E) /\ 1 \in Int /\ 0 - 1 \in Int
    BY <1>1, <1>3, <2>1, LineFacts DEF Same
  <2>3. Combine(1, D, 0 - 1, E) = o - x
    BY <1>1, <1>3, <2>1, LineFacts DEF Combine
  <2> HIDE DEF D, E, o
  <2>4. Same(o, x)
    BY <2>2, <2>3, Combination DEF Same
  <2> QED BY <1>1, <2>1, <2>4, SameElements DEF o
<1>8. Epsilon(w) \in {1, 0 - 1} /\ Epsilon(x) = 0 - Epsilon(w)
  BY <1>5, <1>6, <1>7, EpsilonOpposite
<1>9. Epsilon(x) # 0 - 1
  <2>1. Sqrt[Cubic(x)] # None
    BY RootOfCubic
  <2>2. Cubic(x) \in Field
    BY <1>1, CubicModulo
  <2> HIDE DEF x
  <2> QED BY <2>1, <2>2, SqrtSquared DEF Epsilon
<1>10. ~ Epsilon(w) >= 0
  BY <1>8, <1>9
<1>11. Encode(t) = FromLegendreX(OtherRoot(w))
  <2>1. Encode(t) = FromLegendreX(IF Epsilon(FirstRoot(t)) >= 0 THEN FirstRoot(t)
                                  ELSE OtherRoot(FirstRoot(t)))
    BY <1>5 DEF Encode, FirstRoot
  <2> QED BY <1>6, <1>10, <2>1
<1> QED BY <1>5, <1>7, <1>11 DEF t
===============================================================================
