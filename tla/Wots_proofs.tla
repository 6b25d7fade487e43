------------------------------ MODULE Wots_proofs ------------------------------
(***************************************************************************)
(* Proofs about Wots, for any number and base of digits, any step function *)
(* and any received values.                                                *)
(***************************************************************************)
EXTENDS Wots, TLAPS

\* The chain of element t is the key's up to position n.
Linked(t, n) ==
  /\ chain[t][0] = sk[t]
  /\ \A s \in 0 .. n - 1 : chain[t][s + 1] = Step[<<chain[t][s], s>>]

KeygenSoFar ==
  op = "keygen" =>
    /\ stage # "digits"
    /\ \A t \in Element : t < i => Linked(t, WMax) /\ elements[t] = chain[t][WMax]
    /\ stage = "chain" => i \in Element /\ Linked(i, step) /\ result = chain[i][step]
    /\ stage = "returned" => i = Xi /\ pk = elements

KeyMade ==
  op # "keygen" => \A t \in Element : Linked(t, WMax) /\ pk[t] = chain[t][WMax]

SignSoFar ==
  op = "sign" =>
    /\ stage # "digits" => \A t \in Element : t < i => elements[t] = chain[t][digits[t]]
    /\ stage = "chain" => i \in Element /\ step <= digits[i] /\ result = chain[i][step]
    /\ stage = "returned" => i = Xi /\ sig = elements /\ signed = digits

SignatureMade == op = "verify" => \A t \in Element : sig[t] = chain[t][signed[t]]

\* The recovered value y at position s of chain t is the key's.
Recovers(t, y, s) ==
  /\ received[t] = chain[t][digits[t]] => y = chain[t][s]
  /\ y = chain[t][s] => received[t] = chain[t][digits[t]] \/ Collision

VerifySoFar ==
  op = "verify" =>
    /\ stage # "digits" => \A t \in Element : t < i => Recovers(t, elements[t], WMax)
    /\ stage = "chain" => i \in Element /\ digits[i] <= step /\ Recovers(i, result, step)
    /\ stage = "returned" =>
         /\ i = Xi
         /\ verdict = IF SameElements(elements) THEN "Ok" ELSE "WotsVerificationFailed"

VerdictLast == verdict # "none" => op = "verify" /\ stage = "returned"

ChainInv == KeygenSoFar /\ KeyMade /\ SignSoFar /\ SignatureMade /\ VerifySoFar /\ VerdictLast

\* How far the message digits have come when the loop variable is n.
MessagePart(n) == IF n < Xi1 THEN n ELSE Xi1

\* The first n digits d have the partial checksums recorded in sums.
SumsOf(d, n) ==
  \A k \in 0 .. Xi1 - 1 : k < n => sums[k + 1] = sums[k] + (WMax - d[k])

\* The digits d of the checksum c, up to n.
ChecksumOf(d, c, n) ==
  \A k \in Xi1 .. Xi - 1 : k < n => d[k] = (c \div Weight[Xi - 1 - k]) % Base

\* No digit before n comes before the signed one; they are the same.
Covers(n) == \A k \in Element : k < n => signed[k] <= digits[k]
Agrees(n) == \A k \in Element : k < n => signed[k] = digits[k]

\* The message digits d before n are those of the hash.
DigitsOf(d, hash, n) == \A k \in 0 .. Xi1 - 1 : k < n => d[k] = HashDigit(hash, k)

DigitsSoFar ==
  stage = "digits" =>
    /\ op # "keygen"
    /\ checksum <= MessagePart(i) * WMax
    /\ DigitsOf(digits, msg_hash, i)
    /\ ChecksumOf(digits, checksum, i)
    /\ op = "sign" => SumsOf(digits, i) /\ checksum = sums[MessagePart(i)]

\* The digits d are those of the hash that sums was recorded for.
Decomposed(d, hash) ==
  DigitsOf(d, hash, Xi) /\ SumsOf(d, Xi) /\ ChecksumOf(d, sums[Xi1], Xi)

SignedDigits ==
  /\ sums[0] = 0
  /\ op = "sign" /\ stage # "digits" => Decomposed(digits, msg_hash)
  /\ op = "sign" /\ stage = "returned" => signed_hash = msg_hash
  /\ op = "verify" => Decomposed(signed, signed_hash)

\* While a second hash is decomposed: digits that are not before the signed ones
\* make the sum of the complements smaller, and the checksum's digits larger.
Comparison ==
  op = "verify" =>
    /\ stage = "digits" =>
         /\ Covers(MessagePart(i)) =>
              /\ checksum <= sums[MessagePart(i)]
              /\ checksum = sums[MessagePart(i)] => Agrees(MessagePart(i))
         /\ Agrees(MessagePart(i)) => checksum = sums[MessagePart(i)]
         /\ Xi1 <= i /\ Covers(i) =>
              sums[Xi1] \div Weight[Xi - i] <= checksum \div Weight[Xi - i]
    /\ stage # "digits" =>
         /\ DigitsOf(digits, msg_hash, Xi)
         /\ Covers(Xi) \/ Agrees(Xi1) => Agrees(Xi)

DigitInv == DigitsSoFar /\ SignedDigits /\ Comparison

WInv == TypeOK /\ ChainInv /\ DigitInv

-------------------------------------------------------------------------------
(***************************************************************************)
(* Division by a divisor that is not a number.                             *)
(***************************************************************************)
LEMMA MulGrows ==
  ASSUME NEW w \in Nat, NEW a \in Nat, NEW b \in Nat, a < b
  PROVE  w * b >= w * a + w
<1>1. PICK k \in Nat : b = a + 1 + k
  BY b - a - 1 \in Nat
<1>2. w * (a + 1 + k) = w * a + w + w * k
  OBVIOUS
<1>3. w * k >= 0
  OBVIOUS
<1>4. w * a \in Nat /\ w * k \in Nat
  OBVIOUS
<1> QED BY <1>1, <1>2, <1>3, <1>4

\* Quotient and remainder.
LEMMA DivMod ==
  ASSUME NEW x \in Nat, NEW w \in Nat \ {0}
  PROVE  x \div w \in Nat /\ x % w \in 0 .. w - 1 /\ x = w * (x \div w) + (x % w)
OBVIOUS

LEMMA DivUnique ==
  ASSUME NEW x \in Nat, NEW w \in Nat \ {0}, NEW s \in Nat, NEW t \in 0 .. w - 1, x = w * s + t
  PROVE  x \div w = s
<1> DEFINE q == x \div w
<1>1. q \in Nat /\ w * q <= x /\ x < w * q + w
  OBVIOUS
<1>2. w * s \in Nat /\ w * q \in Nat
  BY <1>1
<1> HIDE DEF q
<1>3. ~ q < s /\ ~ s < q
  BY <1>1, <1>2, MulGrows
<1> QED BY <1>1, <1>3 DEF q

\* Dividing by a product is dividing twice.
LEMMA DivMul ==
  ASSUME NEW x \in Nat, NEW w \in Nat \ {0}, NEW b \in Nat \ {0}
  PROVE  x \div (b * w) = (x \div w) \div b
<1>1. PICK q \in Nat, r \in 0 .. w - 1 : q = x \div w /\ x = w * q + r
  OBVIOUS
<1>2. PICK s \in Nat, c \in 0 .. b - 1 : s = q \div b /\ q = b * s + c
  OBVIOUS
<1>3. w * (b * s + c) = (b * w) * s + w * c
  OBVIOUS
<1>4. w * c \in Nat /\ b * w \in Nat \ {0}
  OBVIOUS
<1>5. w * c + r \in 0 .. b * w - 1
  <2>1. w * b >= w * c + w
    BY MulGrows
  <2>2. w * b = b * w /\ w * b \in Nat
    OBVIOUS
  <2> QED BY <1>4, <2>1, <2>2
<1>6. (b * w) * s \in Nat
  BY <1>4
<1>7. x = (b * w) * s + (w * c + r)
  <2>1. x = w * (b * s + c) + r
    BY <1>1, <1>2
  <2>2. x = ((b * w) * s + w * c) + r
    BY <1>3, <2>1
  <2>3. PICK u \in Nat, v \in Nat : u = (b * w) * s /\ v = w * c
    BY <1>4, <1>6
  <2>4. x = u + v + r
    BY <2>2, <2>3
  <2>5. x = u + (v + r)
    BY <2>4
  <2> QED BY <2>3, <2>5
<1>8. x \div (b * w) = s
  BY <1>4, <1>5, <1>7, DivUnique
<1> QED BY <1>1, <1>2, <1>8

-------------------------------------------------------------------------------
(***************************************************************************)
(* Digits, weights and types.                                              *)
(***************************************************************************)
LEMMA Sizes ==
  /\ Base \in Nat \ {0} /\ WMax \in Nat \ {0} /\ Base = WMax + 1
  /\ Xi1 \in Nat \ {0} /\ Xi2 \in Nat \ {0} /\ Xi \in Nat /\ Xi = Xi1 + Xi2
  /\ Xi1 % 2 = 0
BY WotsAssumption DEF WMax, Xi

LEMMA HashDigitType ==
  ASSUME NEW hash \in Hashes, NEW n \in 0 .. Xi1 - 1
  PROVE  HashDigit(hash, n) \in Digit
<1>1. n \div 2 \in 0 .. Xi1 \div 2 - 1
  BY Sizes
<1>2. PICK b \in 0 .. Base * Base - 1 : b = hash[n \div 2]
  BY <1>1 DEF Hashes
<1> b \in Nat
  <2>1. Base * Base \in Nat
    BY Sizes
  <2> QED BY <2>1
<1>3. /\ b \div Base \in Nat /\ b % Base \in 0 .. Base - 1
      /\ b = Base * (b \div Base) + (b % Base)
  BY Sizes, DivMod
<1>4. b \div Base \in 0 .. Base - 1
  <2>1. PICK q \in Nat : q = b \div Base
    BY <1>3
  <2>2. Base - 1 < q => Base * q >= Base * (Base - 1) + Base
    BY Sizes, MulGrows
  <2>3. Base * (Base - 1) + Base = Base * Base
    BY Sizes
  <2>4. Base * q \in Nat /\ Base * Base \in Nat
    BY Sizes
  <2>5. b = Base * q + (b % Base)
    BY <1>3, <2>1
  <2>6. ~ Base - 1 < q
    BY <1>3, <2>2, <2>3, <2>4, <2>5
  <2> QED BY <2>1, <2>6, Sizes
<1> QED BY <1>2, <1>3, <1>4, Sizes DEF HashDigit, Digit

LEMMA ChecksumDigitType ==
  ASSUME NEW c \in Nat, NEW n \in Xi1 .. Xi - 1
  PROVE  (c \div Weight[Xi - 1 - n]) % Base \in Digit
<1>1. Xi - 1 - n \in 0 .. Xi2
  BY Sizes
<1>2. Weight[Xi - 1 - n] \in Nat \ {0}
  BY <1>1, WotsAssumption
<1>3. PICK q \in Nat : q = c \div Weight[Xi - 1 - n]
  BY <1>2, DivMod
<1> QED BY <1>3, Sizes, DivMod DEF Digit

\* The checksum of n digits is at most n times the largest digit.
LEMMA ChecksumGrows ==
  ASSUME NEW n \in 0 .. Xi1 - 1, NEW c \in Nat, NEW d \in Digit, c <= n * WMax
  PROVE  /\ c + Complement(d) \in 0 .. Xi1 * WMax
         /\ c + Complement(d) <= (n + 1) * WMax
<1>1. (n + 1) * WMax = n * WMax + WMax /\ n * WMax \in Nat
  BY Sizes
<1>2. PICK k \in Nat : Xi1 = n + 1 + k
  BY Sizes, Xi1 - n - 1 \in Nat
<1>3. (n + 1 + k) * WMax = (n + 1) * WMax + k * WMax /\ k * WMax \in Nat
  BY Sizes
<1>4. Complement(d) \in 0 .. WMax
  BY Sizes DEF Complement, Digit
<1>5. Xi1 * WMax = (n + 1) * WMax + k * WMax
  BY <1>2, <1>3
<1>6. PICK u \in Nat, v \in Nat : u = n * WMax /\ v = k * WMax
  BY <1>1, <1>3
<1>7. Xi1 * WMax = u + WMax + v /\ (n + 1) * WMax = u + WMax
  BY <1>1, <1>5, <1>6
<1>8. c + Complement(d) \in 0 .. u + WMax + v /\ c + Complement(d) <= u + WMax
  BY <1>4, <1>6, Sizes
<1> QED BY <1>7, <1>8

LEMMA StepType ==
  ASSUME NEW v \in Value, NEW s \in 0 .. WMax - 1
  PROVE  Step[<<v, s>>] \in Value
BY ValueAssumption

LEMMA InitTypes == Init => TypeOK
<1> SUFFICES ASSUME Init PROVE TypeOK
  OBVIOUS
<1>1. /\ 0 \in Digit /\ 0 \in Value /\ 0 \in 0 .. Xi /\ 0 \in 0 .. WMax
      /\ 0 \in 0 .. Xi1 * WMax /\ 0 \in 0 .. Base * Base - 1
  BY Sizes, ValueAssumption DEF Digit
<1>2. msg_hash \in Hashes
  BY <1>1 DEF Init, Hashes
<1>3. /\ digits \in [Element -> Digit] /\ signed \in [Element -> Digit]
      /\ elements \in [Element -> Value] /\ sk \in [Element -> Value]
      /\ pk \in [Element -> Value] /\ sig \in [Element -> Value]
      /\ received \in [Element -> Value]
      /\ sums \in [0 .. Xi1 -> 0 .. Xi1 * WMax]
      /\ chain \in [Element -> [Digit -> Value]]
  BY <1>1, ValueAssumption DEF Init
<1> QED BY <1>1, <1>2, <1>3 DEF Init, TypeOK

LEMMA InitWInv == Init => WInv
<1> SUFFICES ASSUME Init PROVE WInv
  OBVIOUS
<1>1. TypeOK
  BY InitTypes
<1>2. ChainInv
  BY Sizes DEF Init, ChainInv, KeygenSoFar, KeyMade, SignSoFar, SignatureMade, VerifySoFar,
     VerdictLast, Element
<1>3. DigitInv
  BY Sizes DEF Init, DigitInv, DigitsSoFar, SignedDigits, Comparison
<1> QED BY <1>1, <1>2, <1>3 DEF WInv

-------------------------------------------------------------------------------
(***************************************************************************)
(* Steps of message_to_basew.  They leave chains and elements alone.       *)
(***************************************************************************)
ChainVars == <<op, elements, sk, pk, sig, received, verdict, signed, chain, hashed>>

\* While digits are extracted nothing is said of the elements yet.
LEMMA ChainInvInDigits ==
  ASSUME WInv, stage = "digits", stage' \in {"digits", "element"}, UNCHANGED ChainVars,
         stage' = "element" => i' = 0
  PROVE  ChainInv'
<1>1. op # "keygen" /\ op' = op /\ verdict' = verdict
  BY DEF WInv, DigitInv, DigitsSoFar, ChainVars
<1>2. KeygenSoFar' /\ VerdictLast'
  BY <1>1 DEF WInv, ChainInv, KeygenSoFar, VerdictLast
<1>3. KeyMade' /\ SignatureMade'
  BY DEF WInv, ChainInv, KeyMade, SignatureMade, ChainVars, Linked
<1>4. SignSoFar' /\ VerifySoFar'
  BY DEF SignSoFar, VerifySoFar, Element
<1> QED BY <1>2, <1>3, <1>4 DEF ChainInv

LEMMA PrefixGrows ==
  ASSUME NEW a \in Nat, NEW b \in Nat, a \div Base <= b \div Base, a % Base <= b % Base
  PROVE  a <= b
<1>a. /\ a \div Base \in Nat /\ a % Base \in 0 .. Base - 1 /\ a = Base * (a \div Base) + (a % Base)
      /\ b \div Base \in Nat /\ b % Base \in 0 .. Base - 1 /\ b = Base * (b \div Base) + (b % Base)
  BY Sizes, DivMod
<1>1. PICK q \in Nat, r \in 0 .. Base - 1 : q = a \div Base /\ r = a % Base
  BY <1>a
<1>2. PICK p \in Nat, t \in 0 .. Base - 1 : p = b \div Base /\ t = b % Base
  BY <1>a
<1>b. a = Base * q + r /\ b = Base * p + t /\ q <= p /\ r <= t
  BY <1>a, <1>1, <1>2
<1>3. Base * q \in Nat /\ Base * p \in Nat
  BY Sizes
<1>4. Base * q <= Base * p
  <2>1. CASE q = p
    BY <1>3, <2>1
  <2>2. CASE q < p
    <3>1. Base * p >= Base * q + Base
      BY <2>2, Sizes, MulGrows
    <3> QED BY <1>3, <3>1, Sizes
  <2> QED BY <1>b, <2>1, <2>2
<1> QED BY <1>b, <1>3, <1>4

LEMMA DigitStepInv == WInv /\ DigitStep => WInv'
<1> SUFFICES ASSUME WInv, DigitStep PROVE WInv'
  OBVIOUS
<1>1. /\ op # "keygen" /\ op \in {"sign", "verify"} /\ stage = "digits" /\ stage' = "digits"
      /\ i \in 0 .. Xi1 - 1 /\ i' = i + 1 /\ i' \in 0 .. Xi /\ i \in Element
      /\ op' = op /\ msg_hash' = msg_hash /\ msg_hash \in Hashes
      /\ digits \in [Element -> Digit] /\ signed \in [Element -> Digit] /\ signed' = signed
      /\ signed_hash' = signed_hash
      /\ checksum \in Nat /\ sums \in [0 .. Xi1 -> 0 .. Xi1 * WMax]
  BY Sizes DEF DigitStep, WInv, TypeOK, DigitInv, DigitsSoFar, Element
<1>2. PICK d \in Digit : d = HashDigit(msg_hash, i)
  BY <1>1, HashDigitType
<1>3. digits' = [digits EXCEPT ![i] = d] /\ checksum' = checksum + Complement(d)
  BY <1>2 DEF DigitStep
<1>4. /\ digits'[i] = d
      /\ \A k \in Element : k # i => digits'[k] = digits[k]
      /\ digits' \in [Element -> Digit]
  BY <1>1, <1>3
<1>5. MessagePart(i) = i /\ MessagePart(i + 1) = i + 1
  BY <1>1, Sizes DEF MessagePart
<1>6. checksum <= i * WMax
  BY <1>1, <1>5 DEF WInv, DigitInv, DigitsSoFar
<1>7. checksum' \in 0 .. Xi1 * WMax /\ checksum' <= (i + 1) * WMax
  BY <1>1, <1>3, <1>6, ChecksumGrows
<1>8. /\ op = "verify" => sums' = sums
      /\ op = "sign" => sums' = [sums EXCEPT ![i + 1] = checksum']
  BY <1>1 DEF DigitStep
<1>9. i + 1 \in 0 .. Xi1 /\ sums' \in [0 .. Xi1 -> 0 .. Xi1 * WMax] /\ sums'[0] = 0
  BY <1>1, <1>7, <1>8, Sizes DEF WInv, DigitInv, SignedDigits
<1>10. TypeOK'
  BY <1>1, <1>4, <1>7, <1>9 DEF WInv, TypeOK, DigitStep
<1>11. ChainInv'
  BY <1>1, ChainInvInDigits DEF DigitStep, ChainVars
<1>12. DigitsSoFar'
  <2>1. DigitsOf(digits, msg_hash, i)
    BY <1>1 DEF WInv, DigitInv, DigitsSoFar
  <2>2. DigitsOf(digits', msg_hash', i')
    <3> SUFFICES ASSUME NEW k \in 0 .. Xi1 - 1, k < i + 1
                 PROVE  digits'[k] = HashDigit(msg_hash, k)
      BY <1>1 DEF DigitsOf
    <3>1. k \in Element
      BY Sizes DEF Element
    <3>2. CASE k = i
      BY <1>2, <1>4, <3>2
    <3>3. CASE k < i
      BY <1>1, <1>4, <2>1, <3>1, <3>3 DEF DigitsOf
    <3> QED BY <1>1, <3>2, <3>3
  <2>3. ChecksumOf(digits', checksum', i')
    BY <1>1, Sizes DEF ChecksumOf
  <2>4. ASSUME op = "sign"
        PROVE  SumsOf(digits, i)' /\ checksum' = sums'[i + 1]
    <3>1. checksum = sums[i] /\ SumsOf(digits, i)
      BY <1>1, <1>5, <2>4 DEF WInv, DigitInv, DigitsSoFar
    <3>2. /\ sums'[i + 1] = checksum'
          /\ \A k \in 0 .. Xi1 : k # i + 1 => sums'[k] = sums[k]
      BY <1>1, <1>8, <1>9, <2>4
    <3>3. ASSUME NEW k \in 0 .. Xi1 - 1, k < i + 1
          PROVE  sums'[k + 1] = sums'[k] + (WMax - digits'[k])
      <4>1. k \in 0 .. Xi1 /\ k + 1 \in 0 .. Xi1 /\ k \in Element /\ k # i + 1
        BY <1>1, <3>3, Sizes DEF Element
      <4>2. CASE k = i
        BY <1>3, <1>4, <3>1, <3>2, <4>1, <4>2 DEF Complement
      <4>3. CASE k < i
        <5>1. sums[k + 1] = sums[k] + (WMax - digits[k])
          BY <3>1, <4>3 DEF SumsOf
        <5> QED BY <1>1, <1>4, <3>2, <4>1, <4>3, <5>1
      <4> QED BY <1>1, <3>3, <4>2, <4>3
    <3> QED BY <1>1, <3>2, <3>3 DEF SumsOf
  <2>5. checksum' <= MessagePart(i') * WMax /\ (op = "sign" => checksum' = sums'[MessagePart(i')])
    BY <1>1, <1>5, <1>7, <2>4
  <2> QED BY <1>1, <2>2, <2>3, <2>4, <2>5 DEF DigitsSoFar, MessagePart
<1>13. SignedDigits'
  BY <1>1, <1>8, <1>9 DEF WInv, DigitInv, SignedDigits, Decomposed, DigitsOf, SumsOf, ChecksumOf
<1>14. Comparison'
  <2> SUFFICES ASSUME op = "verify" PROVE Comparison'
    BY <1>1 DEF Comparison
  <2>1. /\ Covers(i) => checksum <= sums[i] /\ (checksum = sums[i] => Agrees(i))
        /\ Agrees(i) => checksum = sums[i]
    BY <1>1, <1>5 DEF WInv, DigitInv, Comparison
  <2>2. sums' = sums /\ sums[i] \in Nat /\ sums[i + 1] = sums[i] + (WMax - signed[i])
    BY <1>1, <1>8, Sizes DEF WInv, DigitInv, SignedDigits, Decomposed, SumsOf
  <2>3. signed[i] \in 0 .. WMax /\ d \in 0 .. WMax
    BY <1>1 DEF Digit
  <2>a. PICK n \in Nat : n = i + 1
    BY <1>1
  <2>4. Covers(n)' => Covers(i) /\ signed[i] <= d
    BY <1>1, <1>4, <2>a DEF Covers, Element
  <2>5. Agrees(n)' => Agrees(i) /\ signed[i] = d
    BY <1>1, <1>4, <2>a DEF Agrees, Element
  <2>6. ASSUME Agrees(i), signed[i] = d
        PROVE  Agrees(n)'
    <3> SUFFICES ASSUME NEW k \in Element, k < i + 1
                 PROVE  signed[k] = digits'[k]
      BY <1>1, <2>a DEF Agrees
    <3>1. CASE k = i
      BY <1>4, <2>6, <3>1
    <3>2. CASE k < i
      BY <1>1, <1>4, <2>6, <3>2 DEF Agrees
    <3> QED BY <1>1, <3>1, <3>2 DEF Element
  <2>7. checksum' = checksum + (WMax - d)
    BY <1>3 DEF Complement
  <2>8. Covers(n)' => /\ checksum' <= sums[i + 1]
                      /\ checksum' = sums[i + 1] => Agrees(n)'
    BY <1>1, <2>1, <2>2, <2>3, <2>4, <2>6, <2>7, Sizes
  <2>9. Agrees(n)' => checksum' = sums[i + 1]
    BY <1>1, <2>1, <2>2, <2>3, <2>5, <2>7, Sizes
  <2>10. ASSUME Xi1 <= i + 1
         PROVE  sums[Xi1] \div Weight[Xi - (i + 1)] <= checksum' \div Weight[Xi - (i + 1)]
    <3>1. Xi - (i + 1) = Xi2
      BY <1>1, <2>10, Sizes
    <3>2. Weight[Xi2] \in Nat \ {0} /\ Xi1 * WMax < Weight[Xi2]
      BY WotsAssumption, Sizes
    <3>3. PICK w \in Nat \ {0} : w = Weight[Xi2]
      BY <3>2
    <3>4. sums[Xi1] \in 0 .. w - 1
      <4>1. Xi1 * WMax \in Nat /\ sums[Xi1] \in 0 .. Xi1 * WMax
        BY <1>1, Sizes
      <4> QED BY <3>2, <3>3, <4>1
    <3>x. PICK x \in 0 .. w - 1 : x = sums[Xi1]
      BY <3>4
    <3>5. x \in Nat /\ x = w * 0 + x
      OBVIOUS
    <3>6. x \div w = 0
      BY <3>5, DivUnique
    <3>7. checksum' \in Nat
      BY <1>7
    <3>8. checksum' \div w \in Nat
      BY <3>7, DivMod
    <3> QED BY <3>1, <3>3, <3>x, <3>6, <3>8
  <2>11. MessagePart(i)' = i + 1 /\ i' = i + 1
    BY <1>1, <1>5 DEF MessagePart
  <2>12. /\ Covers(MessagePart(i))' <=> Covers(n)'
         /\ Agrees(MessagePart(i))' <=> Agrees(n)'
    BY <1>1, <2>11, <2>a DEF Covers, Agrees
  <2> QED BY <1>1, <2>2, <2>8, <2>9, <2>10, <2>11, <2>12, <2>a DEF Comparison
<1> QED BY <1>10, <1>11, <1>12, <1>13, <1>14 DEF WInv, DigitInv

LEMMA ChecksumStepInv == WInv /\ ChecksumStep => WInv'
<1> SUFFICES ASSUME WInv, ChecksumStep PROVE WInv'
  OBVIOUS
<1>1. /\ op # "keygen" /\ op \in {"sign", "verify"} /\ stage = "digits" /\ stage' = "digits"
      /\ i \in Xi1 .. Xi - 1 /\ i' = i + 1 /\ i' \in 0 .. Xi /\ i \in Element
      /\ op' = op /\ msg_hash' = msg_hash /\ checksum' = checksum
      /\ digits \in [Element -> Digit] /\ signed \in [Element -> Digit] /\ signed' = signed
      /\ checksum \in Nat /\ sums \in [0 .. Xi1 -> 0 .. Xi1 * WMax] /\ sums' = sums
      /\ signed_hash' = signed_hash
  BY Sizes DEF ChecksumStep, WInv, TypeOK, DigitInv, DigitsSoFar, Element, past
<1>2. PICK n \in 0 .. Xi2 - 1 : n = Xi - 1 - i
  BY <1>1, Sizes
<1>3. PICK w \in Nat \ {0} : w = Weight[n] /\ Weight[n + 1] = Base * w
  <2>1. n \in 0 .. Xi2
    BY Sizes
  <2>2. Weight[n] \in Nat \ {0} /\ Weight[n + 1] = Base * Weight[n]
    BY <2>1, WotsAssumption
  <2> QED BY <2>2
<1>4. PICK d \in Digit : d = (checksum \div w) % Base
  BY <1>1, <1>2, <1>3, ChecksumDigitType
<1>5. /\ digits' = [digits EXCEPT ![i] = d] /\ digits'[i] = d
      /\ \A k \in Element : k # i => digits'[k] = digits[k]
      /\ digits' \in [Element -> Digit]
  BY <1>1, <1>2, <1>3, <1>4 DEF ChecksumStep
<1>6. MessagePart(i) = Xi1 /\ MessagePart(i)' = Xi1
  BY <1>1, Sizes DEF MessagePart
<1>7. TypeOK'
  BY <1>1, <1>5 DEF WInv, TypeOK, ChecksumStep, past
<1>8. ChainInv'
  BY <1>1, ChainInvInDigits DEF ChecksumStep, ChainVars, past
<1>9. \A k \in 0 .. Xi1 - 1 : k \in Element /\ k < i /\ k < i + 1 /\ digits'[k] = digits[k]
  BY <1>1, <1>5, Sizes DEF Element
<1>10. DigitsSoFar'
  <2>1. DigitsOf(digits', msg_hash', i')
    BY <1>1, <1>9 DEF WInv, DigitInv, DigitsSoFar, DigitsOf
  <2>2. ChecksumOf(digits', checksum', i')
    <3> SUFFICES ASSUME NEW k \in Xi1 .. Xi - 1, k < i + 1
                 PROVE  digits'[k] = (checksum \div Weight[Xi - 1 - k]) % Base
      BY <1>1 DEF ChecksumOf
    <3>1. CASE k = i
      BY <1>2, <1>3, <1>4, <1>5, <3>1
    <3>2. CASE k < i
      <4>1. digits[k] = (checksum \div Weight[Xi - 1 - k]) % Base
        BY <1>1, <3>2 DEF WInv, DigitInv, DigitsSoFar, ChecksumOf
      <4>2. k \in Element /\ k # i
        BY <1>1, <3>2, Sizes DEF Element
      <4> QED BY <1>5, <4>1, <4>2
    <3> QED BY <1>1, <3>1, <3>2, Sizes
  <2>3. op = "sign" => SumsOf(digits, i)' /\ checksum' = sums'[MessagePart(i)]
    BY <1>1, <1>6, <1>9 DEF WInv, DigitInv, DigitsSoFar, SumsOf
  <2>4. checksum' <= MessagePart(i) * WMax
    BY <1>1 DEF WInv, DigitInv, DigitsSoFar
  <2> QED BY <1>1, <1>6, <2>1, <2>2, <2>3, <2>4 DEF DigitsSoFar
<1>11. SignedDigits'
  BY <1>1 DEF WInv, DigitInv, SignedDigits, Decomposed, DigitsOf, SumsOf, ChecksumOf
<1>12. Comparison'
  <2> SUFFICES ASSUME op = "verify" PROVE Comparison'
    BY <1>1 DEF Comparison
  <2>1. /\ Covers(Xi1) => checksum <= sums[Xi1] /\ (checksum = sums[Xi1] => Agrees(Xi1))
        /\ Agrees(Xi1) => checksum = sums[Xi1]
        /\ Covers(i) => sums[Xi1] \div Weight[Xi - i] <= checksum \div Weight[Xi - i]
    BY <1>1, <1>6 DEF WInv, DigitInv, Comparison
  <2>a. \A k \in Element : k < Xi1 => digits'[k] = digits[k]
    BY <1>1, <1>5, Sizes DEF Element
  <2>2. Covers(MessagePart(i))' => Covers(Xi1)
    BY <1>1, <1>6, <2>a DEF Covers
  <2>3. Agrees(MessagePart(i))' <=> Agrees(Xi1)
    BY <1>1, <1>6, <2>a DEF Agrees
  <2>4. ASSUME Covers(i)'
        PROVE  sums[Xi1] \div Weight[Xi - (i + 1)] <= checksum \div Weight[Xi - (i + 1)]
    <3>1. Covers(i) /\ signed[i] <= d
      BY <1>1, <1>5, <2>4 DEF Covers, Element
    <3>2. PICK s \in Nat : s = sums[Xi1]
      BY <1>1, Sizes
    <3>3. signed[i] = (s \div w) % Base
      <4>1. ChecksumOf(signed, s, Xi)
        BY <3>2 DEF WInv, DigitInv, SignedDigits, Decomposed
      <4>2. i < Xi
        BY <1>1, Sizes
      <4>3. signed[i] = (s \div Weight[Xi - 1 - i]) % Base
        BY <1>1, <4>1, <4>2 DEF ChecksumOf
      <4> QED BY <1>2, <1>3, <4>3
    <3>4. Xi - i = n + 1 /\ Xi - (i + 1) = n
      BY <1>1, <1>2, Sizes
    <3>5. s \div (Base * w) <= checksum \div (Base * w)
      BY <1>3, <2>1, <3>1, <3>2, <3>4
    <3>6. (s \div w) \div Base <= (checksum \div w) \div Base
      <4>1. s \div (Base * w) = (s \div w) \div Base
        <5>1. Base \in Nat \ {0}
          BY Sizes
        <5> QED BY <5>1, DivMul
      <4>c. checksum \in Nat /\ Base \in Nat \ {0}
        BY <1>1, Sizes
      <4>2. checksum \div (Base * w) = (checksum \div w) \div Base
        BY <4>c, DivMul
      <4> QED BY <3>5, <4>1, <4>2
    <3>7. PICK a \in Nat, b \in Nat : a = s \div w /\ b = checksum \div w
      <4>1. s \div w \in Nat /\ checksum \div w \in Nat
        BY <1>1, DivMod
      <4> QED BY <4>1
    <3>8. a <= b
      BY <1>4, <3>1, <3>3, <3>6, <3>7, PrefixGrows
    <3> QED BY <1>3, <3>2, <3>4, <3>7, <3>8
  <2>5. Agrees(MessagePart(i))' <=> Agrees(Xi1)
    BY <2>3
  <2>6. MessagePart(i)' = Xi1 /\ i' = i + 1
    BY <1>1, <1>6
  <2>7. Covers(MessagePart(i))' => checksum <= sums[Xi1] /\ (checksum = sums[Xi1] => Agrees(MessagePart(i))')
    BY <2>1, <2>2, <2>3
  <2> QED BY <1>1, <2>1, <2>4, <2>5, <2>6, <2>7 DEF Comparison
<1> QED BY <1>7, <1>8, <1>10, <1>11, <1>12 DEF WInv, DigitInv

LEMMA DigitsReturnInv == WInv /\ DigitsReturn => WInv'
<1> SUFFICES ASSUME WInv, DigitsReturn PROVE WInv'
  OBVIOUS
<1>1. /\ op \in {"sign", "verify"} /\ stage = "digits" /\ stage' = "element" /\ i = Xi /\ i' = 0
      /\ op' = op /\ msg_hash' = msg_hash /\ checksum' = checksum /\ digits' = digits
      /\ signed' = signed /\ signed_hash' = signed_hash /\ sums' = sums
      /\ checksum \in Nat /\ sums \in [0 .. Xi1 -> 0 .. Xi1 * WMax]
      /\ verdict' = verdict
  BY Sizes DEF DigitsReturn, WInv, TypeOK, DigitInv, DigitsSoFar, past
<1>2. MessagePart(i) = Xi1
  BY <1>1, Sizes DEF MessagePart
<1>3. TypeOK'
  BY <1>1, Sizes DEF WInv, TypeOK, DigitsReturn, past
<1>4. ChainInv'
  BY <1>1, ChainInvInDigits DEF DigitsReturn, ChainVars, past
<1>5. DigitsOf(digits, msg_hash, Xi) /\ ChecksumOf(digits, checksum, Xi)
  BY <1>1 DEF WInv, DigitInv, DigitsSoFar
<1>6. SignedDigits'
  <2>1. op = "sign" => Decomposed(digits, msg_hash)
    BY <1>1, <1>2, <1>5 DEF WInv, DigitInv, DigitsSoFar, Decomposed
  <2> QED BY <1>1, <2>1 DEF WInv, DigitInv, SignedDigits, Decomposed, DigitsOf, SumsOf, ChecksumOf
<1>7. Comparison'
  <2> SUFFICES ASSUME op = "verify" PROVE Covers(Xi) \/ Agrees(Xi1) => Agrees(Xi)
    BY <1>1, <1>5 DEF Comparison, Covers, Agrees, DigitsOf
  <2>1. /\ Covers(Xi1) => checksum <= sums[Xi1] /\ (checksum = sums[Xi1] => Agrees(Xi1))
        /\ Agrees(Xi1) => checksum = sums[Xi1]
        /\ Covers(Xi) => sums[Xi1] \div Weight[Xi - Xi] <= checksum \div Weight[Xi - Xi]
    BY <1>1, <1>2, Sizes DEF WInv, DigitInv, Comparison
  <2>2. Weight[Xi - Xi] = 1 /\ sums[Xi1] \in Nat
    BY <1>1, WotsAssumption, Sizes
  <2>3. PICK s \in Nat : s = sums[Xi1]
    BY <2>2
  <2>4. s \div 1 = s /\ checksum \div 1 = checksum
    BY <1>1
  <2>5. Covers(Xi) => Covers(Xi1)
    BY Sizes DEF Covers, Element
  <2>6. Covers(Xi) => Agrees(Xi1)
    BY <1>1, <2>1, <2>2, <2>3, <2>4, <2>5
  <2>7. ASSUME Agrees(Xi1), NEW k \in Element
        PROVE  signed[k] = digits[k]
    <3>1. CASE k < Xi1
      BY <2>7, <3>1 DEF Agrees
    <3>2. CASE ~ k < Xi1
      <4>1. k \in Xi1 .. Xi - 1 /\ k < Xi
        BY <3>2, Sizes DEF Element
      <4>2. ChecksumOf(signed, checksum, Xi)
        BY <2>1, <2>7 DEF WInv, DigitInv, SignedDigits, Decomposed
      <4> QED BY <1>5, <4>1, <4>2 DEF ChecksumOf
    <3> QED BY <3>1, <3>2
  <2> QED BY <2>6, <2>7 DEF Agrees
<1>8. DigitsSoFar'
  BY <1>1 DEF DigitsSoFar
<1> QED BY <1>3, <1>4, <1>6, <1>7, <1>8 DEF WInv, DigitInv

-------------------------------------------------------------------------------
(***************************************************************************)
(* Steps of the loop over the elements.  They leave the digits alone.      *)
(***************************************************************************)
DigitVars == <<op, msg_hash, digits, checksum, signed_hash, signed, sums>>

LEMMA DigitInvInElements ==
  ASSUME WInv, stage \in {"element", "chain"}, stage' \in {"element", "chain"},
         UNCHANGED DigitVars
  PROVE  DigitInv'
<1>1. DigitsSoFar'
  BY DEF DigitsSoFar
<1>2. SignedDigits'
  BY DEF WInv, DigitInv, SignedDigits, Decomposed, DigitsOf, SumsOf, ChecksumOf, DigitVars
<1>3. Comparison'
  BY DEF WInv, DigitInv, Comparison, Covers, Agrees, DigitsOf, DigitVars
<1> QED BY <1>1, <1>2, <1>3 DEF DigitInv

LEMMA ElementBeginInv == WInv /\ ElementBegin => WInv'
<1> SUFFICES ASSUME WInv, ElementBegin PROVE WInv'
  OBVIOUS
<1>1. /\ stage = "element" /\ stage' = "chain" /\ i \in Element /\ i' = i /\ op' = op
      /\ op \in {"keygen", "sign", "verify"}
      /\ digits \in [Element -> Digit] /\ digits' = digits /\ elements' = elements
      /\ sk \in [Element -> Value] /\ sk' = sk /\ pk' = pk /\ sig' = sig /\ signed' = signed
      /\ received \in [Element -> Value] /\ received' = received
      /\ verdict' = verdict /\ hashed' = hashed
      /\ chain \in [Element -> [Digit -> Value]]
  BY Sizes DEF ElementBegin, WInv, TypeOK, Element
<1>2. 0 \in Digit /\ digits[i] \in 0 .. WMax /\ 0 \in 0 .. WMax
  BY <1>1, Sizes DEF Digit
<1>3. /\ op = "keygen" => chain' = [chain EXCEPT ![i] = [chain[i] EXCEPT ![0] = sk[i]]]
      /\ op # "keygen" => chain' = chain
  BY DEF ElementBegin
<1>4. /\ op = "verify" => result' = received[i] /\ step' = digits[i]
      /\ op # "verify" => result' = sk[i] /\ step' = 0
  BY DEF ElementBegin, ChainStart
<1>5. chain' \in [Element -> [Digit -> Value]]
  <2>1. [chain[i] EXCEPT ![0] = sk[i]] \in [Digit -> Value]
    BY <1>1, <1>2
  <2> QED BY <1>1, <1>3, <2>1
<1>6. TypeOK'
  <2>1. result' \in Value /\ step' \in 0 .. WMax
    BY <1>1, <1>2, <1>4
  <2> QED BY <1>1, <1>5, <2>1 DEF WInv, TypeOK, ElementBegin
<1>7. DigitInv'
  BY <1>1, DigitInvInElements DEF ElementBegin, DigitVars
<1>8. KeygenSoFar'
  <2> SUFFICES ASSUME op = "keygen" PROVE KeygenSoFar'
    BY <1>1 DEF KeygenSoFar
  <2>1. /\ chain'[i][0] = sk[i]
        /\ \A t \in Element : t # i => chain'[t] = chain[t]
    BY <1>1, <1>2, <1>3
  <2>2. ASSUME NEW t \in Element, t < i
        PROVE  Linked(t, WMax)' /\ elements'[t] = chain'[t][WMax]
    <3>1. Linked(t, WMax) /\ elements[t] = chain[t][WMax]
      BY <2>2 DEF WInv, ChainInv, KeygenSoFar
    <3>2. chain'[t] = chain[t]
      BY <1>1, <2>1, <2>2 DEF Element
    <3> QED BY <1>1, <3>1, <3>2 DEF Linked
  <2>3. Linked(i, step)' /\ result' = chain'[i'][step']
    BY <1>1, <1>4, <2>1 DEF Linked
  <2> QED BY <1>1, <2>2, <2>3 DEF KeygenSoFar
<1>9. KeyMade' /\ SignatureMade'
  BY <1>1, <1>3 DEF WInv, ChainInv, KeyMade, SignatureMade, Linked
<1>10. SignSoFar'
  <2> SUFFICES ASSUME op = "sign" PROVE SignSoFar'
    BY <1>1 DEF SignSoFar
  <2>1. chain[i][0] = sk[i]
    BY <1>1 DEF WInv, ChainInv, KeyMade, Linked
  <2>2. \A t \in Element : t < i => elements[t] = chain[t][digits[t]]
    BY <1>1 DEF WInv, ChainInv, SignSoFar
  <2> QED BY <1>1, <1>2, <1>3, <1>4, <2>1, <2>2 DEF SignSoFar
<1>11. VerifySoFar'
  <2> SUFFICES ASSUME op = "verify" PROVE VerifySoFar'
    BY <1>1 DEF VerifySoFar
  <2>1. \A t \in Element : t < i => Recovers(t, elements[t], WMax)
    BY <1>1 DEF WInv, ChainInv, VerifySoFar
  <2>2. \A t \in Element : t < i => Recovers(t, elements[t], WMax)'
    <3>1. Collision' <=> Collision
      BY <1>1, <1>3 DEF Collision
    <3> QED BY <1>1, <1>3, <2>1, <3>1 DEF Recovers
  <2>3. Recovers(i, result, step)'
    BY <1>1, <1>3, <1>4 DEF Recovers
  <2>4. digits'[i'] <= step'
    BY <1>1, <1>2, <1>4
  <2> QED BY <1>1, <2>2, <2>3, <2>4 DEF VerifySoFar
<1>12. VerdictLast'
  BY <1>1 DEF WInv, ChainInv, VerdictLast
<1> QED BY <1>6, <1>7, <1>8, <1>9, <1>10, <1>11, <1>12 DEF WInv, ChainInv

LEMMA ChainStepInv == WInv /\ ChainStep => WInv'
<1> SUFFICES ASSUME WInv, ChainStep PROVE WInv'
  OBVIOUS
<1>1. /\ stage = "chain" /\ stage' = "chain" /\ i' = i /\ op' = op
      /\ op \in {"keygen", "sign", "verify"} /\ i \in Element
      /\ digits \in [Element -> Digit] /\ digits' = digits /\ elements' = elements
      /\ sk' = sk /\ pk' = pk /\ sig' = sig /\ signed' = signed
      /\ received' = received /\ verdict' = verdict
      /\ chain \in [Element -> [Digit -> Value]]
      /\ result \in Value /\ step \in 0 .. WMax
      /\ hashed \in SUBSET (Value \X (0 .. WMax - 1))
  BY DEF ChainStep, WInv, TypeOK, ChainInv, KeygenSoFar, SignSoFar, VerifySoFar
<1>2. digits[i] \in 0 .. WMax
  BY <1>1 DEF Digit
<1>3. /\ step \in 0 .. WMax - 1 /\ step + 1 \in 0 .. WMax
      /\ op = "sign" => step + 1 <= digits[i]
  BY <1>1, <1>2, Sizes DEF ChainStep, ChainStop
<1>4. result' = Step[<<result, step>>] /\ step' = step + 1 /\ result' \in Value
  BY <1>1, <1>3, StepType DEF ChainStep
<1>5. /\ op = "keygen" => chain' = [chain EXCEPT ![i] = [chain[i] EXCEPT ![step + 1] = result']]
      /\ op # "keygen" => chain' = chain
      /\ op = "verify" => hashed' = hashed \cup {<<result, step>>}
      /\ op # "verify" => hashed' = hashed
  BY DEF ChainStep
<1>6. chain' \in [Element -> [Digit -> Value]]
  <2>1. [chain[i] EXCEPT ![step + 1] = result'] \in [Digit -> Value]
    BY <1>1, <1>3, <1>4 DEF Digit
  <2> QED BY <1>1, <1>5, <2>1
<1>7. TypeOK'
  <2>1. hashed' \in SUBSET (Value \X (0 .. WMax - 1))
    BY <1>1, <1>3, <1>5
  <2> QED BY <1>1, <1>3, <1>4, <1>6, <2>1 DEF WInv, TypeOK, ChainStep
<1>8. DigitInv'
  BY <1>1, DigitInvInElements DEF ChainStep, DigitVars
<1>9. KeygenSoFar'
  <2> SUFFICES ASSUME op = "keygen" PROVE KeygenSoFar'
    BY <1>1 DEF KeygenSoFar
  <2>1. /\ chain'[i][step + 1] = result'
        /\ \A s \in Digit : s # step + 1 => chain'[i][s] = chain[i][s]
        /\ \A t \in Element : t # i => chain'[t] = chain[t]
    BY <1>1, <1>3, <1>5 DEF Digit
  <2>2. ASSUME NEW t \in Element, t < i
        PROVE  Linked(t, WMax)' /\ elements'[t] = chain'[t][WMax]
    <3>1. Linked(t, WMax) /\ elements[t] = chain[t][WMax]
      BY <2>2 DEF WInv, ChainInv, KeygenSoFar
    <3>2. chain'[t] = chain[t]
      BY <1>1, <2>1, <2>2 DEF Element
    <3> QED BY <1>1, <3>1, <3>2 DEF Linked
  <2>3. Linked(i, step) /\ result = chain[i][step]
    BY <1>1 DEF WInv, ChainInv, KeygenSoFar
  <2>4. ASSUME NEW s \in 0 .. step
        PROVE  chain'[i][s + 1] = Step[<<chain'[i][s], s>>]
    <3>1. s \in Digit /\ s + 1 \in Digit /\ s # step + 1 /\ (s # step => s + 1 # step + 1)
      BY <1>3, Sizes DEF Digit
    <3>2. CASE s = step
      BY <1>4, <2>1, <2>3, <3>1, <3>2
    <3>3. CASE s # step
      <4>1. s \in 0 .. step - 1
        BY <1>1, <3>3
      <4>2. chain[i][s + 1] = Step[<<chain[i][s], s>>]
        BY <2>3, <4>1 DEF Linked
      <4> QED BY <2>1, <3>1, <3>3, <4>2
    <3> QED BY <3>2, <3>3
  <2>5. chain'[i][0] = sk[i]
    BY <1>1, <1>3, <2>1, <2>3, Sizes DEF Linked, Digit
  <2>6. Linked(i, step)'
    BY <1>1, <1>3, <1>4, <2>4, <2>5 DEF Linked
  <2> QED BY <1>1, <1>4, <2>1, <2>2, <2>6 DEF KeygenSoFar
<1>10. KeyMade' /\ SignatureMade'
  BY <1>1, <1>5 DEF WInv, ChainInv, KeyMade, SignatureMade, Linked
<1>11. SignSoFar'
  <2> SUFFICES ASSUME op = "sign" PROVE SignSoFar'
    BY <1>1 DEF SignSoFar
  <2>1. chain[i][step + 1] = Step[<<chain[i][step], step>>]
    BY <1>1, <1>3 DEF WInv, ChainInv, KeyMade, Linked
  <2>2. /\ result = chain[i][step]
        /\ \A t \in Element : t < i => elements[t] = chain[t][digits[t]]
    BY <1>1 DEF WInv, ChainInv, SignSoFar
  <2> QED BY <1>1, <1>3, <1>4, <1>5, <2>1, <2>2 DEF SignSoFar
<1>12. VerifySoFar'
  <2> SUFFICES ASSUME op = "verify" PROVE VerifySoFar'
    BY <1>1 DEF VerifySoFar
  <2>1. Collision => Collision'
    BY <1>1, <1>5 DEF Collision
  <2>2. /\ \A t \in Element : t < i => Recovers(t, elements[t], WMax)
        /\ digits[i] <= step /\ Recovers(i, result, step)
    BY <1>1 DEF WInv, ChainInv, VerifySoFar
  <2>3. \A t \in Element : t < i => Recovers(t, elements[t], WMax)'
    BY <1>1, <1>5, <2>1, <2>2 DEF Recovers
  <2>4. chain[i][step + 1] = Step[<<chain[i][step], step>>]
    BY <1>1, <1>3 DEF WInv, ChainInv, KeyMade, Linked
  <2>5. ASSUME result' = chain[i][step + 1], result # chain[i][step]
        PROVE  Collision'
    <3>1. <<result, step>> \in hashed' /\ Step[<<result, step>>] = chain'[i][step + 1]
      BY <1>4, <1>5, <2>5
    <3>2. result # chain'[i][step]
      BY <1>5, <2>5
    <3> QED BY <1>1, <1>3, <3>1, <3>2 DEF Collision
  <2>6. Recovers(i, result, step)'
    BY <1>1, <1>4, <1>5, <2>1, <2>2, <2>4, <2>5 DEF Recovers
  <2>7. digits'[i'] <= step'
    BY <1>1, <1>2, <1>4, <2>2
  <2> QED BY <1>1, <2>3, <2>6, <2>7 DEF VerifySoFar
<1>13. VerdictLast'
  BY <1>1 DEF WInv, ChainInv, VerdictLast
<1> QED BY <1>7, <1>8, <1>9, <1>10, <1>11, <1>12, <1>13 DEF WInv, ChainInv

LEMMA ElementEndInv == WInv /\ ElementEnd => WInv'
<1> SUFFICES ASSUME WInv, ElementEnd PROVE WInv'
  OBVIOUS
<1>1. /\ stage = "chain" /\ stage' = "element" /\ i \in Element /\ i' = i + 1 /\ op' = op
      /\ op \in {"keygen", "sign", "verify"}
      /\ digits \in [Element -> Digit] /\ digits' = digits
      /\ elements \in [Element -> Value] /\ elements' = [elements EXCEPT ![i] = result]
      /\ sk' = sk /\ pk' = pk /\ sig' = sig /\ signed' = signed /\ chain' = chain
      /\ received' = received /\ verdict' = verdict /\ hashed' = hashed
      /\ result \in Value /\ step \in 0 .. WMax
  BY DEF ElementEnd, WInv, TypeOK, ChainInv, KeygenSoFar, SignSoFar, VerifySoFar, past
<1>2. digits[i] \in 0 .. WMax /\ i + 1 \in 0 .. Xi
  BY <1>1, Sizes DEF Digit, Element
<1>3. /\ op \in {"keygen", "verify"} => step = WMax
      /\ op = "sign" => step = digits[i]
  BY <1>1, <1>2, Sizes DEF ElementEnd, ChainStop, WInv, ChainInv, SignSoFar
<1>4. /\ elements' \in [Element -> Value] /\ elements'[i] = result
      /\ \A t \in Element : t # i => elements'[t] = elements[t]
  BY <1>1
<1>5. \A t \in Element : t < i + 1 => t = i \/ (t # i /\ t < i)
  BY <1>1 DEF Element
<1>6. TypeOK'
  BY <1>1, <1>2, <1>4 DEF WInv, TypeOK, ElementEnd, past
<1>7. DigitInv'
  BY <1>1, DigitInvInElements DEF ElementEnd, DigitVars, past
<1>8. KeygenSoFar'
  <2> SUFFICES ASSUME op = "keygen" PROVE KeygenSoFar'
    BY <1>1 DEF KeygenSoFar
  <2>1. /\ \A t \in Element : t < i => Linked(t, WMax) /\ elements[t] = chain[t][WMax]
        /\ Linked(i, WMax) /\ result = chain[i][WMax]
    BY <1>1, <1>3 DEF WInv, ChainInv, KeygenSoFar
  <2>2. \A t \in Element : t < i + 1 => Linked(t, WMax) /\ elements'[t] = chain[t][WMax]
    BY <1>4, <1>5, <2>1
  <2>3. \A t \in Element : Linked(t, WMax) => Linked(t, WMax)'
    BY <1>1 DEF Linked
  <2> QED BY <1>1, <2>2, <2>3 DEF KeygenSoFar
<1>9. KeyMade' /\ SignatureMade'
  BY <1>1 DEF WInv, ChainInv, KeyMade, SignatureMade, Linked
<1>10. SignSoFar'
  <2> SUFFICES ASSUME op = "sign" PROVE SignSoFar'
    BY <1>1 DEF SignSoFar
  <2>1. /\ \A t \in Element : t < i => elements[t] = chain[t][digits[t]]
        /\ result = chain[i][digits[i]]
    BY <1>1, <1>3 DEF WInv, ChainInv, SignSoFar
  <2>2. \A t \in Element : t < i + 1 => elements'[t] = chain[t][digits[t]]
    BY <1>4, <1>5, <2>1
  <2> QED BY <1>1, <2>2 DEF SignSoFar
<1>11. VerifySoFar'
  <2> SUFFICES ASSUME op = "verify" PROVE VerifySoFar'
    BY <1>1 DEF VerifySoFar
  <2>1. /\ \A t \in Element : t < i => Recovers(t, elements[t], WMax)
        /\ Recovers(i, result, WMax)
    BY <1>1, <1>3 DEF WInv, ChainInv, VerifySoFar
  <2>2. \A t \in Element : t < i + 1 => Recovers(t, elements'[t], WMax)
    BY <1>4, <1>5, <2>1
  <2>3. Collision' <=> Collision
    BY <1>1 DEF Collision
  <2>4. \A t \in Element : t < i + 1 => Recovers(t, elements[t], WMax)'
    BY <1>1, <2>2, <2>3 DEF Recovers
  <2> QED BY <1>1, <2>4 DEF VerifySoFar
<1>12. VerdictLast'
  BY <1>1 DEF WInv, ChainInv, VerdictLast
<1> QED BY <1>6, <1>7, <1>8, <1>9, <1>10, <1>11, <1>12 DEF WInv, ChainInv

-------------------------------------------------------------------------------
(***************************************************************************)
(* Calls and returns.                                                      *)
(***************************************************************************)
LEMMA KeygenReturnInv == WInv /\ KeygenReturn => WInv'
<1> SUFFICES ASSUME WInv, KeygenReturn PROVE WInv'
  OBVIOUS
<1>1. /\ op = "keygen" /\ op' = "keygen" /\ stage = "element" /\ stage' = "returned"
      /\ i = Xi /\ i' = i /\ pk' = elements /\ elements' = elements /\ sk' = sk
      /\ chain' = chain /\ verdict' = verdict /\ sums' = sums
      /\ elements \in [Element -> Value]
  BY DEF KeygenReturn, Returns, WInv, TypeOK, locals, past
<1>2. TypeOK'
  BY <1>1 DEF WInv, TypeOK, KeygenReturn, locals, past
<1>3. KeygenSoFar'
  BY <1>1 DEF WInv, ChainInv, KeygenSoFar, Linked
<1>4. ChainInv'
  BY <1>1, <1>3 DEF WInv, ChainInv, KeyMade, SignSoFar, SignatureMade, VerifySoFar, VerdictLast
<1>5. DigitInv'
  BY <1>1 DEF WInv, DigitInv, DigitsSoFar, SignedDigits, Comparison
<1> QED BY <1>2, <1>4, <1>5 DEF WInv

LEMMA SignReturnInv == WInv /\ SignReturn => WInv'
<1> SUFFICES ASSUME WInv, SignReturn PROVE WInv'
  OBVIOUS
<1>1. /\ op = "sign" /\ op' = "sign" /\ stage = "element" /\ stage' = "returned"
      /\ i = Xi /\ i' = i /\ sig' = elements /\ elements' = elements /\ sk' = sk /\ pk' = pk
      /\ signed' = digits /\ digits' = digits /\ signed_hash' = msg_hash /\ msg_hash' = msg_hash
      /\ chain' = chain /\ verdict' = verdict /\ sums' = sums
      /\ elements \in [Element -> Value]
  BY DEF SignReturn, Returns, WInv, TypeOK, locals
<1>2. TypeOK'
  BY <1>1 DEF WInv, TypeOK, SignReturn, locals
<1>3. KeyMade' /\ SignSoFar'
  BY <1>1 DEF WInv, ChainInv, KeyMade, SignSoFar, Linked
<1>4. ChainInv'
  BY <1>1, <1>3 DEF WInv, ChainInv, KeygenSoFar, SignatureMade, VerifySoFar, VerdictLast
<1>5. SignedDigits'
  BY <1>1 DEF WInv, DigitInv, SignedDigits, Decomposed, DigitsOf, SumsOf, ChecksumOf
<1>6. DigitInv'
  BY <1>1, <1>5 DEF DigitInv, DigitsSoFar, Comparison
<1> QED BY <1>2, <1>4, <1>6 DEF WInv

LEMMA CompareInv == WInv /\ Compare => WInv'
<1> SUFFICES ASSUME WInv, Compare PROVE WInv'
  OBVIOUS
<1>1. /\ op = "verify" /\ op' = "verify" /\ stage = "element" /\ stage' = "returned"
      /\ i = Xi /\ i' = i /\ elements' = elements /\ sk' = sk /\ pk' = pk /\ sig' = sig
      /\ signed' = signed /\ digits' = digits /\ signed_hash' = signed_hash
      /\ msg_hash' = msg_hash /\ received' = received /\ hashed' = hashed
      /\ chain' = chain /\ sums' = sums
      /\ verdict' = IF SameElements(elements) THEN "Ok" ELSE "WotsVerificationFailed"
  BY DEF Compare, Returns, locals, past
<1>2. TypeOK'
  BY <1>1 DEF WInv, TypeOK, Compare, locals, past
<1>3. KeyMade' /\ SignatureMade'
  BY <1>1 DEF WInv, ChainInv, KeyMade, SignatureMade, Linked
<1>4. VerifySoFar'
  <2>1. \A t \in Element : t < i => Recovers(t, elements[t], WMax)
    BY <1>1 DEF WInv, ChainInv, VerifySoFar
  <2>2. Collision' <=> Collision
    BY <1>1 DEF Collision
  <2>3. \A t \in Element : t < i => Recovers(t, elements[t], WMax)'
    BY <1>1, <2>1, <2>2 DEF Recovers
  <2>4. SameElements(elements)' <=> SameElements(elements)
    BY <1>1 DEF SameElements
  <2> QED BY <1>1, <2>3, <2>4 DEF VerifySoFar
<1>5. ChainInv'
  BY <1>1, <1>3, <1>4 DEF ChainInv, KeygenSoFar, SignSoFar, VerdictLast
<1>6. SignedDigits'
  BY <1>1 DEF WInv, DigitInv, SignedDigits, Decomposed, DigitsOf, SumsOf, ChecksumOf
<1>7. Comparison'
  BY <1>1 DEF WInv, DigitInv, Comparison, Covers, Agrees, DigitsOf
<1>8. DigitInv'
  BY <1>1, <1>6, <1>7 DEF DigitInv, DigitsSoFar
<1> QED BY <1>2, <1>5, <1>8 DEF WInv

\* What every call on a hash establishes.
LEMMA CallTypes ==
  ASSUME WInv, NEW operation \in {"sign", "verify"}, NEW hash \in Hashes, Call(operation, hash),
         UNCHANGED <<sk, pk, sig, verdict, past, hashed>>,
         received' \in [Element -> Value]
  PROVE  /\ TypeOK'
         /\ i' = 0 /\ digits' = [t \in Element |-> 0] /\ checksum' = 0
         /\ MessagePart(i)' = 0 /\ 0 <= 0 * WMax
<1>1. /\ 0 \in Digit /\ 0 \in Value /\ 0 \in 0 .. Xi /\ 0 \in 0 .. WMax
      /\ 0 \in 0 .. Xi1 * WMax /\ 0 <= 0 * WMax
  BY Sizes, ValueAssumption DEF Digit
<1>2. TypeOK'
  BY <1>1 DEF WInv, TypeOK, Call, past
<1>3. MessagePart(i)' = 0
  BY Sizes DEF MessagePart, Call
<1> QED BY <1>1, <1>2, <1>3 DEF Call

LEMMA WotsSignInv ==
  ASSUME WInv, NEW hash \in Hashes, WotsSign(hash)
  PROVE  WInv'
<1>1. /\ op = "keygen" /\ op' = "sign" /\ stage = "returned" /\ stage' = "digits"
      /\ sk' = sk /\ pk' = pk /\ chain' = chain /\ verdict' = verdict /\ sums' = sums
      /\ Call("sign", hash) /\ received' = received
  BY DEF WotsSign, Call, past
<1>2. /\ TypeOK'
      /\ i' = 0 /\ checksum' = 0 /\ MessagePart(i)' = 0 /\ 0 <= 0 * WMax
  <2>1. received' \in [Element -> Value] /\ UNCHANGED <<sk, pk, sig, verdict, past, hashed>>
    BY <1>1 DEF WInv, TypeOK, WotsSign
  <2> QED BY <1>1, <2>1, CallTypes
<1>3. KeyMade'
  <2>1. \A t \in Element : t < Xi
    BY Sizes DEF Element
  <2>2. \A t \in Element : Linked(t, WMax) /\ pk[t] = chain[t][WMax]
    BY <1>1, <2>1 DEF WInv, ChainInv, KeygenSoFar
  <2> QED BY <1>1, <2>2 DEF KeyMade, Linked
<1>4. ChainInv'
  BY <1>1, <1>3 DEF WInv, ChainInv, KeygenSoFar, SignSoFar, SignatureMade, VerifySoFar, VerdictLast
<1>5. DigitsSoFar'
  <2>1. DigitsOf(digits, msg_hash, i)' /\ SumsOf(digits, i)' /\ ChecksumOf(digits, checksum, i)'
    BY <1>2, Sizes DEF DigitsOf, SumsOf, ChecksumOf
  <2>2. checksum' = sums'[MessagePart(i)']
    BY <1>1, <1>2 DEF WInv, DigitInv, SignedDigits
  <2> QED BY <1>1, <1>2, <2>1, <2>2 DEF DigitsSoFar
<1>6. DigitInv'
  BY <1>1, <1>5 DEF WInv, DigitInv, SignedDigits, Comparison
<1> QED BY <1>2, <1>4, <1>6 DEF WInv

LEMMA ReceivedType ==
  ASSUME WInv, NEW r \in Received
  PROVE  r \in [Element -> Value]
<1>1. sig \in [Element -> Value] /\ chain \in [Element -> [Digit -> Value]]
  BY DEF WInv, TypeOK
<1>2. CASE r = sig
  BY <1>1, <1>2
<1>3. CASE \E t \in Element, v \in Value : r = [sig EXCEPT ![t] = v]
  BY <1>1, <1>3
<1>4. ASSUME NEW position \in Disclosures, r = [t \in Element |-> chain[t][position[t]]]
      PROVE  r \in [Element -> Value]
  <2>1. position \in [Element -> Digit]
    BY ValueAssumption
  <2> QED BY <1>1, <1>4, <2>1
<1> QED BY <1>2, <1>3, <1>4 DEF Received

LEMMA WotsVerifyInv ==
  ASSUME WInv, NEW hash \in Hashes, WotsVerify(hash)
  PROVE  WInv'
<1>1. /\ op = "sign" /\ op' = "verify" /\ stage = "returned" /\ stage' = "digits"
      /\ sk' = sk /\ pk' = pk /\ sig' = sig /\ chain' = chain /\ verdict' = verdict
      /\ sums' = sums /\ signed' = signed /\ signed_hash' = signed_hash
      /\ Call("verify", hash) /\ received' \in Received
  BY DEF WotsVerify, Call, past
<1>2. /\ TypeOK'
      /\ i' = 0 /\ checksum' = 0 /\ MessagePart(i)' = 0 /\ 0 <= 0 * WMax
  <2>1. received' \in [Element -> Value]
    BY <1>1, ReceivedType
  <2>2. UNCHANGED <<sk, pk, sig, verdict, past, hashed>>
    BY DEF WotsVerify
  <2> QED BY <1>1, <2>1, <2>2, CallTypes
<1>3. KeyMade'
  BY <1>1 DEF WInv, ChainInv, KeyMade, Linked
<1>4. SignatureMade'
  <2>1. \A t \in Element : t < Xi
    BY Sizes DEF Element
  <2>2. i = Xi /\ sig = elements /\ signed = digits
    BY <1>1 DEF WInv, ChainInv, SignSoFar
  <2>3. \A t \in Element : elements[t] = chain[t][digits[t]]
    BY <1>1, <2>1, <2>2 DEF WInv, ChainInv, SignSoFar
  <2> QED BY <1>1, <2>2, <2>3 DEF SignatureMade
<1>5. ChainInv'
  BY <1>1, <1>3, <1>4 DEF WInv, ChainInv, KeygenSoFar, SignSoFar, VerifySoFar, VerdictLast
<1>6. DigitsSoFar'
  <2>1. DigitsOf(digits, msg_hash, i)' /\ ChecksumOf(digits, checksum, i)'
    BY <1>2, Sizes DEF DigitsOf, ChecksumOf
  <2> QED BY <1>1, <1>2, <2>1 DEF DigitsSoFar
<1>7. SignedDigits'
  <2>1. Decomposed(signed, signed_hash)
    BY <1>1 DEF WInv, DigitInv, SignedDigits, ChainInv, SignSoFar
  <2> QED BY <1>1, <2>1 DEF WInv, DigitInv, SignedDigits, Decomposed, DigitsOf, SumsOf, ChecksumOf
<1>8. Comparison'
  <2>1. sums'[MessagePart(i)'] = 0 /\ ~ Xi1 <= i'
    BY <1>1, <1>2, Sizes DEF WInv, DigitInv, SignedDigits
  <2>2. Agrees(MessagePart(i))'
    BY <1>2, Sizes DEF Agrees, Element
  <2> QED BY <1>1, <1>2, <2>1, <2>2 DEF Comparison
<1> QED BY <1>2, <1>5, <1>6, <1>7, <1>8 DEF WInv, DigitInv

LEMMA NextWInv == WInv /\ [Next]_vars => WInv'
<1> SUFFICES ASSUME WInv, [Next]_vars PROVE WInv'
  OBVIOUS
<1>1. CASE DigitStep
  BY <1>1, DigitStepInv
<1>2. CASE ChecksumStep
  BY <1>2, ChecksumStepInv
<1>3. CASE DigitsReturn
  BY <1>3, DigitsReturnInv
<1>4. CASE ElementBegin
  BY <1>4, ElementBeginInv
<1>5. CASE ChainStep
  BY <1>5, ChainStepInv
<1>6. CASE ElementEnd
  BY <1>6, ElementEndInv
<1>7. CASE KeygenReturn
  BY <1>7, KeygenReturnInv
<1>8. CASE SignReturn
  BY <1>8, SignReturnInv
<1>9. CASE Compare
  BY <1>9, CompareInv
<1>10. CASE \E hash \in Hashes : WotsSign(hash) \/ WotsVerify(hash)
  BY <1>10, WotsSignInv, WotsVerifyInv
<1>11. CASE UNCHANGED vars
  <2>1. TypeOK'
    BY <1>11 DEF WInv, TypeOK, vars, locals, past
  <2>2. ChainInv'
    <3>1. KeygenSoFar' /\ KeyMade'
      BY <1>11 DEF WInv, ChainInv, KeygenSoFar, KeyMade, Linked, vars, locals, past
    <3>2. SignSoFar' /\ SignatureMade'
      BY <1>11 DEF WInv, ChainInv, SignSoFar, SignatureMade, vars, locals, past
    <3>3. VerifySoFar' /\ VerdictLast'
      BY <1>11 DEF WInv, ChainInv, VerifySoFar, VerdictLast, Recovers, Collision, SameElements,
         vars, locals, past
    <3> QED BY <3>1, <3>2, <3>3 DEF ChainInv
  <2>3. DigitsSoFar' /\ SignedDigits'
    BY <1>11 DEF WInv, DigitInv, DigitsSoFar, SignedDigits, MessagePart, Decomposed,
       DigitsOf, SumsOf, ChecksumOf, vars, locals, past
  <2>4. Comparison'
    BY <1>11 DEF WInv, DigitInv, Comparison, MessagePart, Covers, Agrees, DigitsOf,
       vars, locals, past
  <2> QED BY <2>1, <2>2, <2>3, <2>4 DEF WInv, DigitInv
<1> QED BY <1>1, <1>2, <1>3, <1>4, <1>5, <1>6, <1>7, <1>8, <1>9, <1>10, <1>11 DEF Next

LEMMA AlwaysWInv == Spec => []WInv
BY InitWInv, NextWInv, PTL DEF Spec

-------------------------------------------------------------------------------
(***************************************************************************)
(* The theorems.                                                           *)
(***************************************************************************)
\* Digits, steps and the checksum stay in range in every state of key
\* generation, signing and verification.
THEOREM WotsTypes == Spec => []TypeOK
<1>1. WInv => TypeOK
  BY DEF WInv
<1> QED BY AlwaysWInv, <1>1, PTL

\* Whatever the step function does, wots_pk_from_sig recovers the public key
\* from the signature that wots_sign made for the same hash.
THEOREM SignaturesVerify == Spec => []OwnSignatureVerifies
<1>1. WInv => OwnSignatureVerifies
  <2> SUFFICES ASSUME WInv, op = "verify", stage = "returned", msg_hash = signed_hash,
                      received = sig
               PROVE  verdict = "Ok"
    BY DEF OwnSignatureVerifies
  <2>1. \A t \in Element : t < Xi
    BY Sizes DEF Element
  <2>2. DigitsOf(digits, msg_hash, Xi) /\ DigitsOf(signed, msg_hash, Xi)
    BY DEF WInv, DigitInv, SignedDigits, Decomposed, Comparison
  <2>3. Agrees(Xi1)
    <3> SUFFICES ASSUME NEW k \in Element, k < Xi1 PROVE signed[k] = digits[k]
      BY DEF Agrees
    <3>1. k \in 0 .. Xi1 - 1 /\ k < Xi
      BY <2>1, Sizes DEF Element
    <3> QED BY <2>2, <3>1 DEF DigitsOf
  <2>4. Agrees(Xi)
    BY <2>3 DEF WInv, DigitInv, Comparison
  <2>5. ASSUME NEW t \in Element
        PROVE  elements[t] = pk[t]
    <3>1. received[t] = chain[t][digits[t]]
      BY <2>1, <2>4 DEF Agrees, WInv, ChainInv, SignatureMade
    <3>2. Recovers(t, elements[t], WMax)
      BY <2>1 DEF WInv, ChainInv, VerifySoFar
    <3>3. pk[t] = chain[t][WMax]
      BY DEF WInv, ChainInv, KeyMade
    <3> QED BY <3>1, <3>2, <3>3 DEF Recovers
  <2>6. SameElements(elements)
    BY <2>5 DEF SameElements
  <2> QED BY <2>6 DEF WInv, ChainInv, VerifySoFar
<1> QED BY AlwaysWInv, <1>1, PTL

\* What wots_verify accepts are the values of the key's chains at the digits of
\* the hash, or the verification has met a collision of wots_chain_step.
THEOREM AcceptanceIsSound == Spec => []AcceptedIsGenuine
<1>1. WInv => AcceptedIsGenuine
  <2> SUFFICES ASSUME WInv, verdict = "Ok", ~ Collision, NEW t \in Element
               PROVE  received[t] = chain[t][digits[t]]
    BY DEF AcceptedIsGenuine
  <2>1. op = "verify" /\ stage = "returned"
    BY DEF WInv, ChainInv, VerdictLast
  <2>2. i = Xi /\ SameElements(elements)
    BY <2>1 DEF WInv, ChainInv, VerifySoFar
  <2>3. t < i
    BY <2>2, Sizes DEF Element
  <2>4. Recovers(t, elements[t], WMax)
    BY <2>1, <2>3 DEF WInv, ChainInv, VerifySoFar
  <2>5. elements[t] = chain[t][WMax]
    BY <2>1, <2>2 DEF WInv, ChainInv, KeyMade, SameElements
  <2> QED BY <2>4, <2>5 DEF Recovers
<1> QED BY AlwaysWInv, <1>1, PTL

\* Bytes are determined by their two digits.
LEMMA DigitsDetermineHash ==
  ASSUME NEW g \in Hashes, NEW h \in Hashes, NEW d, DigitsOf(d, g, Xi), DigitsOf(d, h, Xi)
  PROVE  g = h
<1> SUFFICES ASSUME NEW m \in 0 .. Xi1 \div 2 - 1 PROVE g[m] = h[m]
  <2> DEFINE S == 0 .. Xi1 \div 2 - 1
             T == 0 .. Base * Base - 1
  <2>1. g \in [S -> T] /\ h \in [S -> T]
    BY DEF Hashes
  <2>2. ASSUME \A m \in S : g[m] = h[m]
        PROVE  g = h
    <3> HIDE DEF S, T
    <3> QED BY <2>1, <2>2
  <2> QED BY <2>2
<1>1. /\ 2 * m \in 0 .. Xi1 - 1 /\ 2 * m + 1 \in 0 .. Xi1 - 1
      /\ 2 * m < Xi /\ 2 * m + 1 < Xi
      /\ (2 * m) \div 2 = m /\ (2 * m + 1) \div 2 = m
      /\ (2 * m) % 2 = 0 /\ (2 * m + 1) % 2 # 0
  BY Sizes
<1>2. HashDigit(g, 2 * m) = HashDigit(h, 2 * m) /\ HashDigit(g, 2 * m + 1) = HashDigit(h, 2 * m + 1)
  BY <1>1 DEF DigitsOf
<1>3. g[m] \div Base = h[m] \div Base /\ g[m] % Base = h[m] % Base
  BY <1>1, <1>2 DEF HashDigit
<1>4. Base * Base \in Nat
  BY Sizes
<1>5. PICK a \in Nat, b \in Nat : a = g[m] /\ b = h[m]
  BY <1>4 DEF Hashes
<1>6. a = Base * (a \div Base) + (a % Base)
  BY Sizes, DivMod
<1>7. b = Base * (b \div Base) + (b % Base)
  BY Sizes, DivMod
<1>8. a = b
  BY <1>3, <1>5, <1>6, <1>7
<1> QED BY <1>5, <1>8

\* The checksum at work, for all numbers and bases of digits: one element of a
\* signature for another hash comes earlier than the element disclosed.
THEOREM ChecksumProtects == Spec => []OtherHashNotCovered
<1>1. WInv => OtherHashNotCovered
  <2> SUFFICES ASSUME WInv, verdict = "Ok", \A t \in Element : ~ digits[t] < signed[t]
               PROVE  msg_hash = signed_hash
    BY DEF OtherHashNotCovered
  <2>1. op = "verify" /\ stage = "returned"
    BY DEF WInv, ChainInv, VerdictLast
  <2>2. digits \in [Element -> 0 .. WMax] /\ signed \in [Element -> 0 .. WMax]
    BY DEF WInv, TypeOK, Digit
  <2>3. Covers(Xi)
    <3> SUFFICES ASSUME NEW t \in Element PROVE signed[t] <= digits[t]
      BY DEF Covers
    <3> QED BY <2>2, Sizes
  <2>4. Agrees(Xi)
    BY <2>1, <2>3 DEF WInv, DigitInv, Comparison
  <2>5. \A k \in 0 .. Xi1 - 1 : k \in Element /\ k < Xi
    BY Sizes DEF Element
  <2>6. DigitsOf(digits, msg_hash, Xi) /\ DigitsOf(signed, signed_hash, Xi)
    BY <2>1 DEF WInv, DigitInv, SignedDigits, Decomposed, Comparison
  <2>7. DigitsOf(digits, signed_hash, Xi)
    BY <2>4, <2>5, <2>6 DEF Agrees, DigitsOf
  <2>8. msg_hash \in Hashes /\ signed_hash \in Hashes
    BY DEF WInv, TypeOK
  <2> QED BY <2>6, <2>7, <2>8, DigitsDetermineHash
<1> QED BY AlwaysWInv, <1>1, PTL
=============================================================================
