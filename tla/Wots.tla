---------------------------------- MODULE Wots ----------------------------------
(***************************************************************************)
(* The Winternitz one-time signatures on the leaves of SMT(1) and SMT(2):  *)
(* key generation, one signature, and the verification of what was received as *)
(* that signature, digit by digit and chain by chain.                      *)
(*                                                                         *)
(* The message hash is a sequence of bytes of two digits; a byte of the    *)
(* code holds two digits of W = 4 bits.                                    *)
(*                                                                         *)
(* Source: crates/knee-tie-crypto/src/wots.rs, utils/hash.rs.              *)
(***************************************************************************)
EXTENDS Integers

CONSTANTS
  Base,           \* 1 << W
  Xi1, Xi2,       \* message digits, checksum digits
  Weight,         \* Weight[k] is 1 << (k * W)
  Value,          \* the values of LAMBDA bytes, 0 among them
  Step,           \* wots_chain_step under pub_seed
  SecretKeys,     \* the results of prf_indices in wots_keygen
  Disclosures     \* bound: chain positions from which further signatures are taken

Xi   == Xi1 + Xi2
WMax == Base - 1

Element == 0 .. Xi - 1
Digit   == 0 .. WMax
Hashes  == [0 .. Xi1 \div 2 - 1 -> 0 .. Base * Base - 1]

\* The last conjunct is what XI2 = 3 is derived from: the checksum fits.
ASSUME WotsAssumption ==
  /\ Base \in Nat /\ Base > 1
  /\ Xi1 \in Nat \ {0} /\ Xi1 % 2 = 0
  /\ Xi2 \in Nat \ {0}
  /\ Weight \in [0 .. Xi2 -> Nat \ {0}]
  /\ Weight[0] = 1
  /\ \A k \in 0 .. Xi2 - 1 : Weight[k + 1] = Base * Weight[k]
  /\ Xi1 * WMax < Weight[Xi2]

ASSUME ValueAssumption ==
  /\ 0 \in Value
  /\ Step \in [Value \X (0 .. WMax - 1) -> Value]
  /\ SecretKeys \subseteq [Element -> Value]
  /\ Disclosures \subseteq [Element -> Digit]

VARIABLES
  op,        \* what runs, or what has been done
  stage,     \* of the operation that runs
  msg_hash,  \* its argument
  i,         \* its loop variable
  digits, checksum,   \* locals of message_to_basew
  result, step,       \* locals of wots_chain
  elements,  \* the array the operation fills
  sk, pk, sig,
  received,  \* wots_verify: its argument sig
  verdict,
  signed_hash, signed,   \* history: the hash that was signed, its digits
  sums,      \* history: the checksum while they were extracted
  chain,     \* history: every value of every chain, from keygen
  hashed     \* history: what this verification applied wots_chain_step to

locals == <<msg_hash, i, digits, checksum, result, step, elements>>
past   == <<signed_hash, signed, sums, chain>>
vars   == <<op, stage, locals, sk, pk, sig, received, verdict, past, hashed>>

Init ==
  /\ op = "keygen" /\ stage = "element"
  /\ msg_hash = [n \in 0 .. Xi1 \div 2 - 1 |-> 0]
  /\ i = 0
  /\ digits = [t \in Element |-> 0] /\ checksum = 0
  /\ result = 0 /\ step = 0
  /\ elements = [t \in Element |-> 0]
  /\ sk \in SecretKeys
  /\ pk = elements /\ sig = elements /\ received = elements
  /\ verdict = "none"
  /\ signed_hash = msg_hash /\ signed = digits
  /\ sums = [n \in 0 .. Xi1 |-> 0]
  /\ chain = [t \in Element |-> [s \in Digit |-> 0]]
  /\ hashed = {}

-------------------------------------------------------------------------------
(***************************************************************************)
(* message_to_basew.                                                       *)
(***************************************************************************)
\* Digit n of the hash: the high half of a byte, then the low half.
HashDigit(hash, n) ==
  IF n % 2 = 0 THEN hash[n \div 2] \div Base ELSE hash[n \div 2] % Base

\* Mutant: the digits are summed as they are.
PlainSum(digit) == digit

\* Mutant: the length of a chain is taken for its last index.
ComplementToBase(digit) == Base - digit

\* What a digit adds to the checksum.
Complement(digit) == WMax - digit

\* Steps 1 and 2: the digits of the hash and their checksum.
DigitStep ==
  /\ stage = "digits"
  /\ i < Xi1
  /\ digits' = [digits EXCEPT ![i] = HashDigit(msg_hash, i)]
  /\ checksum' = checksum + Complement(HashDigit(msg_hash, i))
  /\ i' = i + 1
  /\ sums' = IF op = "sign" THEN [sums EXCEPT ![i + 1] = checksum'] ELSE sums
  /\ UNCHANGED <<op, stage, msg_hash, result, step, elements, sk, pk, sig,
                 received, verdict, signed_hash, signed, chain, hashed>>

\* Step 3: the digits of the checksum, most significant first.
ChecksumStep ==
  /\ stage = "digits"
  /\ Xi1 <= i /\ i < Xi
  /\ digits' = [digits EXCEPT ![i] = (checksum \div Weight[Xi - 1 - i]) % Base]
  /\ i' = i + 1
  /\ UNCHANGED <<op, stage, msg_hash, checksum, result, step, elements, sk, pk, sig,
                 received, verdict, past, hashed>>

DigitsReturn ==
  /\ stage = "digits"
  /\ i = Xi
  /\ stage' = "element"
  /\ i' = 0
  /\ UNCHANGED <<op, msg_hash, digits, checksum, result, step, elements, sk, pk, sig,
                 received, verdict, past, hashed>>

-------------------------------------------------------------------------------
(***************************************************************************)
(* The loop over the elements with its calls of wots_chain.                *)
(***************************************************************************)
\* Mutant: recovery counts its steps from 0.
StartAtZero == 0

\* `start` of the call for element i, and where the call stops.
ChainStart == IF op = "verify" THEN digits[i] ELSE 0

ChainStop == IF op = "sign" THEN digits[i] ELSE WMax

ElementBegin ==
  /\ stage = "element"
  /\ i < Xi
  /\ stage' = "chain"
  /\ result' = IF op = "verify" THEN received[i] ELSE sk[i]
  /\ step' = ChainStart
  /\ chain' = IF op = "keygen" THEN [chain EXCEPT ![i] = [@ EXCEPT ![0] = sk[i]]]
                               ELSE chain
  /\ UNCHANGED <<op, msg_hash, i, digits, checksum, elements, sk, pk, sig,
                 received, verdict, signed_hash, signed, sums, hashed>>

\* An iteration of wots_chain.
ChainStep ==
  /\ stage = "chain"
  /\ step < ChainStop
  /\ result' = Step[<<result, step>>]
  /\ step' = step + 1
  /\ chain' = IF op = "keygen"
              THEN [chain EXCEPT ![i] = [@ EXCEPT ![step + 1] = result']]
              ELSE chain
  /\ hashed' = IF op = "verify" THEN hashed \cup {<<result, step>>} ELSE hashed
  /\ UNCHANGED <<op, stage, msg_hash, i, digits, checksum, elements, sk, pk, sig,
                 received, verdict, signed_hash, signed, sums>>

ElementEnd ==
  /\ stage = "chain"
  /\ ~ step < ChainStop
  /\ stage' = "element"
  /\ elements' = [elements EXCEPT ![i] = result]
  /\ i' = i + 1
  /\ UNCHANGED <<op, msg_hash, digits, checksum, result, step, sk, pk, sig,
                 received, verdict, past, hashed>>

-------------------------------------------------------------------------------
(***************************************************************************)
(* The operations.                                                         *)
(***************************************************************************)
\* What an operation on a message hash starts from.
Call(operation, hash) ==
  /\ op' = operation
  /\ stage' = "digits"
  /\ msg_hash' = hash
  /\ i' = 0
  /\ digits' = [t \in Element |-> 0] /\ checksum' = 0
  /\ result' = 0 /\ step' = 0
  /\ elements' = [t \in Element |-> 0]

\* The array has been filled and is returned.
Returns(operation) ==
  /\ op = operation
  /\ stage = "element"
  /\ i = Xi
  /\ stage' = "returned"

KeygenReturn ==
  /\ Returns("keygen")
  /\ pk' = elements
  /\ UNCHANGED <<op, locals, sk, sig, received, verdict, past, hashed>>

\* One signature: "WOTS is one-time".
WotsSign(hash) ==
  /\ op = "keygen" /\ stage = "returned"
  /\ Call("sign", hash)
  /\ UNCHANGED <<sk, pk, sig, received, verdict, past, hashed>>

SignReturn ==
  /\ Returns("sign")
  /\ sig' = elements
  /\ signed_hash' = msg_hash
  /\ signed' = digits
  /\ UNCHANGED <<op, locals, sk, pk, received, verdict, sums, chain, hashed>>

\* The signature as it was sent, one with an element altered, or what signing
\* something else with the same key would yield.
Received ==
  {sig} \cup {[sig EXCEPT ![t] = v] : t \in Element, v \in Value}
        \cup {[t \in Element |-> chain[t][position[t]]] : position \in Disclosures}

\* Verification keeps no state, so that one of them stands for all.
WotsVerify(hash) ==
  /\ op = "sign" /\ stage = "returned"
  /\ Call("verify", hash)
  /\ received' \in Received
  /\ UNCHANGED <<sk, pk, sig, verdict, past, hashed>>

\* Mutant: the elements of the checksum are not compared.
SameMessageElements(recovered) == \A t \in 0 .. Xi1 - 1 : recovered[t] = pk[t]

SameElements(recovered) == \A t \in Element : recovered[t] = pk[t]

Compare ==
  /\ Returns("verify")
  /\ verdict' = IF SameElements(elements) THEN "Ok" ELSE "WotsVerificationFailed"
  /\ UNCHANGED <<op, locals, sk, pk, sig, received, past, hashed>>

Next ==
  \/ DigitStep \/ ChecksumStep \/ DigitsReturn
  \/ ElementBegin \/ ChainStep \/ ElementEnd
  \/ KeygenReturn \/ SignReturn \/ Compare
  \/ \E hash \in Hashes : WotsSign(hash) \/ WotsVerify(hash)

Spec == Init /\ [][Next]_vars

-------------------------------------------------------------------------------
\* Every variable has its type; steps and digits are in range and the checksum
\* fits its digits.
TypeOK ==
  /\ op \in {"keygen", "sign", "verify"}
  /\ stage \in {"digits", "element", "chain", "returned"}
  /\ msg_hash \in Hashes /\ signed_hash \in Hashes
  /\ i \in 0 .. Xi
  /\ digits \in [Element -> Digit] /\ signed \in [Element -> Digit]
  /\ checksum \in 0 .. Xi1 * WMax
  /\ sums \in [0 .. Xi1 -> 0 .. Xi1 * WMax]
  /\ result \in Value /\ step \in 0 .. WMax
  /\ elements \in [Element -> Value]
  /\ sk \in [Element -> Value] /\ pk \in [Element -> Value]
  /\ sig \in [Element -> Value] /\ received \in [Element -> Value]
  /\ verdict \in {"none", "Ok", "WotsVerificationFailed"}
  /\ chain \in [Element -> [Digit -> Value]]
  /\ hashed \in SUBSET (Value \X (0 .. WMax - 1))

\* The signature that was made verifies for the hash it was made for: signing
\* and recovery together walk each chain once, with the same step counters.
OwnSignatureVerifies ==
  op = "verify" /\ stage = "returned" /\ msg_hash = signed_hash /\ received = sig
    => verdict = "Ok"

\* Two inputs of one step with one output: one in a chain, one hashed now.
Collision ==
  \E t \in Element, s \in 0 .. WMax - 1, v \in Value :
    <<v, s>> \in hashed /\ v # chain[t][s] /\ Step[<<v, s>>] = chain[t][s + 1]

\* Whatever was received, acceptance means that each element is the value of
\* the key's chain at the digit of the hash, unless a step collides.
AcceptedIsGenuine ==
  verdict = "Ok" => (\A t \in Element : received[t] = chain[t][digits[t]]) \/ Collision

\* What one signature discloses, its elements and all that follow them in their
\* chains, is not enough for the hash of another message: thanks to the
\* checksum one of its elements comes earlier.
OtherHashNotCovered ==
  verdict = "Ok" /\ msg_hash # signed_hash => \E t \in Element : digits[t] < signed[t]
===============================================================================
