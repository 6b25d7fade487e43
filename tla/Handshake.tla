------------------------------ MODULE Handshake ------------------------------
(***************************************************************************)
(* The Elligator-K1 Diffie-Hellman exchange of elligator/dh.rs: each party *)
(* draws scalars until its point can be sent as a field element            *)
(* (generate_keypair), sends that element as a string, and completes with  *)
(* whatever string it is given (compute_shared_secret).                    *)
(***************************************************************************)
EXTENDS KummerLine

CONSTANTS BaseX,         \* base_point_x(): the base point is (BaseX : 1)
          Bits,          \* the bits of a scalar and of a string: 256
          MaxAttempts,   \* max_attempts: 64
          Party,         \* the two parties
          Exposed        \* bound: the parties that may be given any string

Strings == 0 .. PowerOfTwo[Bits] - 1

Base == [x |-> BaseX, z |-> 1]

VARIABLES phase,     \* a party's call: none, its loop over scalars, or has keys
          attempts,  \* `_` of that loop
          scalar,    \* a party's secret scalar
          public,    \* the string it transmits
          received,  \* the string it completed with
          secret     \* what that returned: a value or Err

vars == <<phase, attempts, scalar, public, received, secret>>

ASSUME HandshakeAssumption ==
  /\ BaseX \in Field
  /\ Bits \in Nat /\ P < PowerOfTwo[Bits - 1] /\ Bits > 5
  /\ MaxAttempts \in Nat
  /\ IsFiniteSet(Party) /\ Cardinality(Party) = 2 /\ Exposed \subseteq Party

\* What makes multiples of 8 good scalars (the cofactor, says clamp_scalar): the
\* point with x = 1, which the code cannot tell from the neutral element, is no
\* multiple of 8 of a point; and eight times the base point has a prime order, or
\* is the neutral element itself.
ASSUME CurveAssumption ==
  /\ \A pt \in Curve : Times[8][pt] # <<1, 0>>
  /\ \E q \in 3 .. Cardinality(Curve) :
       /\ \A d \in 2 .. q - 1 : q % d # 0
       /\ Killed(8 * q, Base)

Peer(party) == CHOOSE other \in Party : other # party

\* Mutant: only the lowest bit is cleared.
ClampOneBit(s) == PowerOfTwo[Bits - 2] + ((s % PowerOfTwo[Bits - 2]) \div 2) * 2

\* The three lowest bits and the highest are cleared, the second highest is set.
ClampScalar(s) == PowerOfTwo[Bits - 2] + ((s % PowerOfTwo[Bits - 2]) \div 8) * 8

\* A canonical element, as a number, is its own string.
FieldToBits(t) == t

\* Mutant: the top bit is taken for a part of the number.
AllBitsToField(bits) == bits % P

\* The top bit is cleared, what is left reduced.
BitsToField(bits) == (bits % PowerOfTwo[Bits - 1]) % P

NoString == -1
NoSecret == -1
Err == -2

Init ==
  /\ phase = [party \in Party |-> "idle"]
  /\ attempts = [party \in Party |-> 0]
  /\ scalar = [party \in Party |-> 0]
  /\ public = [party \in Party |-> NoString]
  /\ received = [party \in Party |-> NoString]
  /\ secret = [party \in Party |-> NoSecret]

DhInitiate(party) ==
  /\ phase[party] = "idle"
  /\ phase' = [phase EXCEPT ![party] = "sampling"]
  /\ attempts' = [attempts EXCEPT ![party] = 0]
  /\ UNCHANGED <<scalar, public, received, secret>>

\* What generate_keypair makes of a scalar: an element to send, or None.
Candidate(k) ==
  LET point == ScalarMult(k, Base) IN IF point.z = 0 THEN None ELSE Decode(point)

Found(party, k) ==
  /\ phase[party] = "sampling" /\ attempts[party] < MaxAttempts
  /\ Candidate(k) # None
  /\ phase' = [phase EXCEPT ![party] = "ready"]
  /\ scalar' = [scalar EXCEPT ![party] = k]
  /\ public' = [public EXCEPT ![party] = FieldToBits(Candidate(k))]
  /\ UNCHANGED <<attempts, received, secret>>

Retry(party, k) ==
  /\ phase[party] = "sampling" /\ attempts[party] < MaxAttempts
  /\ Candidate(k) = None
  /\ attempts' = [attempts EXCEPT ![party] = @ + 1]
  /\ UNCHANGED <<phase, scalar, public, received, secret>>

\* dh_initiate returns CryptoError, and may be called again.
GiveUp(party) ==
  /\ phase[party] = "sampling" /\ attempts[party] = MaxAttempts
  /\ phase' = [phase EXCEPT ![party] = "idle"]
  /\ UNCHANGED <<attempts, scalar, public, received, secret>>

\* compute_shared_secret: the affine x-coordinate stands for its hash.
SharedSecret(k, bits) ==
  LET theirs == Encode(BitsToField(bits))
      shared == ScalarMult(k, theirs)
  IN  IF theirs.z = 0 \/ shared.z = 0 THEN Err
      ELSE Mul(shared.x, Inv[shared.z])

\* A string that carries a public value, its free bit set or not.
Carries(bits, value) == bits = value \/ bits = value + PowerOfTwo[Bits - 1]

\* A call leaves nothing behind, so that one for each party stands for all.
DhComplete(party, bits) ==
  /\ phase[party] = "ready" /\ secret[party] = NoSecret
  /\ \/ party \in Exposed
     \/ public[Peer(party)] # NoString /\ Carries(bits, public[Peer(party)])
  /\ received' = [received EXCEPT ![party] = bits]
  /\ secret' = [secret EXCEPT ![party] = SharedSecret(scalar[party], bits)]
  /\ UNCHANGED <<phase, attempts, scalar, public>>

Next ==
  \E party \in Party :
    \/ DhInitiate(party) \/ GiveUp(party)
    \/ \E k \in {ClampScalar(s) : s \in Strings} : Found(party, k) \/ Retry(party, k)
    \/ \E bits \in Strings : DhComplete(party, bits)

Spec == Init /\ [][Next]_vars

------------------------------------------------------------------------------
\* Every variable has its type; a public value is a canonical representative,
\* which leaves the top bit of its string free.
TypeOK ==
  /\ phase \in [Party -> {"idle", "sampling", "ready"}]
  /\ attempts \in [Party -> 0 .. MaxAttempts]
  /\ scalar \in [Party -> Strings]
  /\ public \in [Party -> {NoString} \cup 0 .. (P - 1) \div 2]
  /\ received \in [Party -> {NoString} \cup Strings]
  /\ secret \in [Party -> {NoSecret, Err} \cup Field]

\* The string that a party sends decodes to the multiple of the base point by
\* its scalar: the map and its inverse, the choice of a root and the
\* double-and-add loop fit together.
PublicNamesMultiple ==
  \A party \in Party : phase[party] = "ready" =>
    \E pt \in PointsOf(Base) :
      Times[scalar[party] % Order[pt]][pt] \in PointsOf(Encode(BitsToField(public[party])))

\* Parties that complete with each other's public value share a secret,
\* whatever roots the two computations choose and whatever the free bits carry.
SharedSecretsAgree ==
  (\A party \in Party : /\ secret[party] # NoSecret
                        /\ public[Peer(party)] # NoString
                        /\ Carries(received[party], public[Peer(party)]))
    => /\ Err \notin {secret[party] : party \in Party}
       /\ Cardinality({secret[party] : party \in Party}) = 1

\* Every string is a point that can be multiplied: completing fails when the
\* multiple is the neutral element and only then. Neither a point off the curve
\* nor z = 0, which also stands for the point with x = 1, is ever the reason;
\* and a point of small order always fails, as a clamped scalar is a multiple of
\* its order.
ErrExactlyOnIdentity ==
  \A party \in Party : secret[party] # NoSecret =>
    LET theirs == Encode(BitsToField(received[party]))
    IN  /\ secret[party] = Err <=> Killed(scalar[party], theirs)
        /\ Killed(8, theirs) => secret[party] = Err

\* Of the four elements that the map sends to the point of a string,
\* elligator_k1_decode finds one in the canonical half, whatever representative
\* (x : z) of the point it is given.
RoundTrip ==
  \A party \in Party : received[party] # NoString =>
    LET theirs == Encode(BitsToField(received[party]))
        t == Decode(theirs)
    IN  /\ t \in 0 .. (P - 1) \div 2
        /\ ProjectivelyEqual(Encode(t), theirs)
        /\ \A c \in {2, P - 1} : Decode([x |-> Mul(c, theirs.x), z |-> Mul(c, theirs.z)]) = t
==============================================================================
