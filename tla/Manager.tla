-------------------------------- MODULE Manager --------------------------------
(***************************************************************************)
(* The group manager of DGMT: DGMT.Join, DGMT.KeyDist and DGMT.Rev over    *)
(* the private member list PLM and the public revocation list RL.          *)
(*                                                                         *)
(* dgmt_key_dist is a loop that updates the caller's record as it goes, so *)
(* a call is a sequence of steps here; calls for different members run     *)
(* side by side (they share only immutable borrows), while dgmt_revoke     *)
(* borrows the whole list and the public parameters mutably and therefore  *)
(* runs when no dgmt_key_dist does.                                        *)
(*                                                                         *)
(* Source: crates/knee-tie-crypto/src/dgmt/{join,revoke}.rs.               *)
(***************************************************************************)
EXTENDS DgmtParams, Sequences

CONSTANTS
  Requests,   \* the values of b that callers pass to dgmt_key_dist
  Word        \* 2^32, at a reduced width

ASSUME RequestsAssumption == Requests \subseteq Nat

ASSUME WordAssumption == Word \in Nat \ {0}

VARIABLES
  next_id,       \* the next unassigned member id, tracked by the caller
  status,        \* PLM: MemberRecord.status, "None" before the member joins
  index_state,   \* PLM: MemberRecord.index_state, one pointer per node
  call,          \* the dgmt_key_dist call running for a member, if any
  wallet,        \* the signing keys a member has received
  rl,            \* DgmtPublicParams.rl
  issued_to      \* history: members each OTS leaf key was built for, in order

vars == <<next_id, status, index_state, call, wallet, rl, issued_to>>

\* A leaf key: fallback node, SMTMT, SMT(2) and physical leaf l'.
OtsKey == Fn \X Smtmt \X Leaf \X Leaf

SigningKey == [i : Fn, j : Smtmt, k : Leaf, l_prime : Leaf, dgmt_pos : DgmtPos]

Call == [pc : {"idle", "loop"}, b : Nat, attempts : Nat, allocated : Nat,
         keys : SUBSET SigningKey]

Idle == [pc |-> "idle", b |-> 0, attempts |-> 0, allocated |-> 0, keys |-> {}]

Loop(b, attempts, allocated, keys) ==
  [pc |-> "loop", b |-> b, attempts |-> attempts, allocated |-> allocated,
   keys |-> keys]

Init ==
  /\ next_id     = 1
  /\ status      = [id \in Ids |-> "None"]
  /\ index_state = [id \in Ids |-> [i \in Fn |-> FirstPtr]]
  /\ call        = [id \in Ids |-> Idle]
  /\ wallet      = [id \in Ids |-> {}]
  /\ rl          = {}
  /\ issued_to   = [key \in OtsKey |-> <<>>]

-------------------------------------------------------------------------------
(***************************************************************************)
(* DGMT.Join.                                                              *)
(***************************************************************************)
\* Mutant: the group-full check is off by one.
JoinPastNMax ==
  /\ next_id <= NMax + 1
  /\ next_id' = next_id + 1
  /\ status'  = [status EXCEPT ![next_id] = "Active"]
  /\ index_state' = [index_state EXCEPT ![next_id] = [i \in Fn |-> FirstPtr]]
  /\ UNCHANGED <<call, wallet, rl, issued_to>>

Join ==
  /\ next_id <= NMax
  /\ next_id' = next_id + 1
  /\ status'  = [status EXCEPT ![next_id] = "Active"]
  /\ index_state' = [index_state EXCEPT ![next_id] = [i \in Fn |-> FirstPtr]]
  /\ UNCHANGED <<call, wallet, rl, issued_to>>

-------------------------------------------------------------------------------
(***************************************************************************)
(* DGMT.KeyDist: one call, one iteration of its loop per step.             *)
(***************************************************************************)
\* In u32.  A build with overflow checks panics instead of wrapping, before the
\* call has changed anything: there it is as if the call had not begun.
MaxAttempts(id) == (call[id].b * NumFn * 2) % Word

Running(id) == call[id].pc = "loop"

\* Mutant: the loop condition is off by one.
WantingOneMore(id) == Running(id) /\ call[id].allocated <= call[id].b

Wanting(id) == Running(id) /\ call[id].allocated < call[id].b

\* Mutant: a revoked member is served.
KeyDistBeginUnchecked(id, b) ==
  /\ ~ Running(id)
  /\ status[id] # "None"
  /\ call' = [call EXCEPT ![id] = Loop(b, 0, 0, {})]
  /\ UNCHANGED <<next_id, status, index_state, wallet, rl, issued_to>>

\* A revoked member's call returns CredentialsRevoked and changes nothing.
KeyDistBegin(id, b) ==
  /\ ~ Running(id)
  /\ status[id] = "Active"
  /\ call' = [call EXCEPT ![id] = Loop(b, 0, 0, {})]
  /\ UNCHANGED <<next_id, status, index_state, wallet, rl, issued_to>>

\* build_signing_key for the leaf at pointer p of member id under node i.
SigningKeyAt(id, i, p) ==
  LET l == LAbsolute(id, p[3])
  IN  [i |-> i, j |-> p[1], k |-> p[2],
       l_prime |-> Shuffle[<<i, p[1], p[2]>>][l],
       dgmt_pos |-> <<i, p[1], p[2], l>>]

OtsKeyOf(key) == <<key.i, key.j, key.k, key.l_prime>>

\* The loop picked node i and its pointer advances: one key is built.
KeyDistAllocate(id, i) ==
  LET p   == Advance(index_state[id][i])
      key == SigningKeyAt(id, i, p)
  IN  /\ Wanting(id)
      /\ call[id].attempts < MaxAttempts(id)
      /\ ~ Exhausted(index_state[id][i])
      /\ index_state' = [index_state EXCEPT ![id][i] = p]
      /\ call' = [call EXCEPT ![id] =
                     Loop(@.b, @.attempts + 1, @.allocated + 1, @.keys \cup {key})]
      /\ issued_to' = [issued_to EXCEPT ![OtsKeyOf(key)] = Append(@, id)]
      /\ UNCHANGED <<next_id, status, wallet, rl>>

\* Mutant: only successful iterations count as attempts.
KeyDistMissUncounted(id, i) ==
  /\ Wanting(id)
  /\ call[id].attempts < MaxAttempts(id)
  /\ Exhausted(index_state[id][i])
  /\ UNCHANGED vars

\* The loop picked node i, which this member has exhausted.
KeyDistMiss(id, i) ==
  /\ Wanting(id)
  /\ call[id].attempts < MaxAttempts(id)
  /\ Exhausted(index_state[id][i])
  /\ call' = [call EXCEPT ![id] = Loop(@.b, @.attempts + 1, @.allocated, @.keys)]
  /\ UNCHANGED <<next_id, status, index_state, wallet, rl, issued_to>>

\* Mutant: a call that fails puts the member's pointers back to the start.
KeyDistGiveUpRewinding(id) ==
  /\ Wanting(id)
  /\ call[id].attempts >= MaxAttempts(id)
  /\ call' = [call EXCEPT ![id] = Idle]
  /\ index_state' = [index_state EXCEPT ![id] = [i \in Fn |-> FirstPtr]]
  /\ UNCHANGED <<next_id, status, wallet, rl, issued_to>>

\* The attempt budget is spent: NoKeysRemaining.  The pointers stay where the
\* loop left them and the keys it had built are dropped with the stack frame.
KeyDistGiveUp(id) ==
  /\ Wanting(id)
  /\ call[id].attempts >= MaxAttempts(id)
  /\ call' = [call EXCEPT ![id] = Idle]
  /\ UNCHANGED <<next_id, status, index_state, wallet, rl, issued_to>>

\* b keys are allocated: the caller receives them.
KeyDistReturn(id) ==
  /\ Running(id)
  /\ ~ Wanting(id)
  /\ wallet' = [wallet EXCEPT ![id] = @ \cup call[id].keys]
  /\ call'   = [call EXCEPT ![id] = Idle]
  /\ UNCHANGED <<next_id, status, index_state, rl, issued_to>>

KeyDistStep(id) ==
  \/ \E i \in Fn : KeyDistAllocate(id, i) \/ KeyDistMiss(id, i)
  \/ KeyDistGiveUp(id)
  \/ KeyDistReturn(id)

-------------------------------------------------------------------------------
(***************************************************************************)
(* DGMT.Rev.                                                               *)
(***************************************************************************)
\* Mutant: the walk stops before the pointer.
WalkedTagsBeforePointer(id) ==
  {t \in DgmtPos :
     \E l \in 0 .. LastLocal :
        /\ t[4] = LAbsolute(id, l)
        /\ Precedes(<<t[2], t[3], l>>, index_state[id][t[1]])}

\* Mutant: whole SMT(2)s are listed, not the member's interval.
WalkedTagsWholeTrees(id) ==
  {t \in DgmtPos : AtOrBefore(<<t[2], t[3], 0>>, index_state[id][t[1]])}

\* What the walk from (1,0,0) up to the pointer of each node adds to RL.
WalkedTags(id) ==
  {t \in DgmtPos :
     \E l \in 0 .. LastLocal :
        /\ t[4] = LAbsolute(id, l)
        /\ AtOrBefore(<<t[2], t[3], l>>, index_state[id][t[1]])}

\* Mutant: the list is rebuilt for the ids of this call.
RevokeReplacingList(revoke_ids) ==
  LET known == {id \in revoke_ids : status[id] # "None"}
  IN  /\ \A id \in Ids : ~ Running(id)
      /\ status' = [id \in Ids |->
                      IF id \in known THEN "Revoked" ELSE status[id]]
      /\ rl' = UNION {WalkedTags(id) : id \in known}
      /\ UNCHANGED <<next_id, index_state, call, wallet, issued_to>>

\* Ids without a record are skipped; revoking a member again changes nothing.
Revoke(revoke_ids) ==
  LET known == {id \in revoke_ids : status[id] # "None"}
  IN  /\ \A id \in Ids : ~ Running(id)
      /\ status' = [id \in Ids |->
                      IF id \in known THEN "Revoked" ELSE status[id]]
      /\ rl' = rl \cup UNION {WalkedTags(id) : id \in known}
      /\ UNCHANGED <<next_id, index_state, call, wallet, issued_to>>

-------------------------------------------------------------------------------
(***************************************************************************)
(* DGMT.Op: the id a position tag opens to, 0 when a range check fails.    *)
(***************************************************************************)
\* Mutant: the interval formula rounds l/beta up instead of (l + 0.5)/beta.
OpenTagRoundedUp(t) ==
  LET id == (t[4] + Beta - 1) \div Beta
  IN  IF /\ t[1] \in 1 .. NumFn
         /\ t[2] \in 1 .. Gamma
         /\ t[3] < Alpha
         /\ t[4] < Alpha
         /\ id \in 1 .. NMax
      THEN id
      ELSE 0

OpenTag(t) ==
  LET id == (t[4] \div Beta) + 1
  IN  IF /\ t[1] \in 1 .. NumFn
         /\ t[2] \in 1 .. Gamma
         /\ t[3] < Alpha
         /\ t[4] < Alpha
         /\ id \in 1 .. NMax
      THEN id
      ELSE 0

-------------------------------------------------------------------------------
Next ==
  \/ Join
  \/ \E id \in Ids : (\E b \in Requests : KeyDistBegin(id, b)) \/ KeyDistStep(id)
  \/ \E revoke_ids \in SUBSET Ids : Revoke(revoke_ids)

\* A call that has started runs to its return: it is one function on a thread.
Fairness == \A id \in Ids : WF_vars(KeyDistStep(id))

Spec == Init /\ [][Next]_vars /\ Fairness

-------------------------------------------------------------------------------
(***************************************************************************)
(* Properties.                                                             *)
(***************************************************************************)
\* Every variable has its type; the pointers of PLM stay inside the index
\* space of MemberRecord.index_state.
TypeOK ==
  /\ next_id \in 1 .. NMax + 1
  /\ status \in [Ids -> {"None", "Active", "Revoked"}]
  /\ index_state \in [Ids -> [Fn -> Pointer]]
  /\ call \in [Ids -> Call]
  /\ wallet \in [Ids -> SUBSET SigningKey]
  /\ rl \in SUBSET DgmtPos
  /\ issued_to \in [OtsKey -> Seq(Ids)]

\* The keys of member id that are in its hands or on the way there.
KeysOf(id) == wallet[id] \cup call[id].keys

\* A WOTS leaf key signs one message, so dgmt_key_dist never builds the same
\* leaf (i, j, k, l') again: not in a later call, not after a call that failed
\* half-way, not for another member.
NoLeafIssuedTwice == \A key \in OtsKey : Len(issued_to[key]) <= 1

\* dgmt_revoke lists the tag of every key the member was ever handed.
RevokedKeysListed ==
  \A id \in Ids : status[id] = "Revoked" =>
    \A key \in KeysOf(id) : key.dgmt_pos \in rl

\* Revoking some members never lists a key of another one, neither one it
\* holds nor one it receives later.
ActiveKeysNotListed ==
  \A id \in Ids : status[id] = "Active" =>
    \A key \in KeysOf(id) : key.dgmt_pos \notin rl

\* "each user keeps one unused key" (params.rs): however many keys members
\* draw, each leaves a leaf of its interval of every SMT(2) unissued.
UnusedLeafKept ==
  \A id \in Ids, i \in Fn, j \in Smtmt, k \in Leaf :
    \E l \in 0 .. Beta - 1 :
      issued_to[<<i, j, k, Shuffle[<<i, j, k>>][LAbsolute(id, l)]>>] = <<>>

\* A revoked member stays revoked, gets no further key and is never taken off
\* the revocation list.
RevocationIsFinal ==
  [][\A id \in Ids : status[id] = "Revoked" =>
       /\ status'[id] = "Revoked"
       /\ KeysOf(id)' = KeysOf(id)
       /\ rl \subseteq rl']_vars

\* A dgmt_key_dist that returns Ok hands over exactly b keys the member did
\* not have.
DeliversWhatWasAsked ==
  [][\A id \in Ids : KeyDistReturn(id) =>
       Cardinality(wallet'[id] \ wallet[id]) = call[id].b]_vars

\* dgmt_key_dist iterates "until we have allocated b keys or exhausted all
\* positions" (join.rs) and reports NoKeysRemaining, "No OTS keys remaining for
\* this member" (error.rs), in the second case.
NoKeysRemainingMeansExhausted ==
  [][\A id \in Ids : KeyDistGiveUp(id) =>
       \A i \in Fn : Exhausted(index_state[id][i])]_vars

\* Every dgmt_key_dist call returns, also when all its nodes are exhausted.
KeyDistReturns == \A id \in Ids : Running(id) ~> ~ Running(id)
===============================================================================
