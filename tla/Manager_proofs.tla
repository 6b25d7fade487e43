---------------------------- MODULE Manager_proofs ----------------------------
(***************************************************************************)
(* Proofs about Manager, and about the two modules that compose it with    *)
(* others (Community, Group), for every number of nodes, trees, leaves,    *)
(* members and epochs and every set of request sizes.                      *)
(*                                                                         *)
(* The safety properties are not inductive by themselves: that a new key   *)
(* hits no leaf issued before needs to know where the issued leaves are,   *)
(* which is said by LeavesBehindPointers, and that a revoked member's keys *)
(* are listed needs that each key lies behind the pointer (KeysBehind-     *)
(* Pointers), that the list is exactly what the walks produced (RlExact)   *)
(* and that no call survives a revocation (CallsOfActiveMembers).  The     *)
(* community of members who read under epoch keys and the group of signers *)
(* and verifiers reuse that invariant.                                     *)
(***************************************************************************)
EXTENDS ManagerRefinement, Community, Group, DgmtParams_proofs, WellFoundedInduction

-------------------------------------------------------------------------------
\* Member id was issued the leaf at pointer p of node i: the start position
\* never is, since the pointer moves before it is used.
IssuedAt(id, i, p) ==
  /\ Precedes(FirstPtr, p)
  /\ AtOrBefore(p, index_state[id][i])

KeyOfMember(id, key) ==
  \E l \in 0 .. LastLocal :
    /\ key.dgmt_pos = <<key.i, key.j, key.k, LAbsolute(id, l)>>
    /\ key.l_prime = Shuffle[<<key.i, key.j, key.k>>][LAbsolute(id, l)]
    /\ IssuedAt(id, key.i, <<key.j, key.k, l>>)

Unjoined ==
  \A id \in Ids : /\ status[id] = "None" <=> id >= next_id
                  /\ status[id] = "None" => wallet[id] = {}

CallsOfActiveMembers ==
  \A id \in Ids : /\ Running(id) => status[id] = "Active"
                  /\ ~ Running(id) => call[id] = Idle

KeysBehindPointers ==
  \A id \in Ids : \A key \in KeysOf(id) : KeyOfMember(id, key)

LeavesBehindPointers ==
  \A key \in OtsKey :
    \/ issued_to[key] = <<>>
    \/ \E id \in Ids, l \in 0 .. LastLocal :
         /\ issued_to[key] = <<id>>
         /\ IssuedAt(id, key[1], <<key[2], key[3], l>>)
         /\ key[4] = Shuffle[<<key[1], key[2], key[3]>>][LAbsolute(id, l)]

RlExact ==
  \A t \in DgmtPos :
    t \in rl <=> \E id \in Ids : status[id] = "Revoked" /\ t \in WalkedTags(id)

NoPointersBeforeJoin ==
  \A id \in Ids : status[id] = "None" => index_state[id] = [i \in Fn |-> FirstPtr]

IInv ==
  /\ TypeOK
  /\ Unjoined
  /\ NoPointersBeforeJoin
  /\ CallsOfActiveMembers
  /\ KeysBehindPointers
  /\ LeavesBehindPointers
  /\ RlExact

-------------------------------------------------------------------------------
(***************************************************************************)
(* Type correctness.                                                       *)
(***************************************************************************)
LEMMA LocalIndex ==
  ASSUME NEW id \in Ids, NEW l \in 0 .. LastLocal
  PROVE  l \in 0 .. Beta - 1 /\ LAbsolute(id, l) \in Leaf
BY ParamTypes, LAbsoluteType

LEMMA SigningKeyAtType ==
  ASSUME NEW id \in Ids, NEW i \in Fn, NEW p \in Pointer
  PROVE  /\ SigningKeyAt(id, i, p) \in SigningKey
         /\ OtsKeyOf(SigningKeyAt(id, i, p)) \in OtsKey
<1>1. p[1] \in Smtmt /\ p[2] \in Leaf /\ p[3] \in 0 .. LastLocal
  BY DEF Pointer
<1>2. LAbsolute(id, p[3]) \in Leaf
  BY <1>1, LocalIndex
<1>3. Shuffle[<<i, p[1], p[2]>>][LAbsolute(id, p[3])] \in Leaf
  BY <1>1, <1>2, ShuffleType
<1> QED BY <1>1, <1>2, <1>3 DEF SigningKeyAt, SigningKey, DgmtPos, OtsKeyOf, OtsKey

LEMMA IdleType == Idle \in Call
BY DEF Idle, Call

LEMMA LoopType ==
  ASSUME NEW b \in Nat, NEW attempts \in Nat, NEW allocated \in Nat,
         NEW keys \in SUBSET SigningKey
  PROVE  Loop(b, attempts, allocated, keys) \in Call
BY DEF Loop, Call

LEMMA CallFields ==
  ASSUME TypeOK, NEW id \in Ids
  PROVE  /\ call[id].b \in Nat /\ call[id].attempts \in Nat
         /\ call[id].allocated \in Nat /\ call[id].keys \in SUBSET SigningKey
BY DEF TypeOK, Call

LEMMA InitType == Init => TypeOK
<1> SUFFICES ASSUME Init PROVE TypeOK
  OBVIOUS
<1> QED BY IdleType, FirstPtrType, ParamsAssumption DEF Init, TypeOK

LEMMA KeyDistStepType ==
  ASSUME TypeOK, NEW id \in Ids, KeyDistStep(id)
  PROVE  TypeOK'
<1>1. CASE \E i \in Fn : KeyDistAllocate(id, i)
  <2>1. PICK i \in Fn : KeyDistAllocate(id, i)
    BY <1>1
  <2> DEFINE p   == Advance(index_state[id][i])
             key == SigningKeyAt(id, i, p)
  <2>2. p \in Pointer
    BY <2>1, AdvanceType DEF TypeOK, KeyDistAllocate
  <2>3. key \in SigningKey /\ OtsKeyOf(key) \in OtsKey
    BY <2>2, SigningKeyAtType
  <2>4. index_state' \in [Ids -> [Fn -> Pointer]]
    BY <2>1, <2>2 DEF TypeOK, KeyDistAllocate
  <2>5. call' \in [Ids -> Call]
    <3>1. Loop(call[id].b, call[id].attempts + 1, call[id].allocated + 1,
               call[id].keys \cup {key}) \in Call
      BY <2>3, CallFields, LoopType
    <3> QED BY <2>1, <3>1 DEF TypeOK, KeyDistAllocate
  <2>6. issued_to' \in [OtsKey -> Seq(Ids)]
    BY <2>1, <2>3 DEF TypeOK, KeyDistAllocate
  <2> QED BY <2>1, <2>4, <2>5, <2>6 DEF TypeOK, KeyDistAllocate
<1>2. CASE \E i \in Fn : KeyDistMiss(id, i)
  <2>1. Loop(call[id].b, call[id].attempts + 1, call[id].allocated, call[id].keys)
          \in Call
    BY CallFields, LoopType
  <2> QED BY <1>2, <2>1 DEF TypeOK, KeyDistMiss
<1>3. CASE KeyDistGiveUp(id)
  BY <1>3, IdleType DEF TypeOK, KeyDistGiveUp
<1>4. CASE KeyDistReturn(id)
  BY <1>4, IdleType, CallFields DEF TypeOK, KeyDistReturn
<1> QED BY <1>1, <1>2, <1>3, <1>4 DEF KeyDistStep

LEMMA NextType == TypeOK /\ [Next]_vars => TypeOK'
<1> SUFFICES ASSUME TypeOK, [Next]_vars PROVE TypeOK'
  OBVIOUS
<1>1. CASE Join
  BY <1>1, FirstPtrType, ParamsAssumption DEF TypeOK, Join, Ids
<1>2. ASSUME NEW id \in Ids, NEW b \in Requests, KeyDistBegin(id, b)
      PROVE  TypeOK'
  <2>1. Loop(b, 0, 0, {}) \in Call
    BY RequestsAssumption, LoopType
  <2> QED BY <1>2, <2>1 DEF TypeOK, KeyDistBegin
<1>3. ASSUME NEW id \in Ids, KeyDistStep(id)
      PROVE  TypeOK'
  BY <1>3, KeyDistStepType
<1>4. ASSUME NEW ids \in SUBSET Ids, Revoke(ids)
      PROVE  TypeOK'
  BY <1>4 DEF TypeOK, Revoke, WalkedTags
<1>5. CASE UNCHANGED vars
  BY <1>5 DEF TypeOK, vars
<1> QED BY <1>1, <1>2, <1>3, <1>4, <1>5 DEF Next

\* Type correctness of the manager: in particular no pointer of PLM ever
\* leaves the index space, so no index of dgmt_key_dist is out of bounds.
THEOREM TypeCorrect == Spec => []TypeOK
BY InitType, NextType, PTL DEF Spec

-------------------------------------------------------------------------------
(***************************************************************************)
(* The inductive invariant.                                                *)
(***************************************************************************)
LEMMA InitInv == Init => IInv
<1> SUFFICES ASSUME Init PROVE IInv
  OBVIOUS
<1>1. TypeOK
  BY InitType
<1>2. Unjoined /\ NoPointersBeforeJoin /\ CallsOfActiveMembers
  BY ParamsAssumption
     DEF Init, Unjoined, NoPointersBeforeJoin, CallsOfActiveMembers, Running, Idle, Ids
<1>3. KeysBehindPointers
  BY DEF Init, KeysBehindPointers, KeysOf, Idle
<1>4. LeavesBehindPointers /\ RlExact
  BY DEF Init, LeavesBehindPointers, RlExact
<1> QED BY <1>1, <1>2, <1>3, <1>4 DEF IInv

\* A pointer recorded in a key or in a leaf is in the index space.
LEMMA PointerOf ==
  ASSUME NEW j \in Smtmt, NEW k \in Leaf, NEW l \in 0 .. LastLocal
  PROVE  <<j, k, l>> \in Pointer
BY DEF Pointer

\* What rests on the pointers survives a step that leaves them and the
\* records of issued leaves alone.
LEMMA PointersUnchanged ==
  ASSUME IInv, UNCHANGED index_state
  PROVE  /\ \A id \in Ids, key \in SigningKey :
              KeyOfMember(id, key) => KeyOfMember(id, key)'
         /\ UNCHANGED issued_to => LeavesBehindPointers'
         /\ \A id \in Ids : WalkedTags(id)' = WalkedTags(id)
<1>1. \A id \in Ids, key \in SigningKey : KeyOfMember(id, key) => KeyOfMember(id, key)'
  BY DEF KeyOfMember, IssuedAt
<1>2. UNCHANGED issued_to => LeavesBehindPointers'
  <2>1. LeavesBehindPointers
    BY DEF IInv
  <2>2. \A p : \A id \in Ids, i \in Fn : IssuedAt(id, i, p) => IssuedAt(id, i, p)'
    BY DEF IssuedAt
  <2>3. \A key \in OtsKey : key[1] \in Fn
    BY DEF OtsKey
  <2>4. ASSUME UNCHANGED issued_to, NEW key \in OtsKey
        PROVE  \/ issued_to'[key] = <<>>
               \/ \E id \in Ids, l \in 0 .. LastLocal :
                    /\ issued_to'[key] = <<id>>
                    /\ IssuedAt(id, key[1], <<key[2], key[3], l>>)'
                    /\ key[4] = Shuffle[<<key[1], key[2], key[3]>>][LAbsolute(id, l)]
    <3>1. CASE issued_to[key] = <<>>
      BY <2>4, <3>1
    <3>2. CASE issued_to[key] # <<>>
      <4>1. PICK id \in Ids, l \in 0 .. LastLocal :
              /\ issued_to[key] = <<id>>
              /\ IssuedAt(id, key[1], <<key[2], key[3], l>>)
              /\ key[4] = Shuffle[<<key[1], key[2], key[3]>>][LAbsolute(id, l)]
        BY <2>1, <3>2 DEF LeavesBehindPointers
      <4>2. IssuedAt(id, key[1], <<key[2], key[3], l>>)'
        BY <2>2, <2>3, <4>1
      <4> QED BY <2>4, <4>1, <4>2
    <3> QED BY <3>1, <3>2
  <2> QED BY <2>4 DEF LeavesBehindPointers
<1>3. \A id \in Ids : WalkedTags(id)' = WalkedTags(id)
  BY DEF WalkedTags
<1> QED BY <1>1, <1>2, <1>3

LEMMA JoinInv ==
  ASSUME IInv, Join
  PROVE  IInv'
<1>1. next_id \in Ids /\ status[next_id] = "None"
  BY ParamsAssumption DEF IInv, TypeOK, Unjoined, Join, Ids
<1>2. UNCHANGED index_state
  BY <1>1 DEF IInv, TypeOK, NoPointersBeforeJoin, Join
<1>3. TypeOK'
  BY NextType DEF IInv, Next
<1>4. Unjoined' /\ NoPointersBeforeJoin'
  BY <1>1, <1>2, ParamsAssumption DEF IInv, TypeOK, Unjoined, NoPointersBeforeJoin, Join, Ids
<1>5. CallsOfActiveMembers'
  BY <1>1 DEF IInv, TypeOK, CallsOfActiveMembers, Running, Join
<1>6. KeysBehindPointers'
  BY <1>2, PointersUnchanged, CallFields
     DEF IInv, TypeOK, KeysBehindPointers, KeysOf, Join
<1>7. LeavesBehindPointers'
  BY <1>2, PointersUnchanged DEF Join
<1>8. RlExact'
  BY <1>1, <1>2, PointersUnchanged DEF IInv, TypeOK, RlExact, Join
<1> QED BY <1>3, <1>4, <1>5, <1>6, <1>7, <1>8 DEF IInv

\* Steps of a call that move no pointer: begin, miss, give up, return.
LEMMA CallBookkeepingInv ==
  ASSUME IInv, TypeOK', NEW id \in Ids, status[id] = "Active",
         UNCHANGED <<next_id, status, index_state, rl, issued_to>>,
         \A a \in Ids \ {id} : call'[a] = call[a] /\ wallet'[a] = wallet[a],
         KeysOf(id)' \subseteq KeysOf(id),
         ~ Running(id)' => call'[id] = Idle
  PROVE  IInv'
<1>1. Unjoined' /\ NoPointersBeforeJoin'
  BY DEF IInv, Unjoined, NoPointersBeforeJoin
<1>2. CallsOfActiveMembers'
  BY DEF IInv, CallsOfActiveMembers, Running
<1>3. KeysBehindPointers'
  <2> SUFFICES ASSUME NEW a \in Ids, NEW key \in KeysOf(a)'
               PROVE  KeyOfMember(a, key)'
    BY DEF KeysBehindPointers
  <2>1. key \in KeysOf(a)
    BY DEF KeysOf
  <2>2. key \in SigningKey /\ KeyOfMember(a, key)
    BY <2>1, CallFields DEF IInv, TypeOK, KeysBehindPointers, KeysOf
  <2> QED BY <2>2, PointersUnchanged
<1>4. LeavesBehindPointers'
  BY PointersUnchanged
<1>5. RlExact'
  BY PointersUnchanged DEF IInv, RlExact
<1> QED BY <1>1, <1>2, <1>3, <1>4, <1>5 DEF IInv

LEMMA KeyDistBeginInv ==
  ASSUME IInv, NEW id \in Ids, NEW b \in Requests, KeyDistBegin(id, b)
  PROVE  IInv'
<1>1. TypeOK'
  BY NextType DEF IInv, Next
<1>2. call'[id].keys = {} /\ Running(id)'
  BY DEF IInv, TypeOK, KeyDistBegin, Loop, Running
<1> QED BY <1>1, <1>2, CallBookkeepingInv DEF KeyDistBegin, KeysOf, IInv, TypeOK

LEMMA KeyDistMissInv ==
  ASSUME IInv, NEW id \in Ids, NEW i \in Fn, KeyDistMiss(id, i)
  PROVE  IInv'
<1>1. TypeOK'
  BY NextType DEF IInv, Next, KeyDistStep
<1>2. call'[id].keys = call[id].keys /\ Running(id)'
  BY DEF IInv, TypeOK, KeyDistMiss, Loop, Running
<1>3. status[id] = "Active"
  BY DEF IInv, CallsOfActiveMembers, KeyDistMiss, Wanting
<1> QED BY <1>1, <1>2, <1>3, CallBookkeepingInv DEF KeyDistMiss, KeysOf, IInv, TypeOK

LEMMA KeyDistGiveUpInv ==
  ASSUME IInv, NEW id \in Ids, KeyDistGiveUp(id)
  PROVE  IInv'
<1>1. TypeOK'
  BY NextType DEF IInv, Next, KeyDistStep
<1>2. call'[id] = Idle /\ call'[id].keys = {}
  BY DEF IInv, TypeOK, KeyDistGiveUp, Idle
<1>3. status[id] = "Active"
  BY DEF IInv, CallsOfActiveMembers, KeyDistGiveUp, Wanting
<1> QED BY <1>1, <1>2, <1>3, CallBookkeepingInv DEF KeyDistGiveUp, KeysOf, IInv, TypeOK

LEMMA KeyDistReturnInv ==
  ASSUME IInv, NEW id \in Ids, KeyDistReturn(id)
  PROVE  IInv'
<1>1. TypeOK'
  BY NextType DEF IInv, Next, KeyDistStep
<1>2. call'[id] = Idle /\ call'[id].keys = {}
  BY DEF IInv, TypeOK, KeyDistReturn, Idle
<1>3. wallet'[id] = wallet[id] \cup call[id].keys
  BY DEF IInv, TypeOK, KeyDistReturn
<1>4. status[id] = "Active"
  BY DEF IInv, CallsOfActiveMembers, KeyDistReturn
<1> QED BY <1>1, <1>2, <1>3, <1>4, CallBookkeepingInv DEF KeyDistReturn, KeysOf, IInv, TypeOK

\* A step that allocates moves one pointer of one member one place further.
LEMMA IssuedAtGrows ==
  ASSUME IInv, NEW id \in Ids, NEW i \in Fn, KeyDistAllocate(id, i),
         NEW p, p = Advance(index_state[id][i])
  PROVE  /\ p \in Pointer
         /\ \A a \in Ids, n \in Fn, q \in Pointer :
              IssuedAt(a, n, q)' <=> IssuedAt(a, n, q) \/ (a = id /\ n = i /\ q = p)
         /\ ~ IssuedAt(id, i, p)
<1>1. index_state[id][i] \in Pointer /\ ~ Exhausted(index_state[id][i])
  BY DEF IInv, TypeOK, KeyDistAllocate
<1>2. p \in Pointer
  BY <1>1, AdvanceType
<1>3. ~ IssuedAt(id, i, p)
  BY <1>1, AdvanceIsAfter DEF IssuedAt
<1>4. index_state'[id][i] = p
  BY DEF IInv, TypeOK, KeyDistAllocate
<1>5. \A a \in Ids, n \in Fn :
        ~ (a = id /\ n = i) => index_state'[a][n] = index_state[a][n]
  BY DEF IInv, TypeOK, KeyDistAllocate
<1>6. ASSUME NEW q \in Pointer
      PROVE  IssuedAt(id, i, q)' <=> IssuedAt(id, i, q) \/ q = p
  BY <1>1, <1>4, AdvanceIsNext, AdvanceIsAfter DEF IssuedAt
<1>7. ASSUME NEW a \in Ids, NEW n \in Fn, NEW q \in Pointer, ~ (a = id /\ n = i)
      PROVE  IssuedAt(a, n, q)' <=> IssuedAt(a, n, q)
  BY <1>5, <1>7 DEF IssuedAt
<1> QED BY <1>2, <1>3, <1>6, <1>7

\* The leaf behind a fresh pointer was never issued: the interval of another
\* member does not contain it, and the shuffle moves no other leaf there.
LEMMA FreshLeaf ==
  ASSUME IInv, NEW id \in Ids, NEW i \in Fn, NEW p \in Pointer,
         ~ IssuedAt(id, i, p)
  PROVE  issued_to[OtsKeyOf(SigningKeyAt(id, i, p))] = <<>>
<1> DEFINE key == OtsKeyOf(SigningKeyAt(id, i, p))
<1>1. key \in OtsKey
  BY SigningKeyAtType
<1>2. p[1] \in Smtmt /\ p[2] \in Leaf /\ p[3] \in 0 .. LastLocal /\ p = <<p[1], p[2], p[3]>>
  BY DEF Pointer
<1>3. /\ key[1] = i /\ key[2] = p[1] /\ key[3] = p[2]
      /\ key[4] = Shuffle[<<i, p[1], p[2]>>][LAbsolute(id, p[3])]
  BY DEF OtsKeyOf, SigningKeyAt
<1>4. SUFFICES ASSUME issued_to[key] # <<>> PROVE FALSE
  OBVIOUS
<1>5. PICK a \in Ids, l \in 0 .. LastLocal :
        /\ IssuedAt(a, i, <<p[1], p[2], l>>)
        /\ key[4] = Shuffle[<<i, p[1], p[2]>>][LAbsolute(a, l)]
  BY <1>1, <1>3, <1>4 DEF IInv, LeavesBehindPointers
<1>6. LAbsolute(a, l) = LAbsolute(id, p[3])
  <2>1. <<i, p[1], p[2]>> \in Fn \X Smtmt \X Leaf
    BY <1>2
  <2>2. LAbsolute(a, l) \in Leaf /\ LAbsolute(id, p[3]) \in Leaf
    BY <1>2, LocalIndex
  <2> HIDE DEF key
  <2>3. Shuffle[<<i, p[1], p[2]>>][LAbsolute(a, l)]
          = Shuffle[<<i, p[1], p[2]>>][LAbsolute(id, p[3])]
    BY <1>3, <1>5
  <2> QED BY <2>1, <2>2, <2>3, ShuffleInjective
<1>7. a = id /\ l = p[3]
  BY <1>2, <1>6, LocalIndex, LAbsoluteInjective
<1> QED BY <1>2, <1>5, <1>7

LEMMA KeyDistAllocateInv ==
  ASSUME IInv, NEW id \in Ids, NEW i \in Fn, KeyDistAllocate(id, i)
  PROVE  IInv'
<1> PICK p : p = Advance(index_state[id][i])
  OBVIOUS
<1> DEFINE key == SigningKeyAt(id, i, p)
<1>1. TypeOK'
  BY NextType DEF IInv, Next, KeyDistStep
<1>2. status[id] = "Active"
  BY DEF IInv, CallsOfActiveMembers, KeyDistAllocate, Wanting
<1>3. p \in Pointer /\ ~ IssuedAt(id, i, p) /\ IssuedAt(id, i, p)'
  BY IssuedAtGrows
<1>4. key \in SigningKey /\ OtsKeyOf(key) \in OtsKey
  BY <1>3, SigningKeyAtType
<1>5. p[3] \in 0 .. LastLocal /\ p = <<p[1], p[2], p[3]>>
  BY <1>3 DEF Pointer
<1>6. Unjoined' /\ NoPointersBeforeJoin'
  BY <1>2 DEF IInv, TypeOK, Unjoined, NoPointersBeforeJoin, KeyDistAllocate
<1>7. CallsOfActiveMembers'
  BY <1>2 DEF IInv, TypeOK, CallsOfActiveMembers, Running, KeyDistAllocate, Loop
<1>8. KeysBehindPointers'
  <2> SUFFICES ASSUME NEW a \in Ids, NEW ky \in KeysOf(a)'
               PROVE  KeyOfMember(a, ky)'
    BY DEF KeysBehindPointers
  <2>1. ky \in KeysOf(a) \/ (a = id /\ ky = key)
    BY DEF IInv, TypeOK, KeysOf, KeyDistAllocate, Loop
  <2>2. CASE ky \in KeysOf(a)
    <3>1. ky \in SigningKey
      BY <2>2, CallFields DEF IInv, TypeOK, KeysOf
    <3>2. PICK l \in 0 .. LastLocal :
            /\ ky.dgmt_pos = <<ky.i, ky.j, ky.k, LAbsolute(a, l)>>
            /\ ky.l_prime = Shuffle[<<ky.i, ky.j, ky.k>>][LAbsolute(a, l)]
            /\ IssuedAt(a, ky.i, <<ky.j, ky.k, l>>)
      BY <2>2 DEF IInv, KeysBehindPointers, KeyOfMember
    <3>3. ky.i \in Fn /\ <<ky.j, ky.k, l>> \in Pointer
      BY <3>1, PointerOf DEF SigningKey
    <3>4. IssuedAt(a, ky.i, <<ky.j, ky.k, l>>)'
      BY <3>2, <3>3, IssuedAtGrows
    <3> QED BY <3>2, <3>4 DEF KeyOfMember
  <2>3. CASE a = id /\ ky = key
    <3>1. /\ key.i = i /\ key.j = p[1] /\ key.k = p[2]
          /\ key.dgmt_pos = <<i, p[1], p[2], LAbsolute(id, p[3])>>
          /\ key.l_prime = Shuffle[<<i, p[1], p[2]>>][LAbsolute(id, p[3])]
      BY DEF SigningKeyAt
    <3>2. IssuedAt(id, i, <<p[1], p[2], p[3]>>)'
      BY <1>3, <1>5
    <3>3. KeyOfMember(id, key)'
      BY <1>5, <3>1, <3>2 DEF KeyOfMember
    <3> QED BY <2>3, <3>3
  <2> QED BY <2>1, <2>2, <2>3
<1>9. LeavesBehindPointers'
  <2> SUFFICES ASSUME NEW ots \in OtsKey, issued_to'[ots] # <<>>
               PROVE  \E a \in Ids, l \in 0 .. LastLocal :
                        /\ issued_to'[ots] = <<a>>
                        /\ IssuedAt(a, ots[1], <<ots[2], ots[3], l>>)'
                        /\ ots[4] = Shuffle[<<ots[1], ots[2], ots[3]>>][LAbsolute(a, l)]
    BY DEF LeavesBehindPointers
  <2>1. CASE ots = OtsKeyOf(key)
    <3>1. issued_to'[ots] = <<id>>
      <4>1. issued_to[ots] = <<>>
        BY <1>3, <2>1, FreshLeaf
      <4>2. issued_to'[ots] = Append(issued_to[ots], id)
        BY <2>1 DEF IInv, TypeOK, KeyDistAllocate
      <4> QED BY <4>1, <4>2
    <3>2. /\ ots[1] = i /\ ots[2] = p[1] /\ ots[3] = p[2]
          /\ ots[4] = Shuffle[<<i, p[1], p[2]>>][LAbsolute(id, p[3])]
      BY <2>1 DEF OtsKeyOf, SigningKeyAt
    <3>3. IssuedAt(id, i, <<p[1], p[2], p[3]>>)'
      BY <1>3, <1>5
    <3> QED BY <1>5, <3>1, <3>2, <3>3
  <2>2. CASE ots # OtsKeyOf(key)
    <3>1. issued_to'[ots] = issued_to[ots]
      BY <1>4, <2>2 DEF IInv, TypeOK, KeyDistAllocate
    <3>2. PICK a \in Ids, l \in 0 .. LastLocal :
            /\ issued_to[ots] = <<a>>
            /\ IssuedAt(a, ots[1], <<ots[2], ots[3], l>>)
            /\ ots[4] = Shuffle[<<ots[1], ots[2], ots[3]>>][LAbsolute(a, l)]
      BY <3>1 DEF IInv, LeavesBehindPointers
    <3>3. ots[1] \in Fn /\ <<ots[2], ots[3], l>> \in Pointer
      BY PointerOf DEF OtsKey
    <3>4. IssuedAt(a, ots[1], <<ots[2], ots[3], l>>)'
      BY <3>2, <3>3, IssuedAtGrows
    <3> QED BY <3>1, <3>2, <3>4
  <2> QED BY <2>1, <2>2
<1>10. RlExact'
  <2>1. \A a \in Ids : status[a] = "Revoked" => index_state'[a] = index_state[a]
    BY <1>2 DEF IInv, TypeOK, KeyDistAllocate
  <2>2. \A a \in Ids : status[a] = "Revoked" => WalkedTags(a)' = WalkedTags(a)
    BY <2>1 DEF WalkedTags
  <2> QED BY <2>2 DEF IInv, RlExact, KeyDistAllocate
<1> QED BY <1>1, <1>6, <1>7, <1>8, <1>9, <1>10 DEF IInv

LEMMA RevokeInv ==
  ASSUME IInv, NEW ids \in SUBSET Ids, Revoke(ids)
  PROVE  IInv'
<1>1. TypeOK'
  BY NextType DEF IInv, Next
<1>2. \A id \in Ids : status'[id] = "None" <=> status[id] = "None"
  BY DEF Revoke
<1>3. Unjoined' /\ NoPointersBeforeJoin'
  BY <1>2 DEF IInv, Unjoined, NoPointersBeforeJoin, Revoke
<1>4. CallsOfActiveMembers'
  BY DEF IInv, CallsOfActiveMembers, Running, Revoke
<1>5. KeysBehindPointers'
  BY PointersUnchanged, CallFields DEF IInv, TypeOK, KeysBehindPointers, KeysOf, Revoke
<1>6. LeavesBehindPointers'
  BY PointersUnchanged DEF Revoke
<1>7. RlExact'
  <2> DEFINE known == {id \in ids : status[id] # "None"}
  <2>1. \A id \in Ids : WalkedTags(id)' = WalkedTags(id)
    BY PointersUnchanged DEF Revoke
  <2>2. \A id \in Ids : status'[id] = "Revoked" <=> id \in known \/ status[id] = "Revoked"
    BY DEF Revoke
  <2>3. \A t \in DgmtPos :
          t \in rl' <=> t \in rl \/ \E id \in known : t \in WalkedTags(id)
    BY DEF Revoke
  <2> QED BY <2>1, <2>2, <2>3 DEF IInv, RlExact
<1> QED BY <1>1, <1>3, <1>4, <1>5, <1>6, <1>7 DEF IInv

LEMMA NextInv == IInv /\ [Next]_vars => IInv'
<1> SUFFICES ASSUME IInv, [Next]_vars PROVE IInv'
  OBVIOUS
<1>1. CASE Join
  BY <1>1, JoinInv
<1>2. ASSUME NEW id \in Ids, NEW b \in Requests, KeyDistBegin(id, b)
      PROVE  IInv'
  BY <1>2, KeyDistBeginInv
<1>3. ASSUME NEW id \in Ids, KeyDistStep(id)
      PROVE  IInv'
  BY <1>3, KeyDistAllocateInv, KeyDistMissInv, KeyDistGiveUpInv, KeyDistReturnInv
     DEF KeyDistStep
<1>4. ASSUME NEW ids \in SUBSET Ids, Revoke(ids)
      PROVE  IInv'
  BY <1>4, RevokeInv
<1>5. CASE UNCHANGED vars
  <2>1. TypeOK' /\ Unjoined' /\ NoPointersBeforeJoin' /\ CallsOfActiveMembers'
    BY <1>5 DEF vars, IInv, TypeOK, Unjoined, NoPointersBeforeJoin, CallsOfActiveMembers,
                Running
  <2>2. KeysBehindPointers'
    BY <1>5 DEF vars, IInv, KeysBehindPointers, KeysOf, KeyOfMember, IssuedAt
  <2>3. LeavesBehindPointers'
    BY <1>5 DEF vars, IInv, LeavesBehindPointers, IssuedAt
  <2>4. RlExact'
    BY <1>5 DEF vars, IInv, RlExact, WalkedTags
  <2> QED BY <2>1, <2>2, <2>3, <2>4 DEF IInv
<1> QED BY <1>1, <1>2, <1>3, <1>4, <1>5 DEF Next

LEMMA Invariance == Spec => []IInv
BY InitInv, NextInv, PTL DEF Spec

-------------------------------------------------------------------------------
(***************************************************************************)
(* What follows from the invariant.                                        *)
(***************************************************************************)
LEMMA LeavesOnce == IInv => NoLeafIssuedTwice
<1> SUFFICES ASSUME IInv, NEW key \in OtsKey PROVE Len(issued_to[key]) <= 1
  BY DEF NoLeafIssuedTwice
<1>1. CASE issued_to[key] = <<>>
  BY <1>1
<1>2. CASE \E id \in Ids : issued_to[key] = <<id>>
  BY <1>2
<1> QED BY <1>1, <1>2 DEF IInv, LeavesBehindPointers

\* dgmt_key_dist never builds the key of one WOTS leaf twice: not for two
\* members, not in two calls, not after a call that gave up half-way.
THEOREM LeavesIssuedOnce == Spec => []NoLeafIssuedTwice
BY Invariance, LeavesOnce, PTL

LEMMA KeysOfType ==
  ASSUME IInv, NEW id \in Ids, NEW key \in KeysOf(id)
  PROVE  /\ key \in SigningKey
         /\ KeyOfMember(id, key)
BY CallFields DEF IInv, TypeOK, KeysBehindPointers, KeysOf

\* The walk of a member lists the tags of its keys and of nobody else's.
LEMMA WalkedTagsOfKeys ==
  ASSUME IInv, NEW id \in Ids, NEW a \in Ids, NEW key \in KeysOf(id)
  PROVE  /\ key.dgmt_pos \in DgmtPos
         /\ a = id  => key.dgmt_pos \in WalkedTags(a)
         /\ a # id => key.dgmt_pos \notin WalkedTags(a)
<1>1. key \in SigningKey
  BY KeysOfType
<1>2. PICK l \in 0 .. LastLocal :
        /\ key.dgmt_pos = <<key.i, key.j, key.k, LAbsolute(id, l)>>
        /\ AtOrBefore(<<key.j, key.k, l>>, index_state[id][key.i])
  BY KeysOfType DEF KeyOfMember, IssuedAt
<1>3. key.dgmt_pos \in DgmtPos
  BY <1>1 DEF SigningKey
<1>4. /\ key.dgmt_pos[1] = key.i /\ key.dgmt_pos[2] = key.j
      /\ key.dgmt_pos[3] = key.k /\ key.dgmt_pos[4] = LAbsolute(id, l)
  BY <1>2
<1>5. key.dgmt_pos \in WalkedTags(id)
  BY <1>2, <1>3, <1>4 DEF WalkedTags
<1>6. ASSUME key.dgmt_pos \in WalkedTags(a)
      PROVE  a = id
  <2>1. PICK m \in 0 .. LastLocal : key.dgmt_pos[4] = LAbsolute(a, m)
    BY <1>6 DEF WalkedTags
  <2>2. LAbsolute(a, m) = LAbsolute(id, l)
    BY <1>4, <2>1
  <2> QED BY <2>2, LocalIndex, LAbsoluteInjective
<1> QED BY <1>3, <1>5, <1>6

LEMMA ListsExactly == IInv => RevokedKeysListed /\ ActiveKeysNotListed
<1> SUFFICES ASSUME IInv, NEW id \in Ids, NEW key \in KeysOf(id)
             PROVE  /\ status[id] = "Revoked" => key.dgmt_pos \in rl
                    /\ status[id] = "Active"  => key.dgmt_pos \notin rl
  BY DEF RevokedKeysListed, ActiveKeysNotListed
<1>1. key.dgmt_pos \in DgmtPos
  BY WalkedTagsOfKeys
<1>2. key.dgmt_pos \in rl <=>
        \E a \in Ids : status[a] = "Revoked" /\ key.dgmt_pos \in WalkedTags(a)
  BY <1>1 DEF IInv, RlExact
<1> QED BY <1>2, WalkedTagsOfKeys

\* After dgmt_revoke every key its member was ever handed is on the list.
THEOREM RevocationIsComplete == Spec => []RevokedKeysListed
BY Invariance, ListsExactly, PTL

\* dgmt_revoke puts no key of a member that is not revoked on the list.
THEOREM RevocationIsPrecise == Spec => []ActiveKeysNotListed
BY Invariance, ListsExactly, PTL

LEMMA SpareLeaf == IInv => UnusedLeafKept
<1> SUFFICES ASSUME IInv, NEW id \in Ids, NEW i \in Fn, NEW j \in Smtmt, NEW k \in Leaf
             PROVE  issued_to[<<i, j, k, Shuffle[<<i, j, k>>][LAbsolute(id, Beta - 1)]>>] = <<>>
  BY ParamTypes DEF UnusedLeafKept
<1>1. Beta - 1 \in 0 .. Beta - 1 /\ <<i, j, k>> \in Fn \X Smtmt \X Leaf
  BY ParamTypes
<1>2. LAbsolute(id, Beta - 1) \in Leaf
  BY <1>1, LAbsoluteType
<1> DEFINE spare == Shuffle[<<i, j, k>>][LAbsolute(id, Beta - 1)]
<1>3. spare \in Leaf
  BY <1>1, <1>2, ShuffleType
<1>4. ASSUME NEW a \in Ids, NEW l \in 0 .. LastLocal,
             spare = Shuffle[<<i, j, k>>][LAbsolute(a, l)]
      PROVE  FALSE
  <2>1. LAbsolute(a, l) = LAbsolute(id, Beta - 1)
    BY <1>1, <1>2, <1>4, LocalIndex, ShuffleInjective
  <2>2. l = Beta - 1
    BY <1>1, <2>1, LocalIndex, LAbsoluteInjective
  <2> QED BY <2>2, ParamTypes
<1> HIDE DEF spare
<1>5. <<i, j, k, spare>> \in OtsKey
  BY <1>3 DEF OtsKey
<1>6. issued_to[<<i, j, k, spare>>] = <<>>
  BY <1>4, <1>5 DEF IInv, LeavesBehindPointers
<1> QED BY <1>6 DEF spare

\* Every member keeps an unused leaf in each SMT(2), however much it draws.
THEOREM SpareLeafKept == Spec => []UnusedLeafKept
BY Invariance, SpareLeaf, PTL

LEMMA RevocationStep ==
  ASSUME IInv, [Next]_vars, NEW id \in Ids, status[id] = "Revoked"
  PROVE  /\ status'[id] = "Revoked"
         /\ KeysOf(id)' = KeysOf(id)
         /\ rl \subseteq rl'
<1>1. ~ Running(id)
  BY DEF IInv, CallsOfActiveMembers
<1>2. CASE Join
  <2>1. next_id # id
    BY <1>2, ParamsAssumption DEF IInv, TypeOK, Unjoined, Join, Ids
  <2> QED BY <1>2, <2>1 DEF IInv, TypeOK, Join, KeysOf
<1>3. ASSUME NEW a \in Ids, NEW b \in Requests, KeyDistBegin(a, b)
      PROVE  status'[id] = "Revoked" /\ KeysOf(id)' = KeysOf(id) /\ rl \subseteq rl'
  <2>1. a # id
    BY <1>3 DEF KeyDistBegin
  <2> QED BY <1>3, <2>1 DEF IInv, TypeOK, KeyDistBegin, KeysOf
<1>4. ASSUME NEW a \in Ids, KeyDistStep(a)
      PROVE  status'[id] = "Revoked" /\ KeysOf(id)' = KeysOf(id) /\ rl \subseteq rl'
  <2>1. a # id
    BY <1>1, <1>4
       DEF KeyDistStep, KeyDistAllocate, KeyDistMiss, KeyDistGiveUp, KeyDistReturn, Wanting
  <2>2. UNCHANGED <<status, rl>> /\ call'[id] = call[id] /\ wallet'[id] = wallet[id]
    BY <1>4, <2>1
       DEF IInv, TypeOK, KeyDistStep, KeyDistAllocate, KeyDistMiss, KeyDistGiveUp, KeyDistReturn
  <2> QED BY <2>2 DEF KeysOf
<1>5. ASSUME NEW ids \in SUBSET Ids, Revoke(ids)
      PROVE  status'[id] = "Revoked" /\ KeysOf(id)' = KeysOf(id) /\ rl \subseteq rl'
  BY <1>5 DEF Revoke, KeysOf
<1>6. CASE UNCHANGED vars
  BY <1>6 DEF vars, KeysOf
<1> QED BY <1>2, <1>3, <1>4, <1>5, <1>6 DEF Next

\* No step gives a revoked member a key, its status back or a place off the
\* revocation list.
THEOREM RevocationStays == Spec => RevocationIsFinal
<1>1. ASSUME IInv, [Next]_vars
      PROVE  [\A id \in Ids : status[id] = "Revoked" =>
                /\ status'[id] = "Revoked"
                /\ KeysOf(id)' = KeysOf(id)
                /\ rl \subseteq rl']_vars
  BY <1>1, RevocationStep
<1> QED BY <1>1, Invariance, PTL DEF Spec, RevocationIsFinal

-------------------------------------------------------------------------------
(***************************************************************************)
(* What a successful call delivers.                                        *)
(***************************************************************************)
\* A running call counts the keys it holds, none of which the member had.
Counted(c, held) ==
  /\ IsFiniteSet(c.keys)
  /\ Cardinality(c.keys) = c.allocated
  /\ c.allocated <= c.b
  /\ c.keys \cap held = {}

KeysCounted == \A id \in Ids : Counted(call[id], wallet[id])

\* A call that has built nothing yet, or has ended.
LEMMA EmptyCallCounted ==
  ASSUME NEW c, NEW held, c.keys = {}, c.allocated = 0, c.b \in Nat
  PROVE  Counted(c, held)
<1>1. IsFiniteSet(c.keys) /\ Cardinality(c.keys) = 0
  BY FS_EmptySet
<1> QED BY <1>1 DEF Counted

LEMMA FreshKey ==
  ASSUME IInv, NEW id \in Ids, NEW i \in Fn, KeyDistAllocate(id, i),
         NEW p, p = Advance(index_state[id][i])
  PROVE  SigningKeyAt(id, i, p) \notin KeysOf(id)
<1> DEFINE key == SigningKeyAt(id, i, p)
<1>1. p \in Pointer /\ ~ IssuedAt(id, i, p)
  BY IssuedAtGrows
<1>2. p[3] \in 0 .. LastLocal /\ p = <<p[1], p[2], p[3]>>
  BY <1>1 DEF Pointer
<1>3. /\ key.i = i /\ key.j = p[1] /\ key.k = p[2]
      /\ key.dgmt_pos = <<i, p[1], p[2], LAbsolute(id, p[3])>>
  BY DEF SigningKeyAt
<1>4. SUFFICES ASSUME key \in KeysOf(id) PROVE FALSE
  OBVIOUS
<1>5. PICK l \in 0 .. LastLocal :
        /\ key.dgmt_pos = <<i, p[1], p[2], LAbsolute(id, l)>>
        /\ IssuedAt(id, i, <<p[1], p[2], l>>)
  <2>1. KeyOfMember(id, key)
    BY <1>4, KeysOfType
  <2> HIDE DEF key
  <2> QED BY <1>3, <2>1 DEF KeyOfMember
<1>6. LAbsolute(id, l) = LAbsolute(id, p[3])
  BY <1>3, <1>5
<1>7. l = p[3]
  BY <1>2, <1>6, LocalIndex, LAbsoluteInjective
<1> QED BY <1>1, <1>2, <1>5, <1>7

LEMMA InitCounted == Init => KeysCounted
<1> SUFFICES ASSUME Init, NEW id \in Ids PROVE Counted(call[id], wallet[id])
  BY DEF KeysCounted
<1>1. call[id].keys = {} /\ call[id].allocated = 0 /\ call[id].b \in Nat
  BY DEF Init, Idle
<1> QED BY <1>1, EmptyCallCounted

LEMMA NextCounted ==
  ASSUME IInv, KeysCounted, [Next]_vars
  PROVE  KeysCounted'
<1>1. CASE Join
  BY <1>1 DEF KeysCounted, Join
<1>2. ASSUME NEW id \in Ids, Counted(call'[id], wallet'[id]),
             \A a \in Ids \ {id} : call'[a] = call[a] /\ wallet'[a] = wallet[a]
      PROVE  KeysCounted'
  BY <1>2 DEF KeysCounted
<1>3. ASSUME NEW id \in Ids, NEW b \in Requests, KeyDistBegin(id, b)
      PROVE  KeysCounted'
  <2>1. call'[id].keys = {} /\ call'[id].allocated = 0 /\ call'[id].b \in Nat
    BY <1>3, RequestsAssumption DEF IInv, TypeOK, KeyDistBegin, Loop
  <2>2. \A a \in Ids \ {id} : call'[a] = call[a] /\ wallet'[a] = wallet[a]
    BY <1>3 DEF IInv, TypeOK, KeyDistBegin
  <2> QED BY <1>2, <2>1, <2>2, EmptyCallCounted
<1>4. ASSUME NEW id \in Ids, NEW i \in Fn, KeyDistAllocate(id, i)
      PROVE  KeysCounted'
  <2> PICK p : p = Advance(index_state[id][i])
    OBVIOUS
  <2> DEFINE key == SigningKeyAt(id, i, p)
  <2>1. key \notin KeysOf(id)
    BY <1>4, FreshKey
  <2>2. /\ call'[id].keys = call[id].keys \cup {key}
        /\ call'[id].allocated = call[id].allocated + 1
        /\ call'[id].b = call[id].b
        /\ wallet'[id] = wallet[id]
    BY <1>4 DEF IInv, TypeOK, KeyDistAllocate, Loop
  <2>3. \A a \in Ids \ {id} : call'[a] = call[a] /\ wallet'[a] = wallet[a]
    BY <1>4 DEF IInv, TypeOK, KeyDistAllocate
  <2>4. call[id].allocated < call[id].b /\ call[id].allocated \in Nat /\ call[id].b \in Nat
    BY <1>4, CallFields DEF IInv, KeyDistAllocate, Wanting
  <2>5. /\ IsFiniteSet(call[id].keys)
        /\ Cardinality(call[id].keys) = call[id].allocated
        /\ call[id].keys \cap wallet[id] = {}
    BY DEF KeysCounted, Counted
  <2> HIDE DEF key
  <2>6. key \notin call[id].keys /\ key \notin wallet[id]
    BY <2>1 DEF KeysOf
  <2>7. /\ IsFiniteSet(call'[id].keys)
        /\ Cardinality(call'[id].keys) = call[id].allocated + 1
    <3>1. /\ IsFiniteSet(call[id].keys \cup {key})
          /\ Cardinality(call[id].keys \cup {key}) = Cardinality(call[id].keys) + 1
      BY <2>5, <2>6, FS_AddElement
    <3> QED BY <2>2, <2>5, <3>1
  <2>8. call'[id].keys \cap wallet'[id] = {}
    BY <2>2, <2>5, <2>6
  <2>9. Counted(call'[id], wallet'[id])
    BY <2>2, <2>4, <2>7, <2>8 DEF Counted
  <2> QED BY <1>2, <2>3, <2>9
<1>5. ASSUME NEW id \in Ids, NEW i \in Fn, KeyDistMiss(id, i)
      PROVE  KeysCounted'
  <2>1. /\ call'[id].keys = call[id].keys
        /\ call'[id].allocated = call[id].allocated
        /\ call'[id].b = call[id].b
        /\ wallet'[id] = wallet[id]
    BY <1>5 DEF IInv, TypeOK, KeyDistMiss, Loop
  <2>2. \A a \in Ids \ {id} : call'[a] = call[a] /\ wallet'[a] = wallet[a]
    BY <1>5 DEF IInv, TypeOK, KeyDistMiss
  <2>3. Counted(call'[id], wallet'[id])
    BY <2>1 DEF KeysCounted, Counted
  <2> QED BY <1>2, <2>2, <2>3
<1>6. ASSUME NEW id \in Ids, KeyDistGiveUp(id) \/ KeyDistReturn(id)
      PROVE  KeysCounted'
  <2>1. call'[id].keys = {} /\ call'[id].allocated = 0 /\ call'[id].b \in Nat
    BY <1>6 DEF IInv, TypeOK, KeyDistGiveUp, KeyDistReturn, Idle
  <2>2. \A a \in Ids \ {id} : call'[a] = call[a] /\ wallet'[a] = wallet[a]
    BY <1>6 DEF IInv, TypeOK, KeyDistGiveUp, KeyDistReturn
  <2> QED BY <1>2, <2>1, <2>2, EmptyCallCounted
<1>7. ASSUME NEW ids \in SUBSET Ids, Revoke(ids)
      PROVE  KeysCounted'
  BY <1>7 DEF KeysCounted, Revoke
<1>8. CASE UNCHANGED vars
  BY <1>8 DEF vars, KeysCounted
<1> QED BY <1>1, <1>3, <1>4, <1>5, <1>6, <1>7, <1>8 DEF Next, KeyDistStep

LEMMA ReturnDelivers ==
  ASSUME IInv, KeysCounted, NEW id \in Ids, KeyDistReturn(id)
  PROVE  Cardinality(wallet'[id] \ wallet[id]) = call[id].b
<1>1. wallet'[id] = wallet[id] \cup call[id].keys
  BY DEF IInv, TypeOK, KeyDistReturn
<1>2. Counted(call[id], wallet[id])
  BY DEF KeysCounted
<1>3. wallet'[id] \ wallet[id] = call[id].keys
  BY <1>1, <1>2 DEF Counted
<1>4. call[id].allocated = call[id].b
  BY <1>2, CallFields DEF IInv, Counted, KeyDistReturn, Wanting
<1> QED BY <1>2, <1>3, <1>4 DEF Counted

\* A call of dgmt_key_dist that returns Ok(keys) hands over b keys that the
\* member did not have.
THEOREM DeliversB == Spec => DeliversWhatWasAsked
<1>1. Spec => []KeysCounted
  BY Invariance, InitCounted, NextCounted, PTL DEF Spec
<1>2. ASSUME IInv, KeysCounted, [Next]_vars
      PROVE  [\A id \in Ids : KeyDistReturn(id) =>
                 Cardinality(wallet'[id] \ wallet[id]) = call[id].b]_vars
  BY <1>2, ReturnDelivers
<1> QED BY <1>1, <1>2, Invariance, PTL DEF Spec, DeliversWhatWasAsked

\* The safety half of KeyDistReturns: an iteration of the loop that does not end
\* the call spends one of the attempts it has, and nothing but its own
\* iterations touches a call that runs.
SpendsAttempts ==
  [][\A id \in Ids :
       /\ KeyDistStep(id) =>
            \/ ~ Running(id)'
            \/ /\ MaxAttempts(id)' = MaxAttempts(id)
               /\ call'[id].attempts = call[id].attempts + 1
               /\ call'[id].attempts <= MaxAttempts(id)
       /\ Running(id) /\ ~ KeyDistStep(id) => call'[id] = call[id]]_vars

\* A call of dgmt_key_dist makes as many iterations as its budget, at most.
THEOREM CallsComeToAnEnd == Spec => SpendsAttempts
<1> DEFINE Spends(id) == \/ ~ Running(id)'
                         \/ /\ MaxAttempts(id)' = MaxAttempts(id)
                            /\ call'[id].attempts = call[id].attempts + 1
                            /\ call'[id].attempts <= MaxAttempts(id)
<1>1. ASSUME IInv, NEW id \in Ids, KeyDistStep(id) PROVE Spends(id)
  <2>1. ASSUME NEW i \in Fn, KeyDistAllocate(id, i) \/ KeyDistMiss(id, i) PROVE Spends(id)
    <3>1. /\ call'[id].attempts = call[id].attempts + 1 /\ call'[id].b = call[id].b
          /\ call[id].attempts < MaxAttempts(id)
      BY <1>1, <2>1 DEF IInv, TypeOK, KeyDistAllocate, KeyDistMiss, Loop
    <3>2. call[id].attempts \in Nat /\ call[id].b \in Nat
      BY <1>1, CallFields DEF IInv
    <3>3. MaxAttempts(id) \in Int
      <4> DEFINE n == call[id].b * NumFn * 2
      <4>1. n \in Nat
        BY <3>2, ParamsAssumption
      <4> HIDE DEF n
      <4>2. n % Word \in Int
        BY <4>1, WordAssumption
      <4> QED BY <4>2 DEF MaxAttempts, n
    <3>4. MaxAttempts(id)' = MaxAttempts(id)
      BY <3>1 DEF MaxAttempts
    <3> QED BY <3>1, <3>2, <3>3, <3>4
  <2>2. ASSUME KeyDistGiveUp(id) \/ KeyDistReturn(id) PROVE Spends(id)
    BY <1>1, <2>2 DEF IInv, TypeOK, KeyDistGiveUp, KeyDistReturn, Idle, Running
  <2> QED BY <1>1, <2>1, <2>2 DEF KeyDistStep
<1>2. ASSUME IInv, [Next]_vars, NEW id \in Ids, Running(id), ~ KeyDistStep(id)
      PROVE  call'[id] = call[id]
  <2>1. CASE Join
    BY <2>1 DEF Join
  <2>2. ASSUME NEW a \in Ids, NEW b \in Requests, KeyDistBegin(a, b)
        PROVE  call'[id] = call[id]
    BY <1>2, <2>2 DEF IInv, TypeOK, KeyDistBegin
  <2>3. ASSUME NEW a \in Ids, KeyDistStep(a) PROVE call'[id] = call[id]
    <3>1. a # id /\ call \in [Ids -> Call]
      BY <1>2, <2>3 DEF IInv, TypeOK
    <3>2. \E c : call' = [call EXCEPT ![a] = c]
      BY <2>3 DEF KeyDistStep, KeyDistAllocate, KeyDistMiss, KeyDistGiveUp, KeyDistReturn
    <3> QED BY <3>1, <3>2
  <2>4. ASSUME NEW ids \in SUBSET Ids, Revoke(ids) PROVE call'[id] = call[id]
    BY <2>4 DEF Revoke
  <2>5. CASE UNCHANGED vars
    BY <2>5 DEF vars
  <2> QED BY <1>2, <2>1, <2>2, <2>3, <2>4, <2>5 DEF Next
<1>3. ASSUME IInv, [Next]_vars
      PROVE  \A id \in Ids : /\ KeyDistStep(id) => Spends(id)
                             /\ Running(id) /\ ~ KeyDistStep(id) => call'[id] = call[id]
  BY <1>1, <1>2, <1>3
<1> QED BY <1>3, Invariance, PTL DEF Spec, SpendsAttempts, Spends

-------------------------------------------------------------------------------
(***************************************************************************)
(* The manager implements OneTimeKeys.                                     *)
(***************************************************************************)
\* The leaf under a tag is the one key whose listing the tag decides.
LEMMA TagOfKey ==
  ASSUME IInv, NEW key \in OtsKey, NEW id \in Ids, issued_to[key] = <<id>>
  PROVE  TagListed(key) <=> status[id] = "Revoked"
<1>1. PICK a \in Ids, l \in 0 .. LastLocal :
        /\ issued_to[key] = <<a>>
        /\ IssuedAt(a, key[1], <<key[2], key[3], l>>)
        /\ key[4] = Shuffle[<<key[1], key[2], key[3]>>][LAbsolute(a, l)]
  <2>1. LeavesBehindPointers
    BY DEF IInv
  <2>2. issued_to[key] # <<>>
    OBVIOUS
  <2> QED BY <2>1, <2>2 DEF LeavesBehindPointers
<1>2. a = id
  BY <1>1
<1>3. /\ <<key[1], key[2], key[3]>> \in Fn \X Smtmt \X Leaf
      /\ LAbsolute(id, l) \in Leaf
  BY LocalIndex DEF OtsKey
<1> DEFINE tag == <<key[1], key[2], key[3], LAbsolute(id, l)>>
<1>4. tag \in DgmtPos
  BY <1>3 DEF DgmtPos
<1>5. TagListed(key) <=> tag \in rl
  <2>1. ASSUME TagListed(key) PROVE tag \in rl
    <3>1. PICK m \in Leaf : /\ Shuffle[<<key[1], key[2], key[3]>>][m] = key[4]
                            /\ <<key[1], key[2], key[3], m>> \in rl
      BY <2>1 DEF TagListed
    <3>2. m = LAbsolute(id, l)
      BY <1>1, <1>2, <1>3, <3>1, ShuffleInjective
    <3> QED BY <3>1, <3>2
  <2>2. ASSUME tag \in rl PROVE TagListed(key)
    BY <1>1, <1>2, <1>3, <2>2 DEF TagListed
  <2> QED BY <2>1, <2>2
<1>6. tag \in WalkedTags(id)
  BY <1>1, <1>2, <1>4 DEF WalkedTags, IssuedAt
<1>7. ASSUME NEW b \in Ids, tag \in WalkedTags(b)
      PROVE  b = id
  <2>1. PICK m \in 0 .. LastLocal : LAbsolute(id, l) = LAbsolute(b, m)
    BY <1>7 DEF WalkedTags
  <2> QED BY <2>1, LocalIndex, LAbsoluteInjective
<1>8. tag \in rl <=> \E b \in Ids : status[b] = "Revoked" /\ tag \in WalkedTags(b)
  BY <1>4 DEF IInv, RlExact
<1> HIDE DEF tag
<1> QED BY <1>5, <1>6, <1>7, <1>8

LEMMA IssuedToOne ==
  ASSUME IInv, NEW key \in OtsKey, issued_to[key] # <<>>
  PROVE  \E id \in Ids : issued_to[key] = <<id>>
BY DEF IInv, LeavesBehindPointers

\* The keys the list turns down are those built for banned members.
BannedKeysTurnedDown ==
  TurnedDown = {key \in OtsKey : \E id \in Banned : issued_to[key] = <<id>>}

LEMMA TurnedDownExactly == IInv => BannedKeysTurnedDown
<1> SUFFICES ASSUME IInv PROVE BannedKeysTurnedDown
  OBVIOUS
<1>1. ASSUME NEW key \in OtsKey
      PROVE  issued_to[key] # <<>> /\ TagListed(key)
               <=> \E id \in Banned : issued_to[key] = <<id>>
  <2>1. CASE issued_to[key] = <<>>
    BY <2>1
  <2>2. CASE issued_to[key] # <<>>
    <3>1. PICK id \in Ids : issued_to[key] = <<id>>
      BY <2>2, IssuedToOne
    <3>2. TagListed(key) <=> status[id] = "Revoked"
      BY <3>1, TagOfKey
    <3>3. \A a \in Ids : issued_to[key] = <<a>> => a = id
      BY <3>1
    <3> QED BY <2>2, <3>1, <3>2, <3>3 DEF Banned
  <2> QED BY <2>1, <2>2
<1> QED BY <1>1 DEF TurnedDown, BannedKeysTurnedDown

LEMMA InitIsStart == Init => OTK!Start
<1> SUFFICES ASSUME Init PROVE OTK!Start
  OBVIOUS
<1>1. Banned = {} /\ TurnedDown = {}
  BY DEF Init, Banned, TurnedDown
<1> QED BY <1>1 DEF OTK!Start, Init

LEMMA AllocationHandsOut ==
  ASSUME IInv, IInv', NEW id \in Ids, NEW i \in Fn, KeyDistAllocate(id, i)
  PROVE  OTK!Step
<1> PICK p : p = Advance(index_state[id][i])
  OBVIOUS
<1>1. PICK key : key = OtsKeyOf(SigningKeyAt(id, i, p))
  OBVIOUS
<1>2. p \in Pointer /\ ~ IssuedAt(id, i, p)
  BY IssuedAtGrows
<1>3. key \in OtsKey /\ issued_to[key] = <<>>
  BY <1>1, <1>2, SigningKeyAtType, FreshLeaf
<1>4. issued_to' = [issued_to EXCEPT ![key] = <<id>>]
  <2>1. issued_to' = [issued_to EXCEPT ![key] = Append(issued_to[key], id)]
    BY <1>1 DEF KeyDistAllocate
  <2>2. Append(issued_to[key], id) = <<id>>
    BY <1>3
  <2> QED BY <2>1, <2>2
<1>5. Banned' = Banned /\ id \notin Banned
  BY DEF IInv, CallsOfActiveMembers, KeyDistAllocate, Wanting, Banned
<1>6. TurnedDown' = TurnedDown
  <2>1. ASSUME NEW k \in OtsKey, NEW a \in Banned
        PROVE  issued_to'[k] = <<a>> <=> issued_to[k] = <<a>>
    <3>1. CASE k = key
      <4>1. a # id
        BY <1>5
      <4>2. issued_to'[k] = <<id>> /\ issued_to[k] = <<>>
        BY <1>3, <1>4, <3>1 DEF IInv, TypeOK
      <4> QED BY <4>1, <4>2
    <3>2. CASE k # key
      BY <1>4, <3>2 DEF IInv, TypeOK
    <3> QED BY <3>1, <3>2
  <2>2. BannedKeysTurnedDown /\ BannedKeysTurnedDown'
    BY TurnedDownExactly, PTL
  <2> QED BY <1>5, <2>1, <2>2 DEF BannedKeysTurnedDown
<1>7. OTK!HandOut(key, id)
  BY <1>3, <1>4, <1>5, <1>6 DEF OTK!HandOut
<1> QED BY <1>3, <1>7 DEF OTK!Step

LEMMA RevocationBans ==
  ASSUME IInv, IInv', NEW ids \in SUBSET Ids, Revoke(ids)
  PROVE  OTK!Step
<1> DEFINE known == {id \in ids : status[id] # "None"}
<1>1. Banned' = Banned \cup known /\ known \in SUBSET Ids
  BY DEF Revoke, Banned
<1>2. issued_to' = issued_to
  BY DEF Revoke
<1>3. TurnedDown' = TurnedDown
        \cup {key \in OtsKey : \E id \in known : issued_to[key] = <<id>>}
  <2>1. BannedKeysTurnedDown /\ BannedKeysTurnedDown'
    BY TurnedDownExactly, PTL
  <2> HIDE DEF known
  <2> QED BY <1>1, <1>2, <2>1 DEF BannedKeysTurnedDown
<1> HIDE DEF known
<1>4. OTK!Ban(known)
  BY <1>1, <1>2, <1>3 DEF OTK!Ban
<1> QED BY <1>1, <1>4 DEF OTK!Step

\* The other steps change nothing OneTimeKeys speaks of.
LEMMA StutteringSteps ==
  ASSUME IInv, IInv', UNCHANGED issued_to, Banned' = Banned
  PROVE  UNCHANGED OTK!abstractVars
<1>1. BannedKeysTurnedDown /\ BannedKeysTurnedDown'
  BY TurnedDownExactly, PTL
<1> QED BY <1>1 DEF OTK!abstractVars, BannedKeysTurnedDown

LEMMA StepRefines ==
  ASSUME IInv, IInv', [Next]_vars
  PROVE  [OTK!Step]_(OTK!abstractVars)
<1>1. CASE Join
  <2>1. next_id \in Ids /\ status[next_id] = "None"
    BY <1>1, ParamsAssumption DEF IInv, TypeOK, Unjoined, Join, Ids
  <2>2. UNCHANGED issued_to /\ Banned' = Banned
    BY <1>1, <2>1 DEF Join, Banned, IInv, TypeOK
  <2> QED BY <2>2, StutteringSteps
<1>2. ASSUME NEW id \in Ids, NEW b \in Requests, KeyDistBegin(id, b)
      PROVE  [OTK!Step]_(OTK!abstractVars)
  <2>1. UNCHANGED issued_to /\ Banned' = Banned
    BY <1>2 DEF KeyDistBegin, Banned
  <2> QED BY <2>1, StutteringSteps
<1>3. ASSUME NEW id \in Ids, KeyDistStep(id)
      PROVE  [OTK!Step]_(OTK!abstractVars)
  <2>1. CASE \E i \in Fn : KeyDistAllocate(id, i)
    BY <2>1, AllocationHandsOut
  <2>2. CASE (\E i \in Fn : KeyDistMiss(id, i)) \/ KeyDistGiveUp(id) \/ KeyDistReturn(id)
    <3>1. UNCHANGED issued_to /\ Banned' = Banned
      BY <2>2 DEF KeyDistMiss, KeyDistGiveUp, KeyDistReturn, Banned
    <3> QED BY <3>1, StutteringSteps
  <2> QED BY <1>3, <2>1, <2>2 DEF KeyDistStep
<1>4. CASE \E ids \in SUBSET Ids : Revoke(ids)
  BY <1>4, RevocationBans
<1>5. CASE UNCHANGED vars
  <2>1. UNCHANGED issued_to /\ Banned' = Banned
    BY <1>5 DEF vars, Banned
  <2> QED BY <2>1, StutteringSteps
<1> QED BY <1>1, <1>2, <1>3, <1>4, <1>5 DEF Next

\* Whatever the parameters of the community, dgmt_join, dgmt_key_dist and
\* dgmt_revoke together implement the handing out and banning of one-time keys.
THEOREM ManagerImplementsOneTimeKeys == Spec => HandsOutOneTimeKeys
<1>1. Init => OTK!Start
  BY InitIsStart
<1>2. IInv /\ IInv' /\ [Next]_vars => [OTK!Step]_(OTK!abstractVars)
  BY StepRefines
<1> QED BY <1>1, <1>2, Invariance, PTL DEF Spec, HandsOutOneTimeKeys, OTK!Promise

-------------------------------------------------------------------------------
(***************************************************************************)
(* Proofs about Community, for any number of members and epochs.  A step   *)
(* of the community is a step of the manager or leaves it alone, so the    *)
(* manager's invariant carries over; what is added says where the keys a   *)
(* member can reach, or is owed, come from.                                *)
(***************************************************************************)
\* Keys are owed to active members only, and for no epoch before their join.
OwedToActive ==
  \A o \in owed : status[o[1]] = "Active" /\ o[2] >= join_epoch[o[1]]

NothingBeforeMembership ==
  \A id \in Ids : status[id] = "None" => id \notin welcomed /\ InReach(id) = {}

\* What a copy with other numbers displaces in a ring can be fetched again.
HeldIsStored == \A id \in Ids : KeysHeld(id) \subseteq KeysStored(id)

CInv ==
  /\ IInv
  /\ CommunityTypeOK
  /\ OwedToActive
  /\ NothingBeforeMembership
  /\ HeldIsStored
  /\ RevokedReadsNoLaterEpoch
  /\ NothingBeforeJoin
  /\ ActiveMembersCovered

-------------------------------------------------------------------------------
LEMMA ManagerStepOrStutter == CommunityNext => [Next]_vars
BY DEF CommunityNext, JoinMember, RevokeMembers, Rotate, GrantEpochs, GrantSingleEpoch,
       AbsorbGrant, AbsorbCopy, Next

LEMMA EpochTypes ==
  ASSUME CommunityTypeOK
  PROVE  /\ epoch_count \in Nat /\ CurrentEpoch \in Nat /\ CurrentEpoch < epoch_count
         /\ epoch_count = CurrentEpoch + 1
BY MaxEpochsAssumption DEF CommunityTypeOK, CurrentEpoch

\* What grant_epochs seals, and what grant_single_epoch does.
LEMMA BundleEpochs ==
  ASSUME CommunityTypeOK
  PROVE  /\ GrantedEpochs \in Seq(0 .. CurrentEpoch)
         /\ policy = "FullHistory" => EpochsIn(GrantedEpochs) = 0 .. CurrentEpoch
         /\ policy = "FromJoinDate" => EpochsIn(GrantedEpochs) = {CurrentEpoch}
         /\ \A e : EpochsIn(<<e>>) = {e}
<1>1. CASE policy = "FullHistory"
  <2>1. GrantedEpochs = [n \in 1 .. epoch_count |-> n - 1]
    BY <1>1, EpochTypes DEF GrantedEpochs, EpochsFrom
  <2>2. DOMAIN GrantedEpochs = 1 .. epoch_count
    BY <2>1
  <2>3. \A e \in 0 .. CurrentEpoch : e + 1 \in 1 .. epoch_count /\ GrantedEpochs[e + 1] = e
    BY <2>1, EpochTypes
  <2>4. \A n \in 1 .. epoch_count : GrantedEpochs[n] \in 0 .. CurrentEpoch
    BY <2>1, EpochTypes
  <2>5. EpochsIn(GrantedEpochs) = 0 .. CurrentEpoch
    BY <2>2, <2>3, <2>4 DEF EpochsIn
  <2>6. GrantedEpochs \in Seq(0 .. CurrentEpoch)
    BY <2>1, <2>4, EpochTypes
  <2> QED BY <1>1, <2>5, <2>6 DEF EpochsIn
<1>2. CASE policy = "FromJoinDate"
  <2>1. GrantedEpochs = <<CurrentEpoch>>
    BY <1>2 DEF GrantedEpochs
  <2> QED BY <1>2, <2>1, EpochTypes DEF EpochsIn
<1> QED BY <1>1, <1>2 DEF CommunityTypeOK

LEMMA EpochsInType ==
  ASSUME NEW S, NEW bundle \in Seq(S)
  PROVE  /\ EpochsIn(bundle) \subseteq S
         /\ \A n \in 0 .. Len(bundle) : {bundle[m] : m \in 1 .. n} \subseteq EpochsIn(bundle)
<1>1. DOMAIN bundle = 1 .. Len(bundle) /\ Len(bundle) \in Nat
  OBVIOUS
<1>2. \A n \in DOMAIN bundle : bundle[n] \in S
  BY <1>1
<1>3. \A n \in 0 .. Len(bundle) : 1 .. n \subseteq DOMAIN bundle
  BY <1>1
<1> QED BY <1>2, <1>3 DEF EpochsIn

LEMMA SeqMonotone ==
  ASSUME NEW S, NEW T, S \subseteq T
  PROVE  Seq(S) \subseteq Seq(T)
<1> SUFFICES ASSUME NEW s \in Seq(S) PROVE s \in Seq(T)
  OBVIOUS
<1>1. Len(s) \in Nat /\ s = [n \in 1 .. Len(s) |-> s[n]]
  OBVIOUS
<1>2. \A n \in 1 .. Len(s) : s[n] \in T
  OBVIOUS
<1> QED BY <1>1, <1>2

LEMMA SeqIsFunction ==
  ASSUME NEW S, NEW s \in Seq(S)
  PROVE  s \in [DOMAIN s -> S]
<1>1. DOMAIN s = 1 .. Len(s) /\ s = [n \in DOMAIN s |-> s[n]]
  OBVIOUS
<1>2. \A n \in 1 .. Len(s) : s[n] \in S
  OBVIOUS
<1> QED BY <1>1, <1>2

LEMMA KeyRingsMonotone ==
  ASSUME NEW S, NEW T, S \subseteq T
  PROVE  KeyRings(S) \subseteq KeyRings(T)
<1> SUFFICES ASSUME NEW keys \in KeyRings(S) PROVE keys \in KeyRings(T)
  OBVIOUS
<1>1. PICK N \in SUBSET Number : keys \in [N -> S]
  BY DEF KeyRings
<1>2. keys \in [N -> T]
  BY <1>1
<1> QED BY <1>2 DEF KeyRings

LEMMA RingFacts ==
  ASSUME CommunityTypeOK, NEW id \in Ids
  PROVE  /\ DOMAIN ring[id] \subseteq Number
         /\ KeysHeld(id) \subseteq 0 .. CurrentEpoch
<1>1. ring[id] \in KeyRings(0 .. CurrentEpoch)
  BY DEF CommunityTypeOK
<1>2. PICK N \in SUBSET Number : ring[id] \in [N -> 0 .. CurrentEpoch]
  BY <1>1 DEF KeyRings
<1> QED BY <1>2 DEF KeysHeld

\* The keys to look for are those of some last position.
LEMMA LastUnderFacts ==
  ASSUME NEW number, NEW n \in Nat, NEW x, \E m \in 1 .. n : number[m] = x
  PROVE  LastUnder(number, n, x) \in 1 .. n /\ number[LastUnder(number, n, x)] = x
<1> DEFINE M == {m \in 1 .. n : number[m] = x}
           R == {p \in Nat \X Nat : p[1] < p[2]}
           D == {d \in Nat : n - d \in M}
<1>1. D # {}
  <2>1. PICK m \in 1 .. n : number[m] = x
    OBVIOUS
  <2>2. n - m \in Nat /\ n - (n - m) = m
    OBVIOUS
  <2> QED BY <2>1, <2>2
<1>2. PICK d \in D : \A y \in D : ~ <<y, d>> \in R
  <2>1. IsWellFoundedOn(R, Nat)
    BY NatLessThanWellFounded DEF OpToRel
  <2>2. D \subseteq Nat
    OBVIOUS
  <2> HIDE DEF R, D
  <2> QED BY <1>1, <2>1, <2>2, WFMin
<1>3. n - d \in 1 .. n /\ number[n - d] = x
  OBVIOUS
<1>4. \A o \in (n - d) + 1 .. n : number[o] # x
  <2> SUFFICES ASSUME NEW o \in (n - d) + 1 .. n, number[o] = x PROVE FALSE
    OBVIOUS
  <2>1. o \in M /\ n - o \in Nat /\ n - (n - o) = o
    BY <1>3
  <2>2. n - o \in D
    BY <2>1
  <2>3. n - o < d
    BY <1>3
  <2> QED BY <1>2, <2>2, <2>3
<1> HIDE DEF D, M, R
<1>5. \E m \in 1 .. n : number[m] = x /\ \A o \in m + 1 .. n : number[o] # x
  BY <1>3, <1>4
<1> QED BY <1>5 DEF LastUnder

LEMMA InReachType ==
  ASSUME CommunityTypeOK, NEW id \in Ids
  PROVE  InReach(id) \subseteq 0 .. CurrentEpoch
<1>1. ASSUME NEW bundle \in stored[id]
      PROVE  EpochsIn(bundle) \subseteq 0 .. CurrentEpoch
  BY EpochsInType DEF CommunityTypeOK
<1> QED BY <1>1, RingFacts DEF InReach, KeysStored

LEMMA SameReach ==
  ASSUME UNCHANGED <<stored, ring>>
  PROVE  /\ \A id \in Ids : InReach(id)' = InReach(id)
         /\ HeldIsStored => HeldIsStored'
BY DEF InReach, KeysHeld, KeysStored, HeldIsStored

LEMMA StoreMore ==
  ASSUME NEW id \in Ids, NEW bundle, UNCHANGED ring,
         DOMAIN stored = Ids, stored' = [stored EXCEPT ![id] = @ \cup {bundle}]
  PROVE  /\ InReach(id)' = InReach(id) \cup EpochsIn(bundle)
         /\ \A a \in Ids \ {id} : InReach(a)' = InReach(a)
         /\ HeldIsStored => HeldIsStored'
<1>1. /\ KeysStored(id)' = KeysStored(id) \cup EpochsIn(bundle)
      /\ \A a \in Ids \ {id} : KeysStored(a)' = KeysStored(a)
  BY DEF KeysStored
<1>2. \A a \in Ids : KeysHeld(a)' = KeysHeld(a)
  BY DEF KeysHeld
<1> QED BY <1>1, <1>2 DEF InReach, HeldIsStored

\* A call that absorbs n keys of a copy holds afterwards what it held before or
\* keys of the bundle.
LEMMA FiledKeys ==
  ASSUME NEW keys, NEW S, NEW bundle \in Seq(S), NEW n \in 0 .. Len(bundle),
         NEW number \in [DOMAIN bundle -> Number], keys \in KeyRings(S)
  PROVE  LET after == Filed(keys, bundle, number, n)
         IN  /\ after \in KeyRings(S)
             /\ \A x \in DOMAIN after :
                  after[x] \in EpochsIn(bundle) \/ (x \in DOMAIN keys /\ after[x] = keys[x])
<1> DEFINE after == Filed(keys, bundle, number, n)
           found(x) == \E m \in 1 .. n : number[m] = x
<1>1. DOMAIN bundle = 1 .. Len(bundle) /\ Len(bundle) \in Nat /\ n \in Nat
      /\ 1 .. n \subseteq DOMAIN bundle
  OBVIOUS
<1>2. PICK N \in SUBSET Number : keys \in [N -> S]
  BY DEF KeyRings
<1>3. DOMAIN after = N \cup {number[m] : m \in 1 .. n}
  BY <1>2 DEF Filed
<1>4. DOMAIN after \in SUBSET Number
  BY <1>1, <1>2, <1>3
<1>5. ASSUME NEW x \in DOMAIN after, found(x)
      PROVE  after[x] \in EpochsIn(bundle) /\ after[x] \in S
  <2>1. LastUnder(number, n, x) \in 1 .. n
    BY <1>1, <1>5, LastUnderFacts
  <2>2. after[x] = bundle[LastUnder(number, n, x)]
    BY <1>5 DEF Filed
  <2>3. EpochsIn(bundle) \subseteq S
    BY EpochsInType
  <2> QED BY <1>1, <2>1, <2>2, <2>3 DEF EpochsIn
<1>6. ASSUME NEW x \in DOMAIN after, ~ found(x)
      PROVE  x \in DOMAIN keys /\ after[x] = keys[x] /\ after[x] \in S
  <2>1. x \in N
    BY <1>3, <1>6
  <2>2. after[x] = keys[x]
    BY <1>6 DEF Filed
  <2> QED BY <1>2, <2>1, <2>2
<1>7. after \in [DOMAIN after -> S]
  <2>1. \A x \in DOMAIN after : after[x] \in S
    BY <1>5, <1>6
  <2>2. after = [x \in DOMAIN after |-> after[x]]
    BY DEF Filed
  <2> HIDE DEF after, found
  <2> QED BY <2>1, <2>2
<1>8. after \in KeyRings(S)
  <2> HIDE DEF after, found
  <2> QED BY <1>4, <1>7 DEF KeyRings
<1>9. \A x \in DOMAIN after :
        after[x] \in EpochsIn(bundle) \/ (x \in DOMAIN keys /\ after[x] = keys[x])
  BY <1>5, <1>6
<1> QED BY <1>8, <1>9

LEMMA AbsorbFrame ==
  ASSUME NEW id, NEW bundle, AbsorbGrant(id, bundle)
  PROVE  UNCHANGED <<vars, status, policy, epoch_count, rotation_due, welcomed, owed, stored,
                     join_epoch, grant_epoch, last_epoch>>
BY DEF AbsorbGrant, AbsorbCopy, vars

\* Whatever numbers a copy has, absorbing it brings no key within reach that
\* was not, and takes none out of reach.
LEMMA AbsorbReachesSame ==
  ASSUME CommunityTypeOK, HeldIsStored, NEW id \in Ids, NEW bundle \in stored[id],
         AbsorbGrant(id, bundle)
  PROVE  /\ \A a \in Ids : InReach(a)' = InReach(a)
         /\ HeldIsStored'
         /\ ring' \in [Ids -> KeyRings(0 .. CurrentEpoch)]
<1>1. bundle \in Seq(0 .. CurrentEpoch) /\ ring \in [Ids -> KeyRings(0 .. CurrentEpoch)]
  BY DEF CommunityTypeOK
<1>2. PICK number \in NumbersInCopy(id, bundle), n \in 0 .. Len(bundle) :
        /\ ring' = [ring EXCEPT ![id] = Filed(@, bundle, number, n)]
        /\ UNCHANGED stored
  BY DEF AbsorbGrant, AbsorbCopy
<1>3. number \in [DOMAIN bundle -> Number]
  <2>1. bundle \in [DOMAIN bundle -> Number]
    <3>1. 0 .. CurrentEpoch \subseteq Number
      BY MaxEpochsAssumption, EpochTypes DEF CommunityTypeOK, CurrentEpoch, Number
    <3>2. bundle \in Seq(Number)
      BY <1>1, <3>1, SeqMonotone
    <3> QED BY <3>2, SeqIsFunction
  <2> QED BY <2>1 DEF NumbersInCopy
<1> DEFINE after == Filed(ring[id], bundle, number, n)
<1>4. /\ after \in KeyRings(0 .. CurrentEpoch)
      /\ \A x \in DOMAIN after :
           after[x] \in EpochsIn(bundle) \/ (x \in DOMAIN ring[id] /\ after[x] = ring[id][x])
  BY <1>1, <1>3, FiledKeys
<1> HIDE DEF after
<1>5. ring'[id] = after /\ \A a \in Ids \ {id} : ring'[a] = ring[a]
  BY <1>1, <1>2 DEF after
<1>6. \A a \in Ids : KeysStored(a)' = KeysStored(a)
  BY <1>2 DEF KeysStored
<1>7. \A a \in Ids : KeysHeld(a)' \subseteq KeysStored(a)
  <2>1. EpochsIn(bundle) \subseteq KeysStored(id)
    BY DEF KeysStored
  <2>2. \A x \in DOMAIN ring[id] : ring[id][x] \in KeysStored(id)
    BY DEF HeldIsStored, KeysHeld
  <2>3. KeysHeld(id)' \subseteq KeysStored(id)
    BY <1>4, <1>5, <2>1, <2>2 DEF KeysHeld
  <2>4. \A a \in Ids \ {id} : KeysHeld(a)' = KeysHeld(a)
    BY <1>5 DEF KeysHeld
  <2> QED BY <2>3, <2>4 DEF HeldIsStored
<1>8. \A a \in Ids : InReach(a)' = InReach(a)
  BY <1>6, <1>7 DEF InReach, HeldIsStored
<1>9. HeldIsStored'
  BY <1>6, <1>7 DEF HeldIsStored
<1>10. ring' \in [Ids -> KeyRings(0 .. CurrentEpoch)]
  BY <1>1, <1>2, <1>4 DEF after
<1> QED BY <1>8, <1>9, <1>10

-------------------------------------------------------------------------------
(***************************************************************************)
(* The inductive invariant.                                                *)
(***************************************************************************)
LEMMA InitCInv == CommunityInit => CInv
<1> SUFFICES ASSUME CommunityInit PROVE CInv
  OBVIOUS
<1>1. IInv
  BY InitInv DEF CommunityInit
<1>2. CurrentEpoch = 0
  BY DEF CommunityInit, CurrentEpoch
<1>3. CommunityTypeOK
  <2>1. epoch_count \in 1 .. MaxEpochs /\ 0 \in 0 .. CurrentEpoch
    BY <1>2, MaxEpochsAssumption DEF CommunityInit
  <2>2. /\ stored \in [Ids -> SUBSET Seq(0 .. CurrentEpoch)]
        /\ ring \in [Ids -> KeyRings(0 .. CurrentEpoch)]
    <3>1. <<>> \in KeyRings(0 .. CurrentEpoch)
      <4>1. {} \in SUBSET Number /\ <<>> \in [{} -> 0 .. CurrentEpoch]
        OBVIOUS
      <4> QED BY <4>1 DEF KeyRings
    <3> QED BY <3>1 DEF CommunityInit
  <2>3. /\ join_epoch \in [Ids -> 0 .. CurrentEpoch]
        /\ grant_epoch \in [Ids -> 0 .. CurrentEpoch]
        /\ last_epoch \in [Ids -> 0 .. CurrentEpoch]
    BY <2>1 DEF CommunityInit
  <2> QED BY <2>1, <2>2, <2>3 DEF CommunityInit, CommunityTypeOK
<1>4. (\A id \in Ids : InReach(id) = {}) /\ HeldIsStored
  <2>1. \A id \in Ids : KeysHeld(id) = {} /\ KeysStored(id) = {}
    BY DEF CommunityInit, KeysHeld, KeysStored
  <2> QED BY <2>1 DEF InReach, HeldIsStored
<1>5. OwedToActive /\ NothingBeforeMembership /\ RevokedReadsNoLaterEpoch
  BY <1>4 DEF CommunityInit, OwedToActive, NothingBeforeMembership, RevokedReadsNoLaterEpoch
<1>6. NothingBeforeJoin /\ ActiveMembersCovered
  BY <1>4 DEF CommunityInit, NothingBeforeJoin, ActiveMembersCovered
<1> QED BY <1>1, <1>3, <1>4, <1>5, <1>6 DEF CInv

LEMMA JoinMemberInv ==
  ASSUME CInv, JoinMember, IInv'
  PROVE  CInv'
<1>1. /\ next_id \in Ids /\ status[next_id] = "None"
      /\ status'[next_id] = "Active"
      /\ \A id \in Ids \ {next_id} : status'[id] = status[id]
  BY ParamsAssumption DEF CInv, IInv, TypeOK, Unjoined, JoinMember, Join, Ids
<1>2. /\ \A id \in Ids : InReach(id)' = InReach(id)
      /\ CurrentEpoch' = CurrentEpoch
      /\ HeldIsStored'
  BY SameReach DEF CInv, JoinMember, CurrentEpoch
<1>3. /\ \A id \in Ids \ {next_id} : join_epoch'[id] = join_epoch[id]
      /\ join_epoch' \in [Ids -> 0 .. CurrentEpoch]
  <2>1. CurrentEpoch \in 0 .. CurrentEpoch
    BY EpochTypes DEF CInv
  <2>2. /\ join_epoch \in [Ids -> 0 .. CurrentEpoch]
        /\ join_epoch' = [join_epoch EXCEPT ![next_id] = CurrentEpoch]
    BY DEF CInv, CommunityTypeOK, JoinMember
  <2> QED BY <1>1, <2>1, <2>2
<1>4. CommunityTypeOK'
  BY <1>2, <1>3 DEF CInv, CommunityTypeOK, JoinMember
<1>5. OwedToActive'
  <2>1. \A o \in owed : o[1] \in Ids /\ o[1] # next_id
    BY <1>1 DEF CInv, CommunityTypeOK, OwedToActive
  <2> QED BY <1>1, <1>3, <2>1 DEF CInv, OwedToActive, JoinMember
<1>6. NothingBeforeMembership'
  BY <1>1, <1>2 DEF CInv, NothingBeforeMembership, JoinMember
<1>7. RevokedReadsNoLaterEpoch'
  BY <1>1, <1>2 DEF CInv, RevokedReadsNoLaterEpoch, JoinMember
<1>8. NothingBeforeJoin'
  BY <1>1, <1>2, <1>3 DEF CInv, NothingBeforeMembership, NothingBeforeJoin, JoinMember
<1>9. ActiveMembersCovered'
  BY <1>1, <1>2 DEF CInv, NothingBeforeMembership, CommunityTypeOK, ActiveMembersCovered, JoinMember
<1> QED BY <1>2, <1>4, <1>5, <1>6, <1>7, <1>8, <1>9 DEF CInv

LEMMA GrantEpochsInv ==
  ASSUME CInv, NEW id \in Ids, GrantEpochs(id), IInv'
  PROVE  CInv'
<1>1. CommunityTypeOK /\ CurrentEpoch' = CurrentEpoch /\ UNCHANGED status
  BY DEF CInv, GrantEpochs, CurrentEpoch, vars
<1>2. /\ GrantedEpochs \in Seq(0 .. CurrentEpoch)
      /\ policy = "FullHistory" => EpochsIn(GrantedEpochs) = 0 .. CurrentEpoch
      /\ policy = "FromJoinDate" => EpochsIn(GrantedEpochs) = {CurrentEpoch}
  BY <1>1, BundleEpochs
<1> PICK bundle : bundle = GrantedEpochs
  OBVIOUS
<1>3. stored' = [stored EXCEPT ![id] = @ \cup {bundle}] /\ DOMAIN stored = Ids /\ UNCHANGED ring
  BY <1>1 DEF GrantEpochs, CommunityTypeOK
<1>4. /\ InReach(id)' = InReach(id) \cup EpochsIn(bundle)
      /\ \A a \in Ids \ {id} : InReach(a)' = InReach(a)
      /\ HeldIsStored'
  BY <1>3, StoreMore DEF CInv
<1>5. /\ grant_epoch'[id] = CurrentEpoch
      /\ \A a \in Ids \ {id} : grant_epoch'[a] = grant_epoch[a]
      /\ grant_epoch' \in [Ids -> 0 .. CurrentEpoch]
  BY <1>1, EpochTypes DEF CommunityTypeOK, GrantEpochs
<1>6. CommunityTypeOK'
  BY <1>1, <1>2, <1>5 DEF CommunityTypeOK, GrantEpochs
<1>7. OwedToActive'
  BY <1>1 DEF CInv, OwedToActive, GrantEpochs
<1>8. NothingBeforeMembership' /\ RevokedReadsNoLaterEpoch'
  BY <1>1, <1>4 DEF CInv, NothingBeforeMembership, RevokedReadsNoLaterEpoch, GrantEpochs
<1>9. NothingBeforeJoin'
  <2>1. CurrentEpoch >= join_epoch[id]
    BY <1>1, EpochTypes DEF CommunityTypeOK
  <2> QED BY <1>2, <1>4, <2>1 DEF CInv, NothingBeforeJoin, GrantEpochs
<1>10. ActiveMembersCovered'
  <2> SUFFICES ASSUME NEW a \in welcomed', status[a] = "Active",
                      NEW e \in (IF policy = "FullHistory" THEN 0 ELSE grant_epoch'[a]) .. CurrentEpoch
               PROVE  e \in InReach(a)' \/ <<a, e>> \in owed
    BY <1>1 DEF ActiveMembersCovered, GrantEpochs
  <2>1. CASE a = id
    <3>1. e \in EpochsIn(bundle)
      BY <1>1, <1>2, <1>5, <2>1, EpochTypes DEF CommunityTypeOK
    <3> QED BY <1>4, <2>1, <3>1
  <2>2. CASE a # id
    <3>1. a \in welcomed /\ a \in Ids
      BY <1>1, <2>2 DEF GrantEpochs, CommunityTypeOK
    <3> QED BY <1>4, <1>5, <2>2, <3>1 DEF CInv, ActiveMembersCovered
  <2> QED BY <2>1, <2>2
<1> QED BY <1>4, <1>6, <1>7, <1>8, <1>9, <1>10 DEF CInv

LEMMA RevokeMembersInv ==
  ASSUME CInv, NEW ids \in SUBSET Ids, RevokeMembers(ids), IInv'
  PROVE  CInv'
<1>1. /\ \A id \in Ids : status'[id] = "None" <=> status[id] = "None"
      /\ \A id \in Ids : status'[id] = "Active" => status[id] = "Active"
      /\ \A id \in Ids : status'[id] = "Revoked" =>
           status[id] = "Revoked" \/ (id \in ids /\ status[id] = "Active")
      /\ \A id \in Ids : status[id] = "Revoked" => status'[id] = "Revoked"
  BY DEF CInv, IInv, TypeOK, RevokeMembers, Revoke
<1>2. /\ CommunityTypeOK /\ CurrentEpoch' = CurrentEpoch /\ HeldIsStored'
      /\ \A id \in Ids : InReach(id)' = InReach(id)
  BY SameReach DEF CInv, RevokeMembers, CurrentEpoch
<1>3. /\ last_epoch' \in [Ids -> 0 .. CurrentEpoch]
      /\ \A id \in Ids : last_epoch'[id] = IF id \in ids /\ status[id] = "Active"
                                           THEN CurrentEpoch ELSE last_epoch[id]
  <2>1. CurrentEpoch \in 0 .. CurrentEpoch
    BY <1>2, EpochTypes
  <2> QED BY <1>2, <2>1 DEF CommunityTypeOK, RevokeMembers
<1>4. owed' \subseteq owed /\ \A o \in owed : o \in owed' <=> status'[o[1]] = "Active"
  BY DEF RevokeMembers
<1>5. CommunityTypeOK'
  BY <1>2, <1>3, <1>4 DEF CommunityTypeOK, RevokeMembers
<1>6. OwedToActive'
  BY <1>4 DEF CInv, OwedToActive, RevokeMembers
<1>7. NothingBeforeMembership'
  BY <1>1, <1>2 DEF CInv, NothingBeforeMembership, RevokeMembers
<1>8. RevokedReadsNoLaterEpoch'
  <2> SUFFICES ASSUME NEW id \in Ids, status'[id] = "Revoked", NEW e \in InReach(id)
               PROVE  e <= last_epoch'[id]
    BY <1>2 DEF RevokedReadsNoLaterEpoch
  <2>1. CASE id \in ids /\ status[id] = "Active"
    <3>1. e \in 0 .. CurrentEpoch
      BY <1>2, InReachType
    <3> QED BY <1>3, <2>1, <3>1
  <2>2. CASE ~ (id \in ids /\ status[id] = "Active")
    BY <1>1, <1>3, <2>2 DEF CInv, RevokedReadsNoLaterEpoch
  <2> QED BY <2>1, <2>2
<1>9. NothingBeforeJoin'
  BY <1>2 DEF CInv, NothingBeforeJoin, RevokeMembers
<1>10. ActiveMembersCovered'
  <2> SUFFICES ASSUME NEW id \in welcomed, status'[id] = "Active",
                      NEW e \in (IF policy = "FullHistory" THEN 0 ELSE grant_epoch[id]) .. CurrentEpoch
               PROVE  e \in InReach(id) \/ <<id, e>> \in owed'
    BY <1>2 DEF ActiveMembersCovered, CommunityTypeOK, RevokeMembers
  <2>1. id \in Ids /\ status[id] = "Active"
    BY <1>1, <1>2 DEF CommunityTypeOK
  <2>2. e \in InReach(id) \/ <<id, e>> \in owed
    BY <2>1 DEF CInv, ActiveMembersCovered
  <2> QED BY <1>4, <2>2
<1> QED BY <1>2, <1>5, <1>6, <1>7, <1>8, <1>9, <1>10 DEF CInv

LEMMA RotateInv ==
  ASSUME CInv, Rotate, IInv'
  PROVE  CInv'
<1>1. /\ CommunityTypeOK /\ epoch_count \in Nat /\ CurrentEpoch \in Nat
      /\ CurrentEpoch' = epoch_count /\ epoch_count = CurrentEpoch + 1
  BY EpochTypes DEF CInv, Rotate, CurrentEpoch
<1>2. /\ 0 .. CurrentEpoch \subseteq 0 .. CurrentEpoch'
      /\ epoch_count \in 0 .. CurrentEpoch'
      /\ \A e \in 0 .. CurrentEpoch' : e \in 0 .. CurrentEpoch \/ e = epoch_count
  BY <1>1
<1>3. UNCHANGED status /\ HeldIsStored' /\ \A id \in Ids : InReach(id)' = InReach(id)
  BY SameReach DEF CInv, Rotate, vars
<1>4. \A o : o \in owed' <=>
        o \in owed \/ \E id \in Ids : status[id] = "Active" /\ o = <<id, epoch_count>>
  BY DEF Rotate
<1>5. CommunityTypeOK'
  <2>1. epoch_count' \in 1 .. MaxEpochs
    BY <1>1, MaxEpochsAssumption DEF CommunityTypeOK, Rotate
  <2>2. owed' \in SUBSET (Ids \X (0 .. CurrentEpoch'))
    BY <1>1, <1>2, <1>4 DEF CommunityTypeOK
  <2>3. /\ join_epoch' \in [Ids -> 0 .. CurrentEpoch']
        /\ grant_epoch' \in [Ids -> 0 .. CurrentEpoch']
        /\ last_epoch' \in [Ids -> 0 .. CurrentEpoch']
    BY <1>1, <1>2 DEF CommunityTypeOK, Rotate
  <2>4. ring' \in [Ids -> KeyRings(0 .. CurrentEpoch')]
    <3>1. KeyRings(0 .. CurrentEpoch) \subseteq KeyRings(0 .. CurrentEpoch')
      BY <1>2, KeyRingsMonotone
    <3> QED BY <1>1, <3>1 DEF CommunityTypeOK, Rotate
  <2>5. stored' \in [Ids -> SUBSET Seq(0 .. CurrentEpoch')]
    <3>1. Seq(0 .. CurrentEpoch) \subseteq Seq(0 .. CurrentEpoch')
      BY <1>2, SeqMonotone
    <3> QED BY <1>1, <3>1 DEF CommunityTypeOK, Rotate
  <2> QED BY <1>1, <2>1, <2>2, <2>3, <2>4, <2>5 DEF CommunityTypeOK, Rotate
<1>6. OwedToActive'
  <2> SUFFICES ASSUME NEW o \in owed'
               PROVE  status[o[1]] = "Active" /\ o[2] >= join_epoch[o[1]]
    BY <1>3 DEF OwedToActive, Rotate
  <2>1. CASE o \in owed
    BY <2>1 DEF CInv, OwedToActive
  <2>2. CASE \E id \in Ids : status[id] = "Active" /\ o = <<id, epoch_count>>
    <3>1. PICK id \in Ids : status[id] = "Active" /\ o = <<id, epoch_count>>
      BY <2>2
    <3>2. join_epoch[id] \in 0 .. CurrentEpoch
      BY <1>1 DEF CommunityTypeOK
    <3> QED BY <1>1, <3>1, <3>2
  <2> QED BY <1>4, <2>1, <2>2
<1>7. NothingBeforeMembership' /\ RevokedReadsNoLaterEpoch' /\ NothingBeforeJoin'
  BY <1>3 DEF CInv, NothingBeforeMembership, RevokedReadsNoLaterEpoch, NothingBeforeJoin, Rotate
<1>8. ActiveMembersCovered'
  <2> SUFFICES ASSUME NEW id \in welcomed, status[id] = "Active",
                      NEW e \in (IF policy = "FullHistory" THEN 0 ELSE grant_epoch[id]) .. CurrentEpoch'
               PROVE  e \in InReach(id) \/ <<id, e>> \in owed'
    <3>1. welcomed \subseteq Ids
      BY <1>1 DEF CommunityTypeOK
    <3>2. UNCHANGED <<policy, welcomed, grant_epoch>>
      BY DEF Rotate
    <3> QED BY <1>3, <3>1, <3>2 DEF ActiveMembersCovered
  <2>1. id \in Ids
    BY <1>1 DEF CommunityTypeOK
  <2>2. grant_epoch[id] \in Nat
    BY <1>1, <2>1 DEF CommunityTypeOK
  <2>3. CASE e = epoch_count
    BY <1>4, <2>1, <2>3
  <2>4. CASE e # epoch_count
    <3>1. e \in (IF policy = "FullHistory" THEN 0 ELSE grant_epoch[id]) .. CurrentEpoch
      BY <1>1, <2>2, <2>4
    <3> QED BY <1>4, <3>1 DEF CInv, ActiveMembersCovered
  <2> QED BY <2>3, <2>4
<1> QED BY <1>3, <1>5, <1>6, <1>7, <1>8 DEF CInv

LEMMA GrantSingleEpochInv ==
  ASSUME CInv, NEW id \in Ids, NEW e \in Epoch, GrantSingleEpoch(id, e), IInv'
  PROVE  CInv'
<1>1. CommunityTypeOK /\ CurrentEpoch' = CurrentEpoch /\ UNCHANGED status
  BY DEF CInv, GrantSingleEpoch, CurrentEpoch, vars
<1> PICK bundle : bundle = <<e>>
  OBVIOUS
<1>2. EpochsIn(bundle) = {e}
  BY <1>1, BundleEpochs
<1>3. stored' = [stored EXCEPT ![id] = @ \cup {bundle}] /\ DOMAIN stored = Ids /\ UNCHANGED ring
  BY <1>1 DEF GrantSingleEpoch, CommunityTypeOK
<1>4. /\ InReach(id)' = InReach(id) \cup {e}
      /\ \A a \in Ids \ {id} : InReach(a)' = InReach(a)
      /\ HeldIsStored'
  BY <1>2, <1>3, StoreMore DEF CInv
<1>5. status[id] = "Active" /\ e >= join_epoch[id] /\ e \in 0 .. CurrentEpoch
  BY <1>1 DEF CInv, OwedToActive, CommunityTypeOK, GrantSingleEpoch
<1>6. CommunityTypeOK'
  <2>1. bundle \in Seq(0 .. CurrentEpoch)
    BY <1>5
  <2>2. stored' \in [Ids -> SUBSET Seq(0 .. CurrentEpoch)]
    BY <1>1, <1>3, <2>1 DEF CommunityTypeOK
  <2>3. owed' \in SUBSET (Ids \X (0 .. CurrentEpoch))
    BY <1>1 DEF CommunityTypeOK, GrantSingleEpoch
  <2> QED BY <1>1, <2>2, <2>3 DEF CommunityTypeOK, GrantSingleEpoch
<1>7. OwedToActive'
  BY <1>1 DEF CInv, OwedToActive, GrantSingleEpoch
<1>8. NothingBeforeMembership' /\ RevokedReadsNoLaterEpoch'
  BY <1>1, <1>4, <1>5 DEF CInv, NothingBeforeMembership, RevokedReadsNoLaterEpoch, GrantSingleEpoch
<1>9. NothingBeforeJoin'
  BY <1>4, <1>5 DEF CInv, NothingBeforeJoin, GrantSingleEpoch
<1>10. ActiveMembersCovered'
  <2> SUFFICES ASSUME NEW a \in welcomed, status[a] = "Active",
                      NEW f \in (IF policy = "FullHistory" THEN 0 ELSE grant_epoch[a]) .. CurrentEpoch
               PROVE  f \in InReach(a)' \/ <<a, f>> \in owed'
    BY <1>1 DEF ActiveMembersCovered, GrantSingleEpoch
  <2>1. a \in Ids
    BY <1>1 DEF CommunityTypeOK
  <2>2. f \in InReach(a) \/ <<a, f>> \in owed
    BY DEF CInv, ActiveMembersCovered
  <2>3. <<a, f>> \in owed => <<a, f>> \in owed' \/ (a = id /\ f = e)
    BY DEF GrantSingleEpoch
  <2> QED BY <1>4, <2>1, <2>2, <2>3
<1> QED BY <1>4, <1>6, <1>7, <1>8, <1>9, <1>10 DEF CInv

LEMMA AbsorbGrantInv ==
  ASSUME CInv, NEW id \in Ids, NEW bundle \in stored[id], AbsorbGrant(id, bundle), IInv'
  PROVE  CInv'
<1>1. CommunityTypeOK /\ CurrentEpoch' = CurrentEpoch /\ UNCHANGED status
  BY AbsorbFrame DEF CInv, CurrentEpoch
<1>2. /\ \A a \in Ids : InReach(a)' = InReach(a)
      /\ HeldIsStored' /\ ring' \in [Ids -> KeyRings(0 .. CurrentEpoch)]
  BY <1>1, AbsorbReachesSame DEF CInv
<1>3. CommunityTypeOK'
  BY <1>1, <1>2, AbsorbFrame DEF CommunityTypeOK
<1>4. OwedToActive' /\ NothingBeforeMembership' /\ RevokedReadsNoLaterEpoch' /\ NothingBeforeJoin'
  BY <1>1, <1>2, AbsorbFrame DEF CInv, OwedToActive, NothingBeforeMembership,
                                 RevokedReadsNoLaterEpoch, NothingBeforeJoin
<1>5. ActiveMembersCovered'
  BY <1>1, <1>2, AbsorbFrame DEF CInv, CommunityTypeOK, ActiveMembersCovered
<1> QED BY <1>2, <1>3, <1>4, <1>5 DEF CInv

LEMMA NextCInv == CInv /\ [CommunityNext]_communityVars => CInv'
<1> SUFFICES ASSUME CInv, [CommunityNext]_communityVars PROVE CInv'
  OBVIOUS
<1>1. [Next]_vars
  BY ManagerStepOrStutter DEF communityVars
<1>2. IInv'
  BY <1>1, NextInv DEF CInv
<1>3. CASE JoinMember
  BY <1>2, <1>3, JoinMemberInv
<1>4. ASSUME NEW ids \in SUBSET Ids, RevokeMembers(ids)
      PROVE  CInv'
  BY <1>2, <1>4, RevokeMembersInv
<1>5. CASE Rotate
  BY <1>2, <1>5, RotateInv
<1>6. ASSUME NEW id \in Ids, GrantEpochs(id)
      PROVE  CInv'
  BY <1>2, <1>6, GrantEpochsInv
<1>7. ASSUME NEW id \in Ids, NEW e \in Epoch, GrantSingleEpoch(id, e)
      PROVE  CInv'
  BY <1>2, <1>7, GrantSingleEpochInv
<1>8. ASSUME NEW id \in Ids, NEW bundle \in stored[id], AbsorbGrant(id, bundle)
      PROVE  CInv'
  BY <1>2, <1>8, AbsorbGrantInv
<1>9. CASE UNCHANGED communityVars
  <2>1. UNCHANGED <<vars, epochVars>> /\ UNCHANGED status
    BY <1>9 DEF communityVars, vars
  <2>2. /\ \A id \in Ids : InReach(id)' = InReach(id)
        /\ HeldIsStored' /\ CurrentEpoch' = CurrentEpoch
    BY <2>1, SameReach DEF CInv, epochVars, CurrentEpoch
  <2>3. CommunityTypeOK' /\ OwedToActive'
    BY <2>1, <2>2 DEF CInv, epochVars, CommunityTypeOK, OwedToActive
  <2>4. NothingBeforeMembership' /\ RevokedReadsNoLaterEpoch' /\ NothingBeforeJoin'
    BY <2>1, <2>2 DEF CInv, epochVars, NothingBeforeMembership, RevokedReadsNoLaterEpoch,
                      NothingBeforeJoin
  <2>5. ActiveMembersCovered'
    BY <2>1, <2>2 DEF CInv, epochVars, CommunityTypeOK, ActiveMembersCovered
  <2> QED BY <1>2, <2>2, <2>3, <2>4, <2>5 DEF CInv
<1> QED BY <1>3, <1>4, <1>5, <1>6, <1>7, <1>8, <1>9 DEF CommunityNext

LEMMA CommunityInvariance == CommunitySpec => []CInv
BY InitCInv, NextCInv, PTL DEF CommunitySpec

-------------------------------------------------------------------------------
\* Every key owed, sealed or held is one of the history's: the number of a new
\* key is the length of the history before it was pushed (key.rs, rotate).
THEOREM CommunityTypes == CommunitySpec => []CommunityTypeOK
BY CommunityInvariance, PTL DEF CInv

\* "Access to future epochs is cut off on revocation" (key.rs), in whatever
\* order keys are distributed, fetched and absorbed.
THEOREM RevocationCutsOff == CommunitySpec => []RevokedReadsNoLaterEpoch
BY CommunityInvariance, PTL DEF CInv

\* "earlier posts remain unreadable" under FromJoinDate (grant.rs).
THEOREM HistoryWithheld == CommunitySpec => []NothingBeforeJoin
BY CommunityInvariance, PTL DEF CInv

\* The first grant and the single-epoch grants leave an active member no gap
\* (grant.rs: "only the new one" is sealed again after a rotation).
THEOREM NoEpochForgotten == CommunitySpec => []ActiveMembersCovered
BY CommunityInvariance, PTL DEF CInv

\* What MembersCatchUp needs of every step, and what a revocation fixes: no step takes
\* an epoch out of a member's reach; an epoch ceases to be owed by coming within
\* reach or with the membership; and the reach of a revoked member stands still.
ReachKept ==
  [][\A id \in Ids :
       /\ InReach(id) \subseteq InReach(id)'
       /\ status[id] = "Revoked" => InReach(id)' = InReach(id)
       /\ \A e \in Epoch : <<id, e>> \in owed \ owed' =>
            e \in InReach(id)' \/ status'[id] = "Revoked"]_communityVars

\* Neither lost seals nor late grants: keys that were sealed for a member stay
\* where it can fetch them, also when a copy with wrong numbers has displaced
\* them in its ring, and none is sealed for a revoked one.
THEOREM ReachIsKept == CommunitySpec => ReachKept
<1> DEFINE Kept(id) == /\ InReach(id) \subseteq InReach(id)'
                       /\ status[id] = "Revoked" => InReach(id)' = InReach(id)
                       /\ \A e \in Epoch : <<id, e>> \in owed \ owed' =>
                            e \in InReach(id)' \/ status'[id] = "Revoked"
<1>1. ASSUME CInv, [CommunityNext]_communityVars, NEW id \in Ids PROVE Kept(id)
  <2>1. CommunityTypeOK /\ HeldIsStored /\ OwedToActive /\ DOMAIN stored = Ids /\ TypeOK
    BY <1>1 DEF CInv, CommunityTypeOK, IInv
  <2>2. ASSUME UNCHANGED <<stored, ring, owed>> PROVE Kept(id)
    BY <2>2, SameReach
  <2>3. ASSUME NEW ids \in SUBSET Ids, RevokeMembers(ids) PROVE Kept(id)
    <3>1. InReach(id)' = InReach(id)
      BY <2>3, SameReach DEF RevokeMembers
    <3>2. \A e \in Epoch : <<id, e>> \in owed \ owed' => status'[id] # "Active"
      BY <2>3 DEF RevokeMembers
    <3>3. \A e \in Epoch : <<id, e>> \in owed => status[id] = "Active"
      BY <2>1 DEF OwedToActive
    <3>4. status[id] = "Active" => status'[id] \in {"Active", "Revoked"}
      BY <2>1, <2>3 DEF RevokeMembers, Revoke, TypeOK
    <3> QED BY <3>1, <3>2, <3>3, <3>4
  <2>4. CASE Rotate
    BY <2>4, SameReach DEF Rotate
  <2>5. ASSUME NEW a \in Ids, GrantEpochs(a) PROVE Kept(id)
    <3> PICK bundle : bundle = GrantedEpochs
      OBVIOUS
    <3>1. /\ InReach(a)' = InReach(a) \cup EpochsIn(bundle)
          /\ \A m \in Ids \ {a} : InReach(m)' = InReach(m)
      BY <2>1, <2>5, StoreMore DEF GrantEpochs
    <3> QED BY <2>5, <3>1 DEF GrantEpochs
  <2>6. ASSUME NEW a \in Ids, NEW e \in Epoch, GrantSingleEpoch(a, e) PROVE Kept(id)
    <3> PICK bundle : bundle = <<e>>
      OBVIOUS
    <3>1. /\ InReach(a)' = InReach(a) \cup EpochsIn(bundle)
          /\ \A m \in Ids \ {a} : InReach(m)' = InReach(m)
      BY <2>1, <2>6, StoreMore DEF GrantSingleEpoch
    <3>2. EpochsIn(bundle) = {e}
      BY <2>1, BundleEpochs
    <3>3. status[a] = "Active" /\ owed' = owed \ {<<a, e>>}
      BY <2>1, <2>6 DEF OwedToActive, GrantSingleEpoch
    <3> QED BY <3>1, <3>2, <3>3
  <2>7. ASSUME NEW a \in Ids, NEW bundle \in stored[a], AbsorbGrant(a, bundle) PROVE Kept(id)
    <3>1. InReach(id)' = InReach(id)
      BY <2>1, <2>7, AbsorbReachesSame
    <3> QED BY <2>7, <3>1, AbsorbFrame
  <2>8. JoinMember => UNCHANGED <<stored, ring, owed>>
    BY DEF JoinMember
  <2>9. UNCHANGED communityVars => UNCHANGED <<stored, ring, owed>>
    BY DEF communityVars, epochVars
  <2> QED BY <1>1, <2>2, <2>3, <2>4, <2>5, <2>6, <2>7, <2>8, <2>9 DEF CommunityNext
<1>2. ASSUME CInv, [CommunityNext]_communityVars PROVE \A id \in Ids : Kept(id)
  BY <1>1, <1>2
<1> QED BY <1>2, CommunityInvariance, PTL DEF CommunitySpec, ReachKept, Kept

\* The step MembersCatchUp rests on: absorbing an undamaged copy mends the
\* ring.  Each epoch of the bundle is found afterwards, whatever keys copies
\* with wrong numbers had put in its place.
IntactCopyMends ==
  [][\A id \in Ids : \A bundle \in stored[id] :
       AbsorbCopy(id, bundle, bundle, Len(bundle)) =>
         \A e \in EpochsIn(bundle) : Finds(id, e)']_communityVars

\* insert replaces (grant.rs, absorb_grant): no key filed under a wrong number
\* outlives the next undamaged copy.
THEOREM RingIsMended == CommunitySpec => IntactCopyMends
<1>1. ASSUME CInv, NEW id \in Ids, NEW bundle \in stored[id],
             AbsorbCopy(id, bundle, bundle, Len(bundle)), NEW e \in EpochsIn(bundle)
      PROVE  Finds(id, e)'
  <2>1. ring' = [ring EXCEPT ![id] = Filed(@, bundle, bundle, Len(bundle))]
    BY <1>1 DEF AbsorbCopy
  <2>2. /\ bundle \in Seq(0 .. CurrentEpoch)
        /\ ring \in [Ids -> KeyRings(0 .. CurrentEpoch)]
    BY <1>1 DEF CInv, CommunityTypeOK
  <2>3. Len(bundle) \in Nat /\ DOMAIN bundle = 1 .. Len(bundle)
    BY <2>2
  <2> PICK n \in Nat : n = Len(bundle)
    BY <2>3
  <2>4. \E m \in 1 .. n : bundle[m] = e
    BY <2>3 DEF EpochsIn
  <2>5. bundle[LastUnder(bundle, n, e)] = e
    BY <2>4, LastUnderFacts
  <2>6. ring'[id] = Filed(ring[id], bundle, bundle, n)
    BY <2>1, <2>2
  <2>7. e \in DOMAIN ring'[id] /\ ring'[id][e] = e
    BY <2>4, <2>5, <2>6 DEF Filed
  <2> QED BY <2>7 DEF Finds
<1>2. ASSUME CInv
      PROVE  \A id \in Ids : \A bundle \in stored[id] :
               AbsorbCopy(id, bundle, bundle, Len(bundle)) =>
                 \A e \in EpochsIn(bundle) : Finds(id, e)'
  BY <1>1, <1>2
<1> QED BY <1>2, CommunityInvariance, PTL DEF CommunitySpec, IntactCopyMends

-------------------------------------------------------------------------------
(***************************************************************************)
(* Proofs about Group, for any number of members, verifiers, messages and  *)
(* keys.  A step of the group is a step of the manager or leaves it alone, *)
(* so the manager's invariant carries over.  What verifiers answer needs   *)
(* to know where the signatures come from (SignedWithOwnKey), that a copy  *)
(* of the list is an old list (CopiesAreOld) and what it says of each      *)
(* member as a whole (CopiesPerMember): either the copy was taken while    *)
(* the member was not revoked, and lists no leaf of its interval, issued   *)
(* or not, or it was taken after, and lists every key the member has.      *)
(***************************************************************************)
SignedWithOwnKey == \A s \in sigs : s.key \in wallet[s.by]

CopiesAreOld == \A v \in Verifiers : rl_copy[v] \subseteq rl

\* The tags of the leaves member id owns, except the one it leaves unused.
OwnTags(id) == {t \in DgmtPos : \E l \in 0 .. LastLocal : t[4] = LAbsolute(id, l)}

ListsNone(id, list) == OwnTags(id) \cap list = {}

ListsAll(id, list) ==
  status[id] = "Revoked" /\ \A key \in KeysOf(id) : key.dgmt_pos \in list

CopiesPerMember ==
  \A v \in Verifiers, id \in Ids :
    ListsNone(id, rl_copy[v]) \/ ListsAll(id, rl_copy[v])

GInv ==
  /\ IInv
  /\ GroupTypeOK
  /\ SignedWithOwnKey
  /\ CopiesAreOld
  /\ CopiesPerMember

-------------------------------------------------------------------------------
(***************************************************************************)
(* Facts about keys.                                                       *)
(***************************************************************************)
\* What a member received is shaped by build_signing_key: indices, leaf and tag
\* belong together.
LEMMA KeyShape ==
  ASSUME IInv, NEW id \in Ids, NEW key \in KeysOf(id)
  PROVE  /\ key \in SigningKey
         /\ key.dgmt_pos \in OwnTags(id)
         /\ \E l \in 0 .. LastLocal :
              /\ key.dgmt_pos = <<key.i, key.j, key.k, LAbsolute(id, l)>>
              /\ key.l_prime = Shuffle[<<key.i, key.j, key.k>>][LAbsolute(id, l)]
<1>1. key \in SigningKey /\ KeyOfMember(id, key)
  BY KeysOfType
<1>2. key.dgmt_pos \in DgmtPos
  BY <1>1 DEF SigningKey
<1> QED BY <1>1, <1>2 DEF KeyOfMember, OwnTags

\* fk_idx of an index pair in range is in range.
LEMMA FallbackKeyExists ==
  ASSUME NEW i \in Fn, NEW j \in Smtmt
  PROVE  (i - 1) * Gamma + (j - 1) < NumFn * Gamma
<1>1. i - 1 \in Nat /\ NumFn \in Nat /\ i - 1 <= NumFn - 1 /\ j - 1 <= Gamma - 1
      /\ Gamma \in Nat /\ j \in Nat
  BY ParamTypes, ParamsAssumption DEF Fn, Smtmt
<1>2. (i - 1) * Gamma <= (NumFn - 1) * Gamma
  BY <1>1
<1>3. (NumFn - 1) * Gamma = NumFn * Gamma - Gamma
  BY <1>1
<1>4. (i - 1) * Gamma \in Int /\ NumFn * Gamma \in Int
  BY <1>1
<1> QED BY <1>1, <1>2, <1>3, <1>4

\* A signature of a key some member has fails for no reason but the list.
LEMMA OnlyTheListRejects ==
  ASSUME IInv, NEW id \in Ids, NEW key \in KeysOf(id), NEW list
  PROVE  Verifies(key, list) <=> key.dgmt_pos \notin list
<1>1. PICK l \in 0 .. LastLocal :
        /\ key.dgmt_pos = <<key.i, key.j, key.k, LAbsolute(id, l)>>
        /\ key.l_prime = Shuffle[<<key.i, key.j, key.k>>][LAbsolute(id, l)]
  BY KeyShape
<1>2. LAbsolute(id, l) \in Leaf
  BY LocalIndex
<1>3. key.dgmt_pos \in LeafTags(key.i, key.j, key.k, key.l_prime)
  BY <1>1, <1>2 DEF LeafTags
<1>4. key.i \in Fn /\ key.j \in Smtmt
  BY KeyShape DEF SigningKey
<1> QED BY <1>3, <1>4, FallbackKeyExists DEF Verifies

\* Nobody owns a leaf of another member.
LEMMA IntervalsDisjoint ==
  ASSUME NEW a \in Ids, NEW b \in Ids, NEW t \in OwnTags(a), t \in OwnTags(b)
  PROVE  a = b
<1>1. PICK l \in 0 .. LastLocal : t[4] = LAbsolute(a, l)
  BY DEF OwnTags
<1>2. PICK m \in 0 .. LastLocal : t[4] = LAbsolute(b, m)
  BY DEF OwnTags
<1> QED BY <1>1, <1>2, LocalIndex, LAbsoluteInjective

\* dgmt_open divides a tag's leaf by beta and finds whose interval it is in.
LEMMA TagOpensToOwner ==
  ASSUME NEW id \in Ids, NEW t \in OwnTags(id)
  PROVE  OpenTag(t) = id
<1>1. PICK l \in 0 .. LastLocal : t[4] = LAbsolute(id, l)
  BY DEF OwnTags
<1>2. t[4] \div Beta = id - 1 /\ id \in Int
  BY <1>1, LocalIndex, IntervalDivision, ParamsAssumption DEF Ids
<1>3. /\ t[1] \in 1 .. NumFn /\ t[2] \in 1 .. Gamma
      /\ t[3] < Alpha /\ t[4] < Alpha
  BY ParamTypes DEF OwnTags, DgmtPos, Fn, Smtmt, Leaf
<1>4. (t[4] \div Beta) + 1 = id
  BY <1>2
<1> QED BY <1>3, <1>4 DEF OpenTag, Ids

-------------------------------------------------------------------------------
(***************************************************************************)
(* Facts about the list.                                                   *)
(***************************************************************************)
\* The current list says the same of all keys of a member.
LEMMA ListPerMember ==
  ASSUME IInv, NEW id \in Ids
  PROVE  IF status[id] = "Revoked" THEN ListsAll(id, rl) ELSE ListsNone(id, rl)
<1>1. CASE status[id] = "Revoked"
  BY <1>1, ListsExactly DEF RevokedKeysListed, ListsAll
<1>2. CASE status[id] # "Revoked"
  <2> SUFFICES ASSUME NEW t \in OwnTags(id), t \in rl PROVE FALSE
    BY <1>2 DEF ListsNone
  <2>1. t \in DgmtPos
    BY DEF OwnTags
  <2>2. PICK a \in Ids : status[a] = "Revoked" /\ t \in WalkedTags(a)
    BY <2>1 DEF IInv, RlExact
  <2>3. t \in OwnTags(a)
    BY <2>1, <2>2 DEF WalkedTags, OwnTags
  <2> QED BY <1>2, <2>2, <2>3, IntervalsDisjoint
<1> QED BY <1>1, <1>2

\* A step of the manager takes nothing off the list and no key out of a wallet.
LEMMA ManagerOnlyAdds ==
  ASSUME TypeOK, [Next]_vars
  PROVE  rl \subseteq rl' /\ \A id \in Ids : wallet[id] \subseteq wallet'[id]
<1>1. CASE Join
  BY <1>1 DEF Join
<1>2. ASSUME NEW a \in Ids, NEW b \in Requests, KeyDistBegin(a, b)
      PROVE  rl \subseteq rl' /\ \A id \in Ids : wallet[id] \subseteq wallet'[id]
  BY <1>2 DEF KeyDistBegin
<1>3. ASSUME NEW a \in Ids, KeyDistStep(a)
      PROVE  rl \subseteq rl' /\ \A id \in Ids : wallet[id] \subseteq wallet'[id]
  BY <1>3 DEF TypeOK, KeyDistStep, KeyDistAllocate, KeyDistMiss, KeyDistGiveUp, KeyDistReturn
<1>4. ASSUME NEW ids \in SUBSET Ids, Revoke(ids)
      PROVE  rl \subseteq rl' /\ \A id \in Ids : wallet[id] \subseteq wallet'[id]
  BY <1>4 DEF Revoke
<1>5. CASE UNCHANGED vars
  BY <1>5 DEF vars
<1> QED BY <1>1, <1>2, <1>3, <1>4, <1>5 DEF Next

-------------------------------------------------------------------------------
(***************************************************************************)
(* The invariant.                                                          *)
(***************************************************************************)
LEMMA InitGInv == GroupInit => GInv
<1> SUFFICES ASSUME GroupInit PROVE GInv
  OBVIOUS
<1>1. IInv
  BY InitInv DEF GroupInit
<1> QED BY <1>1 DEF GInv, GroupInit, GroupTypeOK, SignedWithOwnKey, CopiesAreOld,
                   CopiesPerMember, ListsNone, IInv

LEMMA ManagerStepGInv == GInv /\ ManagerStep => GInv'
<1> SUFFICES ASSUME GInv, ManagerStep PROVE GInv'
  OBVIOUS
<1>1. [Next]_vars /\ UNCHANGED <<sigs, rl_copy>>
  BY DEF ManagerStep
<1>2. IInv'
  BY <1>1, NextInv DEF GInv
<1>3. GroupTypeOK'
  BY <1>1, <1>2 DEF GInv, GroupTypeOK, IInv
<1>4. rl \subseteq rl' /\ \A id \in Ids : wallet[id] \subseteq wallet'[id]
  BY <1>1, ManagerOnlyAdds DEF GInv, IInv
<1>5. SignedWithOwnKey'
  BY <1>1, <1>4 DEF GInv, GroupTypeOK, SignedWithOwnKey, DgmtSignature
<1>6. CopiesAreOld'
  BY <1>1, <1>4 DEF GInv, CopiesAreOld
<1>7. CopiesPerMember'
  <2> SUFFICES ASSUME NEW v \in Verifiers, NEW id \in Ids
               PROVE  ListsNone(id, rl_copy[v])' \/ ListsAll(id, rl_copy[v])'
    BY DEF CopiesPerMember
  <2>1. CASE ListsNone(id, rl_copy[v])
    BY <1>1, <2>1 DEF ListsNone
  <2>2. CASE ListsAll(id, rl_copy[v])
    BY <1>1, <2>2, RevocationStep DEF GInv, ListsAll
  <2> QED BY <2>1, <2>2 DEF GInv, CopiesPerMember
<1> QED BY <1>2, <1>3, <1>5, <1>6, <1>7 DEF GInv

\* A step that leaves the manager alone.
LEMMA ManagerUnchanged ==
  ASSUME IInv, UNCHANGED vars
  PROVE  /\ IInv'
         /\ \A id \in Ids : KeysOf(id)' = KeysOf(id)
<1>1. IInv'
  BY NextInv
<1> QED BY <1>1 DEF vars, KeysOf

LEMMA SignGInv ==
  ASSUME GInv, NEW id \in Ids, NEW message \in Messages, NEW key \in wallet[id],
         Sign(id, key, message)
  PROVE  GInv'
<1>1. UNCHANGED vars /\ UNCHANGED rl_copy
      /\ sigs' = sigs \cup {[by |-> id, message |-> message, key |-> key]}
  BY DEF Sign
<1>2. IInv' /\ \A a \in Ids : KeysOf(a)' = KeysOf(a)
  BY <1>1, ManagerUnchanged DEF GInv
<1>3. UNCHANGED <<status, wallet, rl>>
  BY <1>1 DEF vars
<1>4. key \in SigningKey
  BY DEF GInv, IInv, TypeOK
<1>5. GroupTypeOK'
  BY <1>1, <1>2, <1>4 DEF GInv, IInv, GroupTypeOK, DgmtSignature
<1>6. SignedWithOwnKey'
  BY <1>1, <1>3 DEF GInv, SignedWithOwnKey
<1>7. CopiesAreOld' /\ CopiesPerMember'
  BY <1>1, <1>2, <1>3 DEF GInv, CopiesAreOld, CopiesPerMember, ListsNone, ListsAll
<1> QED BY <1>2, <1>5, <1>6, <1>7 DEF GInv

LEMMA DownloadRlGInv ==
  ASSUME GInv, NEW u \in Verifiers, DownloadRl(u)
  PROVE  GInv'
<1>1. UNCHANGED vars /\ UNCHANGED sigs /\ rl_copy' = [rl_copy EXCEPT ![u] = rl]
  BY DEF DownloadRl
<1>2. IInv' /\ \A a \in Ids : KeysOf(a)' = KeysOf(a)
  BY <1>1, ManagerUnchanged DEF GInv
<1>3. UNCHANGED <<status, wallet, rl>>
  BY <1>1 DEF vars
<1>4. \A v \in Verifiers : rl_copy'[v] = IF v = u THEN rl ELSE rl_copy[v]
  BY <1>1 DEF GInv, GroupTypeOK
<1>5. GroupTypeOK'
  BY <1>1, <1>2 DEF GInv, IInv, TypeOK, GroupTypeOK
<1>6. SignedWithOwnKey' /\ CopiesAreOld'
  BY <1>1, <1>3, <1>4 DEF GInv, SignedWithOwnKey, CopiesAreOld
<1>7. CopiesPerMember'
  <2> SUFFICES ASSUME NEW v \in Verifiers, NEW id \in Ids
               PROVE  ListsNone(id, rl_copy'[v]) \/ ListsAll(id, rl_copy'[v])
    BY <1>2, <1>3 DEF CopiesPerMember, ListsNone, ListsAll
  <2>1. CASE v = u
    BY <1>4, <2>1, ListPerMember DEF GInv
  <2>2. CASE v # u
    BY <1>4, <2>2 DEF GInv, CopiesPerMember
  <2> QED BY <2>1, <2>2
<1> QED BY <1>2, <1>5, <1>6, <1>7 DEF GInv

LEMMA NextGInv == GInv /\ [GroupNext]_groupVars => GInv'
<1> SUFFICES ASSUME GInv, [GroupNext]_groupVars PROVE GInv'
  OBVIOUS
<1>1. CASE ManagerStep
  BY <1>1, ManagerStepGInv
<1>2. ASSUME NEW id \in Ids, NEW message \in Messages, NEW key \in wallet[id],
             Sign(id, key, message)
      PROVE  GInv'
  BY <1>2, SignGInv
<1>3. ASSUME NEW v \in Verifiers, DownloadRl(v)
      PROVE  GInv'
  BY <1>3, DownloadRlGInv
<1>4. CASE UNCHANGED groupVars
  <2>1. UNCHANGED vars /\ UNCHANGED <<sigs, rl_copy>>
    BY <1>4 DEF groupVars
  <2>2. IInv' /\ \A a \in Ids : KeysOf(a)' = KeysOf(a)
    BY <2>1, ManagerUnchanged DEF GInv
  <2>3. UNCHANGED <<status, wallet, rl>>
    BY <2>1 DEF vars
  <2> QED BY <2>1, <2>2, <2>3
          DEF GInv, IInv, GroupTypeOK, SignedWithOwnKey, CopiesAreOld, CopiesPerMember,
              ListsNone, ListsAll
<1> QED BY <1>1, <1>2, <1>3, <1>4 DEF GroupNext

LEMMA AlwaysGInv == GroupSpec => []GInv
BY InitGInv, NextGInv, PTL DEF GroupSpec

-------------------------------------------------------------------------------
(***************************************************************************)
(* What follows from it.                                                   *)
(***************************************************************************)
\* The key of a signature is one of its signer's.
LEMMA SignersKey ==
  ASSUME GInv, NEW s \in sigs
  PROVE  s.by \in Ids /\ s.key \in KeysOf(s.by) /\ s.key.dgmt_pos \in OwnTags(s.by)
<1>1. s.by \in Ids /\ s.key \in KeysOf(s.by)
  BY DEF GInv, GroupTypeOK, DgmtSignature, SignedWithOwnKey, KeysOf
<1> QED BY <1>1, KeyShape DEF GInv

\* Every variable of the group keeps its type.
THEOREM GroupTypes == GroupSpec => []GroupTypeOK
<1>1. GInv => GroupTypeOK
  BY DEF GInv
<1> QED BY <1>1, AlwaysGInv, PTL

\* dgmt_verify with the current parameters accepts the signatures of active
\* members, all of them, and of nobody else, however old the signature.
THEOREM VerdictFollowsStatus == GroupSpec => []CurrentListVerdict
<1>1. GInv => CurrentListVerdict
  <2> SUFFICES ASSUME GInv, NEW s \in sigs
               PROVE  Verifies(s.key, rl) <=> status[s.by] = "Active"
    BY DEF CurrentListVerdict
  <2>1. Verifies(s.key, rl) <=> s.key.dgmt_pos \notin rl
    BY SignersKey, OnlyTheListRejects DEF GInv
  <2>2. status[s.by] \in {"Active", "Revoked"}
    BY SignersKey DEF GInv, IInv, TypeOK, Unjoined, SignedWithOwnKey
  <2> QED BY <2>1, <2>2, SignersKey, ListsExactly
          DEF GInv, RevokedKeysListed, ActiveKeysNotListed
<1> QED BY <1>1, AlwaysGInv, PTL

\* A verifier that never downloads again errs on one side only: it may accept a
\* revoked member, it never turns an active one down.
THEOREM StaleListsAreSafeForActive == GroupSpec => []OldListAcceptsActive
<1>1. GInv => OldListAcceptsActive
  <2> SUFFICES ASSUME GInv, NEW v \in Verifiers, NEW s \in sigs, status[s.by] = "Active"
               PROVE  Verifies(s.key, rl_copy[v])
    BY DEF OldListAcceptsActive
  <2>1. s.key.dgmt_pos \notin rl
    BY SignersKey, ListsExactly DEF GInv, ActiveKeysNotListed
  <2>2. s.key.dgmt_pos \notin rl_copy[v]
    BY <2>1 DEF GInv, CopiesAreOld
  <2> QED BY <2>2, SignersKey, OnlyTheListRejects DEF GInv
<1> QED BY <1>1, AlwaysGInv, PTL

\* No copy of the list, of whatever age, separates two signatures of a member,
\* not even those made after the copy was taken.
THEOREM VerdictsAgreePerMember == GroupSpec => []VerdictIsPerMember
<1>1. GInv => VerdictIsPerMember
  <2> SUFFICES ASSUME GInv, NEW v \in Verifiers, NEW s \in sigs, NEW t \in sigs, s.by = t.by
               PROVE  Verifies(s.key, rl_copy[v]) <=> Verifies(t.key, rl_copy[v])
    BY DEF VerdictIsPerMember
  <2>1. s.by \in Ids /\ s.key \in KeysOf(s.by) /\ t.key \in KeysOf(s.by)
    BY SignersKey
  <2>2. \/ ListsNone(s.by, rl_copy[v])
        \/ ListsAll(s.by, rl_copy[v])
    BY <2>1 DEF GInv, CopiesPerMember
  <2>3. s.key.dgmt_pos \in rl_copy[v] <=> t.key.dgmt_pos \in rl_copy[v]
    BY <2>1, <2>2, SignersKey DEF ListsNone, ListsAll
  <2> QED BY <2>1, <2>3, OnlyTheListRejects DEF GInv
<1> QED BY <1>1, AlwaysGInv, PTL

\* dgmt_open names the signer of every signature, and the indices it recovers
\* are those in the signature.
THEOREM OpeningsAreTrue == GroupSpec => []OpeningIdentifiesSigner
<1>1. GInv => OpeningIdentifiesSigner
  <2> SUFFICES ASSUME GInv, NEW s \in sigs
               PROVE  /\ OpenTag(s.key.dgmt_pos) = s.by
                      /\ OpenConsistent(s.key.dgmt_pos, s.key)
    BY DEF OpeningIdentifiesSigner
  <2>1. OpenTag(s.key.dgmt_pos) = s.by
    BY SignersKey, TagOpensToOwner
  <2>2. OpenConsistent(s.key.dgmt_pos, s.key)
    <3>1. PICK l \in 0 .. LastLocal :
            s.key.dgmt_pos = <<s.key.i, s.key.j, s.key.k, LAbsolute(s.by, l)>>
      BY SignersKey, KeyShape DEF GInv
    <3> QED BY <3>1 DEF OpenConsistent
  <2> QED BY <2>1, <2>2
<1> QED BY <1>1, AlwaysGInv, PTL

\* Downloading again takes no rejection back.
THEOREM RejectionsStay == GroupSpec => RejectionIsFinal
<1> DEFINE Stays == \A v \in Verifiers : \A s \in sigs :
                      ~ Verifies(s.key, rl_copy[v]) => ~ Verifies(s.key, rl_copy'[v])
<1>1. GInv /\ [GroupNext]_groupVars => [Stays]_groupVars
  <2> SUFFICES ASSUME GInv, GroupNext, NEW v \in Verifiers
               PROVE  rl_copy[v] \subseteq rl_copy'[v]
    BY DEF Verifies
  <2>1. CASE rl_copy' = rl_copy
    BY <2>1
  <2>2. ASSUME NEW u \in Verifiers, DownloadRl(u)
        PROVE  rl_copy[v] \subseteq rl_copy'[v]
    BY <2>2 DEF GInv, GroupTypeOK, CopiesAreOld, DownloadRl
  <2> QED BY <2>1, <2>2 DEF GroupNext, ManagerStep, Sign
<1> HIDE DEF Stays
<1>2. GroupSpec => [][Stays]_groupVars
  BY <1>1, AlwaysGInv, PTL DEF GroupSpec
<1> QED BY <1>2 DEF Stays, RejectionIsFinal

===============================================================================
