------------------------------ MODULE RevokeWalk ------------------------------
(***************************************************************************)
(* The two loops that walk one member's leaves under one fallback node:    *)
(* dgmt_key_dist moves the pointer forward one leaf per key, dgmt_revoke   *)
(* later walks from (1, 0, 0) to the pointer with code of its own, and     *)
(* revocation_entry_count predicts how long that walk is.  Manager takes   *)
(* the walk in one step, as a set; this module has its iterations.         *)
(*                                                                         *)
(* Source: crates/knee-tie-crypto/src/dgmt/{join,revoke}.rs.               *)
(***************************************************************************)
EXTENDS DgmtParams

CONSTANT MaxWalks   \* bound: how often the member is revoked

ASSUME MaxWalksAssumption == MaxWalks \in Nat

VARIABLES
  pc,          \* "dist" before the revocation, "walk" in its loop, "done"
  pointer,     \* index_state[i-1]
  allocated,   \* history: the pointers at which keys were built
  at,          \* (j, k, l) of the walk
  listed,      \* this member's entries of RL under this node
  pushes,      \* how many times this walk called rl.push
  walks        \* how many walks have started

vars == <<pc, pointer, allocated, at, listed, pushes, walks>>

Init ==
  /\ pc = "dist"
  /\ pointer = FirstPtr
  /\ allocated = {}
  /\ at = FirstPtr
  /\ listed = {}
  /\ pushes = 0
  /\ walks = 0

\* One iteration of dgmt_key_dist that picked this node.
Allocate ==
  /\ pc = "dist"
  /\ ~ Exhausted(pointer)
  /\ pointer' = Advance(pointer)
  /\ allocated' = allocated \cup {pointer'}
  /\ UNCHANGED <<pc, at, listed, pushes, walks>>

\* dgmt_revoke reaches this node; a second call for the same id does again.
StartWalk ==
  /\ pc \in {"dist", "done"}
  /\ walks < MaxWalks
  /\ walks' = walks + 1
  /\ pc' = "walk"
  /\ at' = FirstPtr
  /\ pushes' = 0
  /\ UNCHANGED <<pointer, allocated, listed>>

\* The else branch of the walk: "Should not happen if record is consistent."
WalkIsStuck(p) == ~ p[3] < Beta - 2 /\ ~ p[2] < Alpha - 1 /\ ~ p[1] < Gamma

\* Mutant: l is not reset on the step to the next SMT(2).
WalkAdvanceKeepingL(p) ==
  IF p[3] < Beta - 2 THEN <<p[1], p[2], p[3] + 1>>
  ELSE IF p[2] < Alpha - 1 THEN <<p[1], p[2] + 1, p[3]>>
  ELSE <<p[1] + 1, 0, 0>>

\* Mutant: the bound on k is off by one.
WalkAdvancePastAlpha(p) ==
  IF p[3] < Beta - 2 THEN <<p[1], p[2], p[3] + 1>>
  ELSE IF p[2] < Alpha THEN <<p[1], p[2] + 1, 0>>
  ELSE <<p[1] + 1, 0, 0>>

\* Mutant: the step to the next SMTMT forgets to increment j.
WalkAdvanceWithinSmtmt(p) ==
  IF p[3] < Beta - 2 THEN <<p[1], p[2], p[3] + 1>>
  ELSE IF p[2] < Alpha - 1 THEN <<p[1], p[2] + 1, 0>>
  ELSE <<p[1], 0, 0>>

WalkAdvance(p) ==
  IF p[3] < Beta - 2 THEN <<p[1], p[2], p[3] + 1>>
  ELSE IF p[2] < Alpha - 1 THEN <<p[1], p[2] + 1, 0>>
  ELSE <<p[1] + 1, 0, 0>>

\* Mutant: the walk tests for the pointer before it lists it.
WalkStepTestFirst ==
  /\ pc = "walk"
  /\ IF at = pointer \/ WalkIsStuck(at)
     THEN pc' = "done" /\ UNCHANGED <<at, listed, pushes>>
     ELSE /\ at' = WalkAdvance(at)
          /\ listed' = listed \cup {at}
          /\ pushes' = IF at \in listed THEN pushes ELSE pushes + 1
          /\ UNCHANGED pc
  /\ UNCHANGED <<pointer, allocated, walks>>

WalkStep ==
  /\ pc = "walk"
  /\ listed' = listed \cup {at}
  /\ pushes' = IF at \in listed THEN pushes ELSE pushes + 1
  /\ IF at = pointer \/ WalkIsStuck(at)
     THEN pc' = "done" /\ UNCHANGED at
     ELSE at' = WalkAdvance(at) /\ UNCHANGED pc
  /\ UNCHANGED <<pointer, allocated, walks>>

Next == Allocate \/ StartWalk \/ WalkStep

\* The walk is a loop of one function call: once in it, it goes on.
Spec == Init /\ [][Next]_vars /\ WF_vars(WalkStep)

\* One term of the sum in revocation_entry_count.
EntryCount(p) == (p[1] - 1) * Alpha * Beta + p[2] * Beta + p[3] + 1

-------------------------------------------------------------------------------
\* Every variable has its type; both pointers stay in the index space.
TypeOK ==
  /\ pc \in {"dist", "walk", "done"}
  /\ pointer \in Pointer
  /\ allocated \in SUBSET Pointer
  /\ at \in Pointer
  /\ listed \in SUBSET Pointer
  /\ pushes \in Nat
  /\ walks \in 0 .. MaxWalks

\* The walk of dgmt_revoke and the pointer moves of dgmt_key_dist agree on the
\* order: a finished walk has listed every key that was built and, besides
\* them, only the starting position.
WalkListsAllocated == pc = "done" => listed = allocated \cup {FirstPtr}

\* What Manager writes in one step as WalkedTags: everything up to the pointer.
WalkListsInterval ==
  pc = "done" => listed = {p \in Pointer : AtOrBefore(p, pointer)}

\* The walk ends.
WalkTerminates == pc = "walk" ~> pc = "done"

\* revocation_entry_count is the "number of DGMT.pos entries that would be
\* added to RL for a member" (revoke.rs).
EntryCountIsExact == pc = "done" /\ walks = 1 => pushes = EntryCount(pointer)
===============================================================================
