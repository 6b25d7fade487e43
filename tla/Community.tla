------------------------------- MODULE Community -------------------------------
(***************************************************************************)
(* A community: the membership of module Manager composed with the epoch   *)
(* keys posts are encrypted under.  The manager rotates the epoch after a  *)
(* revocation and seals the new key for each remaining member; sealed keys *)
(* wait on the server, from which members fetch them when they like, as    *)
(* often as they like and in any order.                                    *)
(*                                                                         *)
(* The key of an epoch is fresh and is represented by the number it was    *)
(* made with.  Its epoch_number field is another matter: seal.rs sends it  *)
(* in the clear beside the ciphertext, which does not cover it, so in a    *)
(* copy that opens it may be any number.                                   *)
(*                                                                         *)
(* Source: crates/knee-tie-crypto/src/epoch/{key,seal,grant}.rs.           *)
(***************************************************************************)
EXTENDS Manager

CONSTANTS
  MaxEpochs,     \* bound: epochs of the history
  WrongNumbers   \* bound: per member, numbers that copies may have by mistake

ASSUME MaxEpochsAssumption == MaxEpochs \in Nat \ {0}

VARIABLES
  policy,         \* HistoryAccessPolicy, configured by the founder
  epoch_count,    \* EpochHistory.epochs.len()
  rotation_due,   \* dgmt_revoke has run, rotate has not
  welcomed,       \* members that were granted epochs by grant_epochs
  owed,           \* <<member, epoch>>: grant_single_epoch still to be called
  stored,         \* per member, the bundles sealed for it, on the server
  ring,           \* per member, MemberEpochKeyRing.keys: from numbers to keys
  join_epoch,     \* history: the current epoch when the member joined
  grant_epoch,    \* history: the current epoch when grant_epochs ran
  last_epoch      \* history: the current epoch when the member was revoked

epochVars == <<policy, epoch_count, rotation_due, welcomed, owed, stored, ring,
               join_epoch, grant_epoch, last_epoch>>

communityVars == <<vars, epochVars>>

Epoch        == 0 .. MaxEpochs - 1
CurrentEpoch == epoch_count - 1

\* What an epoch_number field holds; MaxEpochs is any number without an epoch.
Number == 0 .. MaxEpochs

EpochsIn(bundle) == {bundle[n] : n \in DOMAIN bundle}

\* Mutant: the slice starts one epoch late.
EpochsFromExclusive(start) ==
  [n \in 1 .. epoch_count - start - 1 |-> start + n]

\* EpochHistory.epochs_from for a start that is in the history.
EpochsFrom(start) == [n \in 1 .. epoch_count - start |-> start + n - 1]

CommunityInit ==
  /\ Init
  /\ policy \in {"FullHistory", "FromJoinDate"}
  /\ epoch_count  = 1
  /\ rotation_due = FALSE
  /\ welcomed     = {}
  /\ owed         = {}
  /\ stored       = [id \in Ids |-> {}]
  /\ ring         = [id \in Ids |-> <<>>]
  /\ join_epoch   = [id \in Ids |-> 0]
  /\ grant_epoch  = [id \in Ids |-> 0]
  /\ last_epoch   = [id \in Ids |-> 0]

-------------------------------------------------------------------------------
(***************************************************************************)
(* The manager.                                                            *)
(***************************************************************************)
JoinMember ==
  /\ Join
  /\ join_epoch' = [join_epoch EXCEPT ![next_id] = CurrentEpoch]
  /\ UNCHANGED <<policy, epoch_count, rotation_due, welcomed, owed, stored, ring,
                 grant_epoch, last_epoch>>

\* Mutant: the policy is ignored.
GrantedEpochsOfAnyPolicy == EpochsFrom(0)

\* What grant_epochs seals: the whole history or a slice of the current epoch.
GrantedEpochs ==
  CASE policy = "FullHistory"  -> EpochsFrom(0)
    [] policy = "FromJoinDate" -> <<CurrentEpoch>>

\* grant_epochs for a member that has joined.  When one seal fails the call
\* returns no bundle at all and nothing has changed: the caller tries again,
\* maybe after a rotation.
GrantEpochs(id) ==
  /\ status[id] = "Active"
  /\ id \notin welcomed
  /\ welcomed' = welcomed \cup {id}
  /\ stored' = [stored EXCEPT ![id] = @ \cup {GrantedEpochs}]
  /\ grant_epoch' = [grant_epoch EXCEPT ![id] = CurrentEpoch]
  /\ UNCHANGED <<vars, policy, epoch_count, rotation_due, owed, ring, join_epoch,
                 last_epoch>>

\* dgmt_revoke: the epoch must rotate, and who is revoked now is not among
\* "every remaining active member" of an earlier rotation any more.
RevokeMembers(ids) ==
  /\ Revoke(ids)
  /\ rotation_due' = TRUE
  /\ owed' = {o \in owed : status'[o[1]] = "Active"}
  /\ last_epoch' = [id \in Ids |-> IF id \in ids /\ status[id] = "Active"
                                   THEN CurrentEpoch ELSE last_epoch[id]]
  /\ UNCHANGED <<policy, epoch_count, welcomed, stored, ring,
                 join_epoch, grant_epoch>>

\* Mutant: the number is read after the key was pushed.
RotateNumberedAfterPush ==
  /\ rotation_due
  /\ epoch_count < MaxEpochs
  /\ rotation_due' = FALSE
  /\ epoch_count' = epoch_count + 1
  /\ owed' = owed \cup {<<id, epoch_count'>> : id \in {m \in Ids : status[m] = "Active"}}
  /\ UNCHANGED <<vars, policy, welcomed, stored, ring,
                 join_epoch, grant_epoch, last_epoch>>

\* Mutant: the caller seals the new key for every member it has a record of.
RotateForEveryone ==
  /\ rotation_due
  /\ epoch_count < MaxEpochs
  /\ rotation_due' = FALSE
  /\ epoch_count' = epoch_count + 1
  /\ owed' = owed \cup {<<id, epoch_count>> : id \in {m \in Ids : status[m] # "None"}}
  /\ UNCHANGED <<vars, policy, welcomed, stored, ring,
                 join_epoch, grant_epoch, last_epoch>>

\* EpochHistory.rotate; the caller "must then seal and distribute" the key it
\* returns "to every remaining active member".
Rotate ==
  /\ rotation_due
  /\ epoch_count < MaxEpochs
  /\ rotation_due' = FALSE
  /\ epoch_count' = epoch_count + 1
  /\ owed' = owed \cup {<<id, epoch_count>> : id \in {m \in Ids : status[m] = "Active"}}
  /\ UNCHANGED <<vars, policy, welcomed, stored, ring,
                 join_epoch, grant_epoch, last_epoch>>

\* grant_single_epoch, one iteration of the caller's loop over the members.
GrantSingleEpoch(id, e) ==
  /\ <<id, e>> \in owed
  /\ owed' = owed \ {<<id, e>>}
  /\ stored' = [stored EXCEPT ![id] = @ \cup {<<e>>}]
  /\ UNCHANGED <<vars, policy, epoch_count, rotation_due, welcomed, ring,
                 join_epoch, grant_epoch, last_epoch>>

-------------------------------------------------------------------------------
(***************************************************************************)
(* A member.                                                               *)
(***************************************************************************)
\* The last of the first n keys with epoch_number x.
LastUnder(number, n, x) ==
  CHOOSE m \in 1 .. n : number[m] = x /\ \A o \in m + 1 .. n : number[o] # x

\* Mutant: a key is filed only under a number that has none yet.
FiledIfAbsent(keys, bundle, number, n) ==
  [x \in DOMAIN keys \cup {number[m] : m \in 1 .. n} |->
     IF x \in DOMAIN keys THEN keys[x] ELSE bundle[LastUnder(number, n, x)]]

\* keys.insert for the first n keys of a bundle, each under the number it has in
\* the copy: a later key takes the place of an earlier one.
Filed(keys, bundle, number, n) ==
  [x \in DOMAIN keys \cup {number[m] : m \in 1 .. n} |->
     IF \E m \in 1 .. n : number[m] = x THEN bundle[LastUnder(number, n, x)]
     ELSE keys[x]]

\* The epoch_number fields of a copy: any of them may differ from what was sealed.
NumbersInCopy(id, bundle) ==
  {number \in [DOMAIN bundle -> Number] :
     \A m \in DOMAIN bundle : number[m] = bundle[m] \/ number[m] \in WrongNumbers[id]}

AbsorbCopy(id, bundle, number, n) ==
  /\ ring' = [ring EXCEPT ![id] = Filed(@, bundle, number, n)]
  /\ UNCHANGED <<vars, policy, epoch_count, rotation_due, welcomed, owed, stored,
                 join_epoch, grant_epoch, last_epoch>>

\* absorb_grant, or absorb_single for a bundle of one: keys are opened in order
\* and the call returns at the first one that does not open, say because its
\* ciphertext is damaged.  Keys opened before it, n of them, are in the ring.
AbsorbGrant(id, bundle) ==
  \E number \in NumbersInCopy(id, bundle), n \in 0 .. Len(bundle) :
    AbsorbCopy(id, bundle, number, n)

CommunityNext ==
  \/ JoinMember
  \/ \E ids \in SUBSET Ids : RevokeMembers(ids)
  \/ Rotate
  \/ \E id \in Ids :
       \/ GrantEpochs(id)
       \/ \E e \in Epoch : GrantSingleEpoch(id, e)
       \/ \E bundle \in stored[id] : AbsorbGrant(id, bundle)

\* MemberEpochKeyRing::get finds the epoch's own key.
Finds(id, e) == e \in DOMAIN ring[id] /\ ring[id][e] = e

\* A fetch, for a key that is missing, of an undamaged copy of a bundle with it.
FetchIntact(id, e) ==
  /\ ~ Finds(id, e)
  /\ \E bundle \in stored[id] :
       /\ e \in EpochsIn(bundle)
       /\ AbsorbCopy(id, bundle, bundle, Len(bundle))

\* The caller meets the obligations the doc comments give it: grant_epochs "at
\* join time", grant_single_epoch "to every remaining active member"; a member
\* goes on fetching as long as it cannot read an epoch, and not every copy it is
\* given is damaged.
CommunityFairness ==
  \A id \in Ids :
    /\ WF_communityVars(GrantEpochs(id))
    /\ WF_communityVars(\E e \in Epoch : GrantSingleEpoch(id, e))
    /\ \A e \in Epoch : WF_ring(FetchIntact(id, e))

CommunitySpec == CommunityInit /\ [][CommunityNext]_communityVars /\ CommunityFairness

-------------------------------------------------------------------------------
KeysHeld(id)   == {ring[id][x] : x \in DOMAIN ring[id]}
KeysStored(id) == UNION {EpochsIn(bundle) : bundle \in stored[id]}

\* The epochs a member can read: keys it has, under whatever number, or can
\* fetch and open.
InReach(id) == KeysHeld(id) \cup KeysStored(id)

\* Maps from numbers to keys.
KeyRings(keys) == UNION {[N -> keys] : N \in SUBSET Number}

\* Every variable has its type; no key is owed, sealed or held for an epoch
\* that the history does not hold.
CommunityTypeOK ==
  /\ policy \in {"FullHistory", "FromJoinDate"}
  /\ epoch_count \in 1 .. MaxEpochs
  /\ rotation_due \in BOOLEAN
  /\ welcomed \in SUBSET Ids
  /\ owed \in SUBSET (Ids \X (0 .. CurrentEpoch))
  /\ stored \in [Ids -> SUBSET Seq(0 .. CurrentEpoch)]
  /\ ring \in [Ids -> KeyRings(0 .. CurrentEpoch)]
  /\ join_epoch \in [Ids -> 0 .. CurrentEpoch]
  /\ grant_epoch \in [Ids -> 0 .. CurrentEpoch]
  /\ last_epoch \in [Ids -> 0 .. CurrentEpoch]

\* "Access to future epochs is cut off on revocation" (key.rs): a revoked
\* member never gets the key of an epoch begun after its revocation, whatever
\* was being distributed to it at that moment and whatever it fetches later.
RevokedReadsNoLaterEpoch ==
  \A id \in Ids : status[id] = "Revoked" => \A e \in InReach(id) : e <= last_epoch[id]

\* Under FromJoinDate the epochs before the join stay unreadable, also for a
\* member whose first grant is retried after rotations.
NothingBeforeJoin ==
  policy = "FromJoinDate" =>
    \A id \in Ids : \A e \in InReach(id) : e >= join_epoch[id]

\* No active member is forgotten: each epoch from its grant on, or from the
\* founding on under FullHistory, is within its reach or still owed to it.
ActiveMembersCovered ==
  \A id \in welcomed : status[id] = "Active" =>
    \A e \in (IF policy = "FullHistory" THEN 0 ELSE grant_epoch[id]) .. CurrentEpoch :
      e \in InReach(id) \/ <<id, e>> \in owed

\* An active member is to read epoch e, unless, under FromJoinDate, its first grant
\* has begun after it.
Due(id, e) ==
  /\ status[id] = "Active"
  /\ e <= CurrentEpoch
  /\ policy = "FromJoinDate" /\ id \in welcomed => e >= grant_epoch[id]

\* Every active member finds the key of every epoch in its ring some day, or
\* under FromJoinDate of every epoch since its first grant: through copies that
\* do not open, bundles absorbed in part and out of order, and revocations of
\* others while keys are handed out.  It finds it again whenever a copy with
\* wrong numbers, which open_sealed_epoch_key cannot tell, has put another key
\* in its place.
MembersCatchUp ==
  \A id \in Ids, e \in Epoch : []<>(Due(id, e) => Finds(id, e))
===============================================================================
