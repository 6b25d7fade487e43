--------------------------- MODULE ManagerRefinement ---------------------------
(***************************************************************************)
(* The manager of module Manager implements OneTimeKeys.  The owner of a   *)
(* leaf key is whoever dgmt_key_dist built it for, also when the call then *)
(* failed and dropped it; a key is turned down when the tag of its leaf,   *)
(* the preimage of l' under the shuffle, is in rl.                         *)
(***************************************************************************)
EXTENDS Manager

Banned == {id \in Ids : status[id] = "Revoked"}

TagListed(key) ==
  \E l \in Leaf : /\ <<key[1], key[2], key[3], l>> \in rl
                  /\ Shuffle[<<key[1], key[2], key[3]>>][l] = key[4]

TurnedDown == {key \in OtsKey : issued_to[key] # <<>> /\ TagListed(key)}

OTK == INSTANCE OneTimeKeys WITH
  Key         <- OtsKey,
  Member      <- Ids,
  owners      <- issued_to,
  banned      <- Banned,
  turned_down <- TurnedDown

\* Every step of dgmt_join, dgmt_key_dist and dgmt_revoke hands one fresh leaf
\* key to a member in good standing, or bans members together with exactly the
\* keys built for them so far (the dropped ones of failed calls included), or
\* changes nothing of this.
HandsOutOneTimeKeys == OTK!Promise
===============================================================================
