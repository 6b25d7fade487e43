------------------------------ MODULE OneTimeKeys ------------------------------
(***************************************************************************)
(* What the group manager promises about one-time keys, with no trees,     *)
(* pointers, shuffles or lists of tags: a leaf key goes to one member who  *)
(* is not banned and stays its own, and banning members has every key they *)
(* own, and no other, turned down from then on.  Module Manager implements *)
(* it (ManagerRefinement).                                                 *)
(***************************************************************************)
EXTENDS Sequences

CONSTANTS
  Key,      \* the leaf keys of the community
  Member    \* who may own one

VARIABLES
  owners,      \* the members a key was built for, in order
  banned,      \* the members that were revoked
  turned_down  \* the keys whose signatures no longer verify

abstractVars == <<owners, banned, turned_down>>

Start ==
  /\ owners = [key \in Key |-> <<>>]
  /\ banned = {}
  /\ turned_down = {}

HandOut(key, m) ==
  /\ owners[key] = <<>>
  /\ m \notin banned
  /\ owners' = [owners EXCEPT ![key] = <<m>>]
  /\ UNCHANGED <<banned, turned_down>>

Ban(members) ==
  /\ banned' = banned \cup members
  /\ turned_down' = turned_down
                      \cup {key \in Key : \E m \in members : owners[key] = <<m>>}
  /\ UNCHANGED owners

Step ==
  \/ \E key \in Key, m \in Member : HandOut(key, m)
  \/ \E members \in SUBSET Member : Ban(members)

Promise == Start /\ [][Step]_abstractVars
===============================================================================
