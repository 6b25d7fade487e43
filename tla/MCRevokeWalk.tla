----------------------------- MODULE MCRevokeWalk -----------------------------
(***************************************************************************)
(* TLC instances of RevokeWalk, which reads no sort value.                 *)
(***************************************************************************)
EXTENDS RevokeWalk

MCSortVal == [t \in Fn \X Smtmt \X Leaf \X Leaf |-> 0]
===============================================================================
