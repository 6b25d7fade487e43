------------------------------ MODULE MCCommunity ------------------------------
(***************************************************************************)
(* TLC instances of Community.                                             *)
(***************************************************************************)
EXTENDS Community

MCSortVal == [t \in Fn \X Smtmt \X Leaf \X Leaf |-> 0]

\* Copies for member 1 may say that they are for epoch 1.
MCWrongNumbers == [id \in Ids |-> IF id = 1 THEN {1} ELSE {}]
===============================================================================
