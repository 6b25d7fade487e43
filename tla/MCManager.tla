------------------------------- MODULE MCManager -------------------------------
(***************************************************************************)
(* TLC instances of Manager.  The sort values make the shuffles differ     *)
(* from tree to tree and hold a tie, which the stable sort resolves.       *)
(***************************************************************************)
EXTENDS ManagerRefinement

MCSortVal ==
  [t \in Fn \X Smtmt \X Leaf \X Leaf |-> (3 * t[4] + t[1] + 2 * t[2] + t[3]) % 4 \div 2]
===============================================================================
