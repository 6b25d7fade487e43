-------------------------------- MODULE MCGroup --------------------------------
(***************************************************************************)
(* TLC instances of Group.  Verifiers and messages are interchangeable.    *)
(***************************************************************************)
EXTENDS Group, TLC

MCSortVal ==
  [t \in Fn \X Smtmt \X Leaf \X Leaf |-> (3 * t[4] + t[1] + 2 * t[2] + t[3]) % 4 \div 2]

Symmetry == Permutations(Verifiers) \cup Permutations(Messages)
===============================================================================
