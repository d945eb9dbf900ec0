--------------------------- MODULE MCOperatorCommands ---------------------------
(* OperatorCommands for TLC: orders, and keys, are interchangeable.           *)
EXTENDS OperatorCommands, TLC

Symmetry == Permutations(Orders) \cup Permutations(Keys)
=============================================================================
