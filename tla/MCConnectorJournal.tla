-------------------------- MODULE MCConnectorJournal --------------------------
(* ConnectorJournal for TLC: a handful of commands and keys, interchangeable. *)
EXTENDS ConnectorJournal, TLC

Symmetry == Permutations(Commands) \cup Permutations(Keys)
=============================================================================
