-------------------------- MODULE MCConnectorDelivery --------------------------
(* ConnectorDelivery for TLC: interchangeable commands.                      *)
EXTENDS ConnectorDelivery, TLC

Symmetry == Permutations(Commands)
=============================================================================
