---------------------------- MODULE MCBrokerAccounts ----------------------------
(* BrokerAccounts for TLC: five session ids are enough for the lease, its     *)
(* row, a save under way, the registry and the connection to name different   *)
(* ones.                                                                      *)
EXTENDS BrokerAccounts
=============================================================================
