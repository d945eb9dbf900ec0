------------------------ MODULE MCExecutionCoordinator ------------------------
(* ExecutionCoordinator for TLC: interchangeable orders, few health reports. *)
EXTENDS ExecutionCoordinator, TLC

Symmetry == Permutations(Orders)
NoHealth == {}
BackupHealth == {{}, {"BACKUP_RECOVERY_POINT_STALE"}}
ConnectorHealth == {{"CONNECTOR_UNAVAILABLE"}}
=============================================================================
