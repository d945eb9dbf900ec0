------------------------- MODULE MCPositionLifecycle -------------------------
(* PositionLifecycle for TLC: interchangeable commands.  The run positions  *)
(* has denied commands or a restart, but not both in one behaviour;        *)
(* MCPositionLifecycleTypes.cfg, by hand, has both.                        *)
EXTENDS PositionLifecycle, TLC

EveryStart ==
    {<<"direct", "ENTRY">>, <<"direct", "TP2_CONFIRMED">>,
     <<"stream", "ENTRY">>}
DeniedOrRestarted == denied = {} \/ restarts = 0
Symmetry == Permutations(Commands) \cup Permutations(ExitDeals)
=============================================================================
