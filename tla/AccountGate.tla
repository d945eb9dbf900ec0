------------------------------ MODULE AccountGate ------------------------------
(***************************************************************************)
(* The exposure gate of one BrokerAccount (backend execution.py): what each *)
(* internal helper does to the account's execution state.  The helpers run  *)
(* one after the other inside every public operation, so that they are      *)
(* functions here: of the account before, and of the facts they read.       *)
(* ExecutionCoordinator composes them in the order the operations do.       *)
(*                                                                         *)
(* No code sets the gate to STOPPED; the execution epoch, which              *)
(* install_fence raises, is compared only with the value the caller has     *)
(* just read under the same lock, and belongs to ConnectorDelivery.         *)
(***************************************************************************)
EXTENDS FiniteSets

Gates == {"OPEN", "FENCE_PENDING", "QUARANTINED"}
Locks == {"ELIGIBLE", "BLOCKED", "QUARANTINED"}

\* Each reason here stands for all that are set and removed with it: CONNECTOR_GAP,
\* the other runtime health facts, NATIVE_PROTECTION_CHANGED.
ConnectorReasons == {"CONNECTOR_UNAVAILABLE"}
RuntimeHealthReasons ==
    ConnectorReasons \cup {"BROKER_FACTS_STALE", "BACKUP_RECOVERY_POINT_STALE"}
ProtectionReasons == {"NATIVE_PROTECTION_UNCONFIRMED"}
Reasons == RuntimeHealthReasons \cup ProtectionReasons
               \cup {"RECONCILIATION_PENDING", "NATIVE_PROTECTION_UNVERIFIED"}

\* AccountExecutionState: exposure_gate, runtime_interlock, interlock_reasons,
\* quarantine_requires_command, recovery_required and recovery_gate_before.
Account == [gate : Gates, lock : Locks, reasons : SUBSET Reasons,
            custody : BOOLEAN, recovering : BOOLEAN, before : Gates]

FreshAccount == [gate |-> "OPEN", lock |-> "ELIGIBLE", reasons |-> {},
                 custody |-> FALSE, recovering |-> FALSE, before |-> "OPEN"]

\* pre_order's account-level conditions.
Eligible(a) == a.reasons = {} /\ a.lock = "ELIGIBLE" /\ a.gate = "OPEN"

\* Mutant: a lesser reason overwrites the custodian's quarantine.
SetInterlockForgetting(a, reasons, persistent) ==
    [a EXCEPT !.lock = IF persistent THEN "QUARANTINED" ELSE "BLOCKED",
              !.reasons = @ \cup reasons, !.custody = persistent,
              !.gate = "QUARANTINED"]

\* _set_runtime_interlock: a quarantine that needs the custodian is not touched
\* by lesser reasons.
SetInterlock(a, reasons, persistent) ==
    IF a.custody /\ ~persistent THEN a
    ELSE [a EXCEPT !.lock = IF persistent THEN "QUARANTINED" ELSE "BLOCKED",
                   !.reasons = @ \cup reasons,
                   !.custody = @ \/ persistent,
                   !.gate = "QUARANTINED"]

\* Mutant: protection is not looked at.
RestoreUnprotected(a, exposed, underFence) ==
    IF a.custody \/ a.reasons # {} \/ underFence THEN a
    ELSE [a EXCEPT !.lock = "ELIGIBLE",
                   !.gate = IF @ = "QUARANTINED" THEN "OPEN" ELSE @]

\* _restore_runtime_interlock_if_safe.  exposed: an open position has no
\* confirmed protection; underFence: some UNKNOWN work, resolved or not, was
\* recorded while the gate was FENCE_PENDING.
RestoreIfSafe(a, exposed, underFence) ==
    IF a.custody \/ a.reasons # {} \/ exposed \/ underFence THEN a
    ELSE [a EXCEPT !.lock = "ELIGIBLE",
                   !.gate = IF @ = "QUARANTINED" THEN "OPEN" ELSE @]

\* _remove_runtime_interlock_reasons
RemoveReasons(a, gone, exposed, underFence) ==
    LET b == [a EXCEPT !.reasons = @ \ gone]
    IN  IF b.reasons = {} THEN RestoreIfSafe(b, exposed, underFence) ELSE b

\* install_fence, emergency_stop
Fence(a) == [a EXCEPT !.gate = IF @ = "QUARANTINED" THEN @ ELSE "FENCE_PENDING"]

\* Mutant: the quarantine of unknown work is given no reason.
QuarantineUnreasoned(a) == [a EXCEPT !.gate = "QUARANTINED"]

\* _record_unknown, once the work is stored
Quarantine(a) ==
    SetInterlock(Fence([a EXCEPT !.gate = "QUARANTINED"]),
                 {"RECONCILIATION_PENDING"}, FALSE)

\* _restore_temporary_entry_eligibility.  unconfirmed counts closed positions too.
RestoreTemporary(a, unresolved, unconfirmed, underFence) ==
    IF \/ unresolved \/ unconfirmed \/ a.reasons # {} \/ a.custody
       \/ a.gate # "QUARANTINED" THEN a
    ELSE IF underFence THEN [a EXCEPT !.gate = "FENCE_PENDING"]
    ELSE [a EXCEPT !.gate = "OPEN", !.lock = "ELIGIBLE"]

\* _begin_restart_recovery
BeginRestart(a) ==
    IF a.recovering THEN a
    ELSE [a EXCEPT !.recovering = TRUE, !.before = a.gate,
                   !.lock = IF @ = "QUARANTINED" THEN @ ELSE "BLOCKED",
                   !.gate = IF @ = "OPEN" THEN "FENCE_PENDING" ELSE @]

\* _complete_restart_recovery
CompleteRestart(a, unresolved) ==
    IF ~a.recovering \/ unresolved \/ a.custody THEN a
    ELSE IF a.reasons # {} THEN [a EXCEPT !.recovering = FALSE]
    ELSE [a EXCEPT !.recovering = FALSE, !.lock = "ELIGIBLE",
                   !.gate = IF a.before = "OPEN" THEN "OPEN"
                            ELSE IF @ # "OPEN" THEN a.before ELSE @]

\* recover_runtime_interlock, commanded by the custodian with evidence
Recover(a, exposed, underFence) ==
    IF a.lock # "QUARANTINED" THEN RestoreIfSafe(a, exposed, underFence)
    ELSE IF exposed THEN a
    ELSE [a EXCEPT !.custody = FALSE, !.lock = "ELIGIBLE", !.reasons = {},
                   !.gate = IF @ = "QUARANTINED" THEN "OPEN" ELSE @]
=============================================================================
