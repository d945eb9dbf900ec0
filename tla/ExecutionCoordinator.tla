-------------------------- MODULE ExecutionCoordinator --------------------------
(***************************************************************************)
(* Execution Coordination for one BrokerAccount (backend execution.py):     *)
(* orders with their outbox event, risk reservation, connector dispatch     *)
(* record and journal entry; UNKNOWN work and its escalation; native        *)
(* protection of positions; and the exposure gate of AccountGate that       *)
(* decides whether a new entry is admitted.                                 *)
(*                                                                         *)
(* Each public operation saves the whole state when it ends, so that an     *)
(* action is one operation and a restart may fall between any two.  The one *)
(* operation that saves in its middle, before the broker is called, is      *)
(* dispatch_next: it is three actions.  It holds the account lock, and so   *)
(* do all operations that say inflight = NoOrder; the others do not take    *)
(* the lock and may run during the broker call.                             *)
(*                                                                         *)
(* Transport "direct" is dispatch_next over a broker adapter; "stream" is   *)
(* the connector stream of main.py, where dispatch_next is not used and the *)
(* dispatch record tells what was handed to the session.                    *)
(***************************************************************************)
EXTENDS AccountGate, Integers, Sequences

CONSTANTS
    Orders,          \* order ids
    NoOrder,         \* no dispatch in progress
    Transport,       \* "direct" or "stream"
    HealthReports,   \* the sets of reasons runtime health is reported with
    MaxRestarts,     \* bound on backend restarts
    Deadlines,       \* do reconciliation deadlines pass?
    ForeignRows      \* do snapshots hold rows that name no order of the account?

ASSUME CoordinatorAssumption ==
    /\ NoOrder \notin Orders
    /\ Transport \in {"direct", "stream"}
    /\ HealthReports \subseteq SUBSET RuntimeHealthReasons
    /\ MaxRestarts \in Nat /\ Deadlines \in BOOLEAN /\ ForeignRows \in BOOLEAN

VARIABLES
    acct,        \* the account's execution state
    order,       \* [Orders -> order, event, reservation, record, journal]
    admitted,    \* orders by dispatch_sequence
    work,        \* ReconciliationWork of each order
    underFence,  \* was any work recorded under a pending fence?
    prot,        \* protection_status of each order's position
    closed,      \* orders whose position is CLOSED
    handler,     \* orders accepted by a request that has not queued them yet
    inflight,    \* the order dispatch_next is working on
    stage,       \* "idle", "check", "called": where dispatch_next is
    session,     \* the connector session: "open" until its one observation of
                 \* the broker, then "ready" to send or merely "seen"
    wire,        \* orders sent on the stream that the connector has not acted on
    orphans,     \* SENT records inherited from a process that is gone
    broker,      \* what the broker did with each order
    sends,       \* how often each order was handed to the broker side
    stopped,     \* an emergency stop is in force
    overridden,  \* did the custodian lift a quarantine over unresolved work?
    denied,      \* orders with an effect that a snapshot said had none
    restarts     \* restarts so far

ledger == <<order, admitted, work, underFence, prot, closed>>
call == <<handler, inflight, stage>>
stream == <<session, wire, orphans>>
history == <<stopped, overridden, denied>>
world == <<broker, sends, history, restarts>>
vars == <<acct, ledger, call, stream, world>>

Statuses == {"ABSENT", "INTENT", "DISPATCHING", "SUBMITTED", "FILLED",
             "REJECTED", "CANCELLED", "UNKNOWN"}
WorkStates == {"NONE", "PENDING", "ESCALATED", "RECOVERED"}
Protection == {"NONE", "CONFIRMED", "UNCONFIRMED", "QUARANTINED"}

OrderRow == [status : Statuses,
             event : {"NONE", "PENDING", "DISPATCHING", "PUBLISHED", "ABORTED"},
             resv : {"NONE", "ACTIVE", "CONSUMED", "RELEASED"},
             record : {"NONE", "QUEUED", "SENT", "ACCEPTED", "REJECTED", "UNKNOWN"},
             journal : {"NONE", "DISPATCHING", "ACCEPTED", "REJECTED"}]

NoOrderRow == [status |-> "ABSENT", event |-> "NONE", resv |-> "NONE",
               record |-> "NONE", journal |-> "NONE"]

Unlocked == inflight = NoOrder
Known == {o \in Orders : order[o].status # "ABSENT"}

\* UNRESOLVED_RECONCILIATION_STATUSES, _has_unresolved_reconciliation
Unresolved(w) == {o \in Orders : w[o] \in {"PENDING", "ESCALATED"}}

\* _has_unconfirmed_open_protection
Exposed(p) == \E o \in Orders \ closed : p[o] \notin {"NONE", "CONFIRMED"}

\* the stricter test of _restore_temporary_entry_eligibility
Unconfirmed(p) == \E o \in Orders : p[o] \notin {"NONE", "CONFIRMED"}

Init ==
    /\ acct = FreshAccount
    /\ order = [o \in Orders |-> NoOrderRow]
    /\ admitted = <<>>
    /\ work = [o \in Orders |-> "NONE"] /\ underFence = FALSE
    /\ prot = [o \in Orders |-> "NONE"] /\ closed = {}
    /\ handler = {} /\ inflight = NoOrder /\ stage = "idle"
    /\ session = "closed" /\ wire = {} /\ orphans = {}
    /\ broker = [o \in Orders |-> "none"] /\ sends = [o \in Orders |-> 0]
    /\ stopped = FALSE /\ overridden = FALSE /\ denied = {} /\ restarts = 0

-----------------------------------------------------------------------------
(* UNKNOWN work.                                                           *)

\* _record_unknown for each order of S that has no unresolved work, starting
\* from the account a and the rows os.
RecordUnknown(S, a, os) ==
    LET new == S \ Unresolved(work)
    IN  /\ work' = [o \in Orders |-> IF o \in new THEN "PENDING" ELSE work[o]]
        /\ order' = [o \in Orders |->
               IF o \in new /\ os[o].journal = "NONE"
               THEN [os[o] EXCEPT !.journal = "DISPATCHING"] ELSE os[o]]
        /\ underFence' = (underFence \/ (new # {} /\ a.gate = "FENCE_PENDING"))
        /\ acct' = IF new = {} THEN a ELSE Quarantine(a)

\* Mutant: only an order with an effect is taken to have converged.
ConvergedByEffect(S, os) ==
    {o \in S : os[o].status \in {"SUBMITTED", "FILLED"} /\ work[o] = "PENDING"}

\* the work that _complete_work_if_converged recovers
Converged(S, os) == {o \in S : os[o].status # "UNKNOWN" /\ work[o] = "PENDING"}

\* _complete_work_if_converged for the orders of S, from the account a, the
\* rows os and the protections p; it ends with the restoring of temporary
\* entry eligibility.
CompleteWork(S, a, os, p) ==
    LET done == Converged(S, os)
        b == IF done = {} THEN a
             ELSE RemoveReasons(a, {"RECONCILIATION_PENDING"}, Exposed(p), underFence)
        left == Unresolved(work) \ done
    IN  RestoreTemporary(b, left # {}, Unconfirmed(p), underFence)

WorkAfter(S, os) ==
    [o \in Orders |-> IF o \in Converged(S, os) THEN "RECOVERED" ELSE work[o]]

-----------------------------------------------------------------------------
(* Admission and dispatch.                                                 *)

\* accept_execution (pre_order): reservation, intent and event in one save.
\* The idempotent replay of an accepted key changes nothing.
Admit(o) ==
    /\ Unlocked /\ order[o].status = "ABSENT" /\ Eligible(acct)
    /\ order' = [order EXCEPT ![o] =
           [status |-> "INTENT", event |-> "PENDING", resv |-> "ACTIVE",
            record |-> "NONE", journal |-> "NONE"]]
    /\ admitted' = Append(admitted, o)
    /\ handler' = IF Transport = "stream" THEN handler \cup {o} ELSE handler
    /\ UNCHANGED <<acct, work, underFence, prot, closed, inflight, stage,
                   stream, world>>

\* prepare_connector_dispatch, the request's second save.
Prepare(o) ==
    /\ o \in handler
    /\ order' = [order EXCEPT ![o].record = "QUEUED"]
    /\ handler' = handler \ {o}
    /\ UNCHANGED <<acct, admitted, work, underFence, prot, closed, inflight,
                   stage, stream, world>>

\* outbox: o has the PENDING event with the least dispatch_sequence
HeadOfOutbox(o) ==
    \E n \in DOMAIN admitted :
        /\ admitted[n] = o /\ order[o].event = "PENDING"
        /\ \A m \in 1..(n - 1) : order[admitted[m]].event # "PENDING"

\* Mutant: a later order is dispatched past one in doubt.
BeginDispatchPastUnknown ==
    /\ Transport = "direct" /\ Unlocked
    /\ \E o \in Orders :
           /\ HeadOfOutbox(o)
           /\ order' = [order EXCEPT ![o].status = "DISPATCHING",
                                     ![o].event = "DISPATCHING",
                                     ![o].journal = "DISPATCHING"]
           /\ inflight' = o
    /\ stage' = "check"
    /\ UNCHANGED <<acct, admitted, work, underFence, prot, closed, handler,
                   stream, world>>

\* dispatch_next up to the checkpoint before the broker call
BeginDispatch ==
    /\ Transport = "direct" /\ Unlocked
    /\ \A o \in Orders : order[o].status # "UNKNOWN"
    /\ \E o \in Orders :
           /\ HeadOfOutbox(o)
           /\ order' = [order EXCEPT ![o].status = "DISPATCHING",
                                     ![o].event = "DISPATCHING",
                                     ![o].journal = "DISPATCHING"]
           /\ inflight' = o
    /\ stage' = "check"
    /\ UNCHANGED <<acct, admitted, work, underFence, prot, closed, handler,
                   stream, world>>

\* _reject_dispatch
RejectedRow(r) ==
    [r EXCEPT !.status = "REJECTED", !.event = "ABORTED", !.resv = "RELEASED",
              !.journal = "REJECTED"]

DispatchOver == inflight' = NoOrder /\ stage' = "idle" /\ UNCHANGED handler

CheckRefused ==
    /\ stage = "check"
    /\ order' = [order EXCEPT ![inflight] = RejectedRow(@)]
    /\ DispatchOver
    /\ UNCHANGED <<acct, admitted, work, underFence, prot, closed, stream, world>>

\* connector.order_send, which may or may not reach the broker
SendOrder(effect) ==
    /\ stage = "check"
    /\ broker' = [broker EXCEPT ![inflight] = effect]
    /\ sends' = [sends EXCEPT ![inflight] = @ + 1]
    /\ stage' = "called"
    /\ UNCHANGED <<acct, ledger, handler, inflight, stream, history, restarts>>

\* the answer is plain ...
AnswerClear ==
    /\ stage = "called" /\ broker[inflight] # "none"
    /\ order' = [order EXCEPT ![inflight] =
           IF broker[inflight] = "refused" THEN RejectedRow(@)
           ELSE [@ EXCEPT !.status = IF broker[inflight] = "filled"
                                     THEN "FILLED" ELSE "SUBMITTED",
                          !.event = "PUBLISHED", !.journal = "ACCEPTED"]]
    /\ DispatchOver
    /\ UNCHANGED <<acct, admitted, work, underFence, prot, closed, stream, world>>

\* ... or ambiguous: an exception, a timeout, no status.
AnswerAmbiguous ==
    /\ stage = "called"
    /\ RecordUnknown({inflight}, acct,
                     [order EXCEPT ![inflight].status = "UNKNOWN"])
    /\ DispatchOver
    /\ UNCHANGED <<admitted, prot, closed, stream, world>>

-----------------------------------------------------------------------------
(* The connector stream, as far as the coordinator sees it.                *)

\* observe_connector_health(healthy=True)
Healthy(a) == RemoveReasons(a, ConnectorReasons, Exposed(prot), underFence)

\* hello: the account is healthy again; what the last session had on the wire
\* is lost.
OpenSession ==
    /\ Transport = "stream" /\ session = "closed"
    /\ session' = "open" /\ wire' = {}
    /\ acct' = Healthy(acct)
    /\ UNCHANGED <<ledger, call, orphans, world>>

Heartbeat ==
    /\ session # "closed" /\ acct' = Healthy(acct) /\ acct' # acct
    /\ UNCHANGED <<ledger, call, stream, world>>

\* mark_connector_dispatch_sent, then the frame goes out
MarkSent(o) ==
    /\ session = "ready" /\ order[o].record = "QUEUED"
    /\ order' = [order EXCEPT ![o].record = "SENT"]
    /\ wire' = wire \cup {o}
    /\ sends' = [sends EXCEPT ![o] = @ + 1]
    /\ UNCHANGED <<acct, admitted, work, underFence, prot, closed, call,
                   session, orphans, broker, history, restarts>>

\* the connector and the broker act on a frame
Execute(o, effect) ==
    /\ o \in wire
    /\ wire' = wire \ {o}
    /\ broker' = [broker EXCEPT ![o] = effect]
    /\ UNCHANGED <<acct, ledger, call, session, orphans, sends, history, restarts>>

\* connector_dispatch_result on the order's rows: a confirmed acceptance, a
\* rejection, or UNKNOWN (also what an acceptance without read-back becomes)
AcceptedRow(r) == [r EXCEPT !.record = "ACCEPTED", !.status = "SUBMITTED",
                            !.event = "PUBLISHED",
                            !.journal = IF @ = "NONE" THEN @ ELSE "ACCEPTED"]

RefusedRow(r) == [r EXCEPT !.record = "REJECTED", !.status = "REJECTED",
                           !.event = "ABORTED", !.resv = "RELEASED",
                           !.journal = IF @ = "NONE" THEN @ ELSE "REJECTED"]

\* Mutant: an ambiguous result frees the order's risk.
DoubtfulReleased(r) ==
    [r EXCEPT !.record = "UNKNOWN", !.status = "UNKNOWN", !.resv = "RELEASED"]

DoubtfulRow(r) == [r EXCEPT !.record = "UNKNOWN", !.status = "UNKNOWN"]

\* A result of the session that sent the command; a repeated result is
\* idempotent and a different one STALE_COMMAND_RESULT: no change.
Result(o, clear) ==
    /\ session # "closed" /\ order[o].record = "SENT" /\ o \notin wire \cup orphans
    /\ IF clear
       THEN /\ order' = [order EXCEPT ![o] = IF broker[o] = "refused"
                                             THEN RefusedRow(@) ELSE AcceptedRow(@)]
            /\ UNCHANGED <<acct, work, underFence>>
       ELSE RecordUnknown({o}, acct, [order EXCEPT ![o] = DoubtfulRow(@)])
    /\ UNCHANGED <<admitted, prot, closed, call, stream, world>>

\* Mutant: what was sent is queued again for the next session.
LoseSessionRequeue(clean) ==
    /\ session # "closed" /\ session' = "closed"
    /\ order' = [o \in Orders |-> IF order[o].record = "SENT"
                 THEN [order[o] EXCEPT !.record = "QUEUED"] ELSE order[o]]
    /\ orphans' = {}
    /\ UNCHANGED <<acct, work, underFence, admitted, prot, closed, call, wire, world>>

\* mark_connector_session_lost, then, unless the close was clean,
\* observe_connector_health(healthy=False)
LoseSession(clean) ==
    /\ session # "closed" /\ session' = "closed"
    /\ LET sent == {o \in Orders : order[o].record = "SENT"}
           new == sent \ Unresolved(work)
           a == IF new = {} THEN acct ELSE Quarantine(acct)
       IN  /\ order' = [o \in Orders |->
                  IF o \notin sent THEN order[o]
                  ELSE [DoubtfulRow(order[o]) EXCEPT !.journal =
                            IF @ = "NONE" /\ o \in new THEN "DISPATCHING" ELSE @]]
           /\ work' = [o \in Orders |-> IF o \in new THEN "PENDING" ELSE work[o]]
           /\ underFence' = (underFence \/ (new # {} /\ acct.gate = "FENCE_PENDING"))
           /\ acct' = IF clean THEN a ELSE SetInterlock(a, ConnectorReasons, FALSE)
    /\ orphans' = {}
    /\ UNCHANGED <<admitted, prot, closed, call, wire, world>>

-----------------------------------------------------------------------------
(* Restart and reconciliation.                                             *)

\* The process dies and another loads the last save: _begin_restart_recovery,
\* then _recover_inflight_dispatches.  An order whose journal entry still says
\* DISPATCHING is in flight whatever its status.
InFlightRow(r) == r.status \in {"DISPATCHING", "UNKNOWN"} \/ r.journal = "DISPATCHING"

Restart ==
    /\ restarts < MaxRestarts /\ restarts' = restarts + 1
    /\ LET doubtful == {o \in Orders : InFlightRow(order[o])}
       IN  RecordUnknown(doubtful, BeginRestart(acct),
               [o \in Orders |-> IF o \in doubtful
                    THEN [order[o] EXCEPT !.status = "UNKNOWN"] ELSE order[o]])
    /\ handler' = {} /\ inflight' = NoOrder /\ stage' = "idle"
    /\ session' = "closed"
    /\ orphans' = {o \in Orders : order[o].record = "SENT"}
    /\ UNCHANGED <<admitted, prot, closed, wire, broker, sends, history>>

\* recover() of one order that the adapter's journal or broker state knows:
\* only an UNKNOWN order changes, but restart recovery is completed either way.
RecoveredRow(o) ==
    IF order[o].status # "UNKNOWN" THEN order[o]
    ELSE CASE broker[o] = "filled" ->
                  [order[o] EXCEPT !.status = "FILLED", !.event = "PUBLISHED",
                                   !.resv = "CONSUMED", !.journal = "ACCEPTED"]
           [] broker[o] = "working" ->
                  [order[o] EXCEPT !.status = "SUBMITTED", !.event = "PUBLISHED",
                                   !.journal = "ACCEPTED"]
           [] OTHER -> RejectedRow(order[o])

RecoverOrder(o) ==
    /\ Transport = "direct" /\ Unlocked /\ o \in Known
    /\ order[o].status = "UNKNOWN" => broker[o] # "cancelled"
    /\ LET os == [order EXCEPT ![o] = RecoveredRow(o)]
           a == CompleteWork({o}, acct, os, prot)
       IN  /\ order' = os
           /\ work' = WorkAfter({o}, os)
           /\ acct' = CompleteRestart(a, Unresolved(work') # {})
    /\ UNCHANGED <<admitted, underFence, prot, closed, call, stream, world>>

\* what a snapshot says of an order: REJECTED of the orders D, else the truth
Observed(o, D) ==
    CASE o \in D -> "REJECTED"
      [] o \notin D /\ broker[o] = "filled" -> "FILLED"
      [] o \notin D /\ broker[o] = "working" -> "SUBMITTED"
      [] o \notin D /\ broker[o] = "cancelled" -> "CANCELLED"
      [] OTHER -> "REJECTED"

\* _apply_order_observation and the reservation that follows it
ApplyObservation(r, x) ==
    IF \/ r.status = "FILLED" /\ x # "FILLED"
       \/ r.status \in {"REJECTED", "CANCELLED"} /\ x \notin {r.status, "FILLED"}
    THEN r
    ELSE [r EXCEPT !.status = x,
                   !.resv = CASE x = "FILLED" -> "CONSUMED"
                              [] x \in {"REJECTED", "CANCELLED"} -> "RELEASED"
                              [] OTHER -> @]

\* Mutant: a command that waits to be sent keeps the session from being ready.
ReconciledIdle(S, os, w) ==
    /\ Unresolved(work) \subseteq S /\ Unresolved(w) = {}
    /\ \A o \in Orders : os[o].record \notin {"QUEUED", "UNKNOWN"}

\* The stream's gate: every order in doubt has evidence, and no command is left
\* UNKNOWN, neither its dispatch record nor its work.
Reconciled(S, os, w) ==
    /\ Unresolved(work) \subseteq S
    /\ Unresolved(w) = {}
    /\ \A o \in Orders : os[o].record # "UNKNOWN"

\* A snapshot of the orders S: of what was handed over, and of what is unresolved.  A
\* connector sends one in each session, and only once what it has on the wire is done.
Snapshot(S) ==
    /\ Unlocked /\ (Transport = "stream" => session = "open")
    /\ S \subseteq {o \in Known : sends[o] > 0} \cup Unresolved(work)
    /\ S \cap wire = {}

\* What it may report as REJECTED whether or not it was executed: the connector says
\* so of every order of the hello's recovery list, the unresolved work, that no
\* broker row names (NO_EFFECT), and the rows of its MT5 adapter name none.
Deniable(S) == {o \in S \cap Unresolved(work) : Transport = "stream"}

\* the positions it may show
Filled(S) == {o \in S : broker[o] = "filled"}

\* The rows, protections and account after a snapshot that denies the orders D and
\* shows the positions P, those in bare without a native stop.
RowsSeen(S, D) ==
    [o \in Orders |-> IF o \in S THEN ApplyObservation(order[o], Observed(o, D)) ELSE order[o]]

PositionsSeen(P, bare) ==
    [o \in Orders |-> IF o \in bare THEN "UNCONFIRMED"
                      ELSE IF o \in P THEN "CONFIRMED" ELSE prot[o]]

BareSeen(bare) ==
    IF bare = {} THEN acct
    ELSE SetInterlock([acct EXCEPT !.gate = "QUARANTINED"], ProtectionReasons, FALSE)

DeniedAfter(D, os) ==
    denied \cup {o \in D : os[o].status = "REJECTED"
                          /\ broker[o] \in {"working", "filled", "cancelled"}}

\* reconcile_observation to its end; a complete snapshot covers every section.
Observe(S, D, bare, complete) ==
    /\ Snapshot(S) /\ (Transport = "stream" => complete)
    /\ LET os == RowsSeen(S, D)
           p == PositionsSeen(Filled(S \ D), bare)
           a == CompleteWork(S, BareSeen(bare), os, p)
       IN  /\ order' = os /\ prot' = p
           /\ work' = WorkAfter(S, os)
           /\ acct' = IF complete THEN CompleteRestart(a, Unresolved(work') # {}) ELSE a
           /\ session' = IF Transport = "direct" THEN session
                         ELSE IF Reconciled(S, os, work') THEN "ready" ELSE "seen"
           /\ denied' = DeniedAfter(D, os)
    /\ UNCHANGED <<admitted, underFence, closed, call, wire, orphans, broker, sends,
                   stopped, overridden, restarts>>

\* reconcile_observation raises at a row it cannot attribute (WRONG_ACCOUNT,
\* POSITION_ID_REQUIRED): orders and positions before that row have changed, no work
\* is completed, and the session stays unreconciled.  Nothing is saved yet, and a
\* crash before the next save is as if the snapshot had never come.
ObserveRaises(S, D, P, bare) ==
    /\ ForeignRows /\ Snapshot(S)
    /\ order' = RowsSeen(S, D) /\ prot' = PositionsSeen(P, bare)
    /\ acct' = BareSeen(bare)
    /\ session' = IF Transport = "direct" THEN session ELSE "seen"
    /\ denied' = DeniedAfter(D, order')
    /\ UNCHANGED <<admitted, work, underFence, closed, call, wire, orphans, broker, sends,
                   stopped, overridden, restarts>>

\* advance_recovery_deadlines
Escalate(o) ==
    /\ Deadlines /\ work[o] = "PENDING"
    /\ work' = [work EXCEPT ![o] = "ESCALATED"]
    /\ UNCHANGED <<acct, order, admitted, underFence, prot, closed, call, stream, world>>

-----------------------------------------------------------------------------
(* Positions and their native protection.                                  *)

\* record_fill of one more deal; protected says that the deal carries a native
\* stop.  A deal already known changes nothing.
RecordFill(o, protected) ==
    /\ Unlocked /\ Transport = "direct" /\ broker[o] = "filled" /\ o \notin closed
    /\ LET safe == protected /\ prot[o] \in {"NONE", "CONFIRMED"}
       IN  /\ prot' = [prot EXCEPT ![o] = IF safe THEN "CONFIRMED" ELSE "UNCONFIRMED"]
           /\ acct' = IF safe THEN acct
                      ELSE SetInterlock(Fence([acct EXCEPT !.gate = "QUARANTINED"]),
                                        ProtectionReasons, FALSE)
    /\ order' = [order EXCEPT ![o].status = "FILLED", ![o].resv = "CONSUMED"]
    /\ UNCHANGED <<admitted, work, underFence, closed, call, stream, world>>

\* mark_protection_unknown
DoubtProtection(o) ==
    /\ Unlocked /\ prot[o] # "NONE" /\ o \notin closed
    /\ prot' = [prot EXCEPT ![o] = "QUARANTINED"]
    /\ acct' = SetInterlock(Fence([acct EXCEPT !.gate = "QUARANTINED"]),
                            ProtectionReasons, FALSE)
    /\ UNCHANGED <<order, admitted, work, underFence, closed, call, stream, world>>

\* confirm_protection
ConfirmProtection(o) ==
    /\ Unlocked /\ prot[o] # "NONE"
    /\ prot' = [prot EXCEPT ![o] = "CONFIRMED"]
    /\ LET a == RemoveReasons(acct, ProtectionReasons, Exposed(prot'), underFence)
       IN  acct' = IF Unresolved(work) # {} THEN [a EXCEPT !.gate = "QUARANTINED"]
                   ELSE RestoreTemporary(a, FALSE, Unconfirmed(prot'), underFence)
    /\ UNCHANGED <<order, admitted, work, underFence, closed, call, stream, world>>

\* repair_native_protection, after its bounded attempts
RepairProtection(o, repaired) ==
    /\ Unlocked /\ prot[o] \in {"UNCONFIRMED", "QUARANTINED"}
    /\ prot' = [prot EXCEPT ![o] = IF repaired THEN "CONFIRMED" ELSE "QUARANTINED"]
    /\ acct' = IF repaired
               THEN RemoveReasons(acct, ProtectionReasons, Exposed(prot'), underFence)
               ELSE SetInterlock(Fence(acct), {"NATIVE_PROTECTION_UNVERIFIED"}, TRUE)
    /\ UNCHANGED <<order, admitted, work, underFence, closed, call, stream, world>>

\* connector_disconnected, told of one position
Disconnected(o) ==
    /\ Unlocked /\ prot[o] # "NONE" /\ o \notin closed
    /\ IF prot[o] = "CONFIRMED"
       THEN /\ acct' = SetInterlock(Fence(acct), ConnectorReasons, FALSE)
            /\ UNCHANGED prot
       ELSE /\ prot' = [prot EXCEPT ![o] = "QUARANTINED"]
            /\ acct' = SetInterlock([acct EXCEPT !.gate = "QUARANTINED"],
                                    ProtectionReasons, FALSE)
    /\ UNCHANGED <<order, admitted, work, underFence, closed, call, stream, world>>

\* a close command is confirmed for the whole volume
ClosePosition(o) ==
    /\ Unlocked /\ prot[o] # "NONE" /\ o \notin closed
    /\ closed' = closed \cup {o}
    /\ UNCHANGED <<acct, order, admitted, work, underFence, prot, call, stream, world>>

-----------------------------------------------------------------------------
(* Health, fences and the custodian: none of these takes the account lock. *)

\* observe_runtime_health: a backup past its escalation deadline is persistent.
RuntimeHealth(reasons, persistent) ==
    /\ persistent => "BACKUP_RECOVERY_POINT_STALE" \in reasons
    /\ acct' = IF reasons # {} THEN SetInterlock(acct, reasons, persistent)
               ELSE IF acct.lock = "QUARANTINED" THEN acct
               ELSE RemoveReasons(acct, RuntimeHealthReasons, Exposed(prot), underFence)
    /\ acct' # acct
    /\ UNCHANGED <<ledger, call, stream, world>>

\* emergency_stop, also for each target of a global emergency
EmergencyStop ==
    /\ acct' = Fence(acct) /\ stopped' = TRUE
    /\ UNCHANGED <<ledger, call, stream, broker, sends, overridden, denied, restarts>>

\* recover_runtime_interlock by the custodian, with evidence; it is taken to
\* lift an emergency stop as well
CustodianRecovers ==
    /\ acct' = Recover(acct, Exposed(prot), underFence)
    /\ acct' # acct /\ stopped' = FALSE
    /\ overridden' = (overridden \/ Unresolved(work) # {})
    /\ UNCHANGED <<ledger, call, stream, broker, sends, denied, restarts>>

\* a working order fills or is cancelled at the broker
BrokerMoves(o) ==
    /\ broker[o] = "working"
    /\ \E b \in {"filled", "cancelled"} : broker' = [broker EXCEPT ![o] = b]
    /\ UNCHANGED <<acct, ledger, call, stream, sends, history, restarts>>

-----------------------------------------------------------------------------
Effects == {"working", "filled", "refused"}

DirectDispatch ==
    BeginDispatch \/ CheckRefused \/ AnswerClear \/ AnswerAmbiguous
        \/ \E effect \in Effects \cup {"none"} : SendOrder(effect)

StreamStep ==
    \/ OpenSession \/ Heartbeat
    \/ \E clean \in BOOLEAN : LoseSession(clean)
    \/ \E o \in Orders :
           \/ Prepare(o) \/ MarkSent(o)
           \/ \E effect \in Effects : Execute(o, effect)
           \/ \E clear \in BOOLEAN : Result(o, clear)

Reconciliation ==
    \/ \E o \in Orders : RecoverOrder(o) \/ Escalate(o)
    \/ \E S \in SUBSET Orders : \E D \in SUBSET Deniable(S) :
           \/ \E bare \in SUBSET Filled(S \ D), complete \in BOOLEAN :
                  Observe(S, D, bare, complete)
           \/ \E P \in SUBSET Filled(S \ D) : \E bare \in SUBSET P :
                  ObserveRaises(S, D, P, bare)

Positions ==
    \E o \in Orders :
        \/ DoubtProtection(o) \/ ConfirmProtection(o) \/ Disconnected(o)
        \/ ClosePosition(o)
        \/ \E yes \in BOOLEAN : RecordFill(o, yes) \/ RepairProtection(o, yes)

Supervision ==
    \/ EmergencyStop \/ CustodianRecovers
    \/ \E reasons \in HealthReports, persistent \in BOOLEAN :
           RuntimeHealth(reasons, persistent)

Next ==
    \/ \E o \in Orders : Admit(o) \/ BrokerMoves(o)
    \/ DirectDispatch \/ StreamStep \/ Reconciliation \/ Positions
    \/ Supervision \/ Restart

Spec == Init /\ [][Next]_vars

\* A snapshot with evidence on every order in doubt
FullObservation ==
    LET S == Unresolved(work)
    IN  \E D \in SUBSET Deniable(S) : \E bare \in SUBSET Filled(S \ D) :
            Observe(S, D, bare, TRUE)

\* No session lasts for ever, the connector reconnects each time (its run loop),
\* and of the sessions that can give evidence some do; a session that is ready
\* sends what is queued.
FairSpec ==
    /\ Spec
    /\ WF_vars(OpenSession) /\ WF_vars(\E clean \in BOOLEAN : LoseSession(clean))
    /\ SF_vars(FullObservation)
    /\ \A o \in Orders : WF_vars(Prepare(o)) /\ SF_vars(MarkSent(o))

-----------------------------------------------------------------------------
\* Every variable keeps its type.
TypeOK ==
    /\ acct \in Account
    /\ order \in [Orders -> OrderRow]
    /\ admitted \in Seq(Orders)
    /\ work \in [Orders -> WorkStates] /\ underFence \in BOOLEAN
    /\ prot \in [Orders -> Protection] /\ closed \subseteq Orders
    /\ handler \subseteq Orders /\ inflight \in Orders \cup {NoOrder}
    /\ stage \in {"idle", "check", "called"}
    /\ session \in {"closed", "open", "seen", "ready"} /\ wire \subseteq Orders /\ orphans \subseteq Orders
    /\ broker \in [Orders -> Effects \cup {"none", "cancelled"}]
    /\ sends \in [Orders -> Nat]
    /\ stopped \in BOOLEAN /\ overridden \in BOOLEAN /\ denied \subseteq Orders
    /\ restarts \in 0..MaxRestarts

\* Across restarts, lost sessions and reconciliation an order is handed to the
\* broker side at most once (reconcile_due: "without ever resending").
SentOnce == \A o \in Orders : sends[o] <= 1

\* Risk is held as long as an order has an effect: whatever became of the calls,
\* results, fills and snapshots between, what works or is filled at the broker
\* keeps its reservation.  Only a snapshot that denied the order's effect frees it.
ExposureIsReserved ==
    \A o \in Orders \ denied :
        broker[o] \in {"working", "filled"} => order[o].resv # "RELEASED"

\* What the connector's specification says: a command in doubt stays in doubt while
\* the correlation is absent, so that no effect is denied and no risk freed by it.
\* The code breaks it: the snapshot reports such an order as REJECTED, and
\* reconcile_observation releases its reservation.
AbsentStaysInDoubt ==
    \A o \in Orders : broker[o] \in {"working", "filled"} => order[o].resv # "RELEASED"

\* Except when restart recovery completes, no step opens the gate while some open
\* position has no confirmed protection: whatever number of positions, reasons
\* and fences are involved.
GateOpensProtected ==
    [][acct.gate # "OPEN" /\ acct'.gate = "OPEN" /\ ~acct.recovering
           => \A o \in Orders \ closed' : prot'[o] \in {"NONE", "CONFIRMED"}]_vars

\* A quarantine that needs the custodian ends only by the custodian's command:
\* no heartbeat, fill, restart or reconciliation opens the gate before.
CustodianOnly ==
    [][acct.custody => (acct'.custody /\ acct'.gate = "QUARANTINED") \/ CustodianRecovers]_vars

\* No entry is admitted while the outcome of an order is in doubt, unless the
\* custodian lifted a quarantine over it (_restore_temporary_entry_eligibility:
\* "Reopen only the temporary UNKNOWN fence after all local facts converge").
InDoubtMeansFenced == Eligible(acct) => overridden \/ Unresolved(work) = {}

\* What does hold of that fence: until the first work converges, nothing but the
\* custodian lifts it, whatever sessions, heartbeats, restarts and fills come.
DoubtFences ==
    Eligible(acct) => \/ overridden
                      \/ Unresolved(work) = {}
                      \/ \E o \in Orders : work[o] = "RECOVERED"

\* No order is handed to the broker side while another one's outcome is in doubt
\* (mt5-connector-mvp.md: the backend must resolve the unknown command before
\* delivering a later side-effecting command).
NoSendInDoubt ==
    [][\A o, p \in Orders : sends'[o] > sends[o] => order[p].status # "UNKNOWN"]_vars

\* After an emergency stop no entry is admitted (CONTEXT.md) until the
\* custodian recovers the account.
EmergencyHolds == stopped => ~Eligible(acct)

\* Work in doubt is settled by evidence, unless its deadline hands it to the
\* operator first: sessions, observations and restarts may fail any number of
\* times in between (advance_recovery_deadlines, _complete_work_if_converged).
DoubtSettles ==
    \A o \in Orders : work[o] = "PENDING" ~> work[o] \in {"RECOVERED", "ESCALATED"}

\* What is queued is delivered by some later session (replay_unsent), unless a
\* command record is UNKNOWN: nothing ever changes such a record, and none of
\* the sessions is ready again.
QueuedIsDelivered ==
    \A o \in Orders :
        order[o].record = "QUEUED"
            ~> \/ order[o].record # "QUEUED"
               \/ \E p \in Orders : order[p].record = "UNKNOWN"

\* The status of an order is what the broker did with it, however it was learnt: by
\* an answer, a result, a recovery, a fill or a snapshot.  A rejected order has had
\* no effect and never will, unless a snapshot denied its effect.
StatusIsTrue ==
    \A o \in Orders :
        /\ order[o].status = "SUBMITTED" => broker[o] \in {"working", "filled", "cancelled"}
        /\ order[o].status = "FILLED" => broker[o] = "filled"
        /\ order[o].status = "CANCELLED" => broker[o] = "cancelled"
        /\ order[o].status = "REJECTED" =>
               broker[o] \in {"none", "refused"} \/ o \in denied

\* An order in doubt has work that somebody will look at, and an order is DISPATCHING
\* only during its call: also after a crash in the middle of it.
UnknownHasWork ==
    \A o \in Orders :
        /\ order[o].status = "UNKNOWN" => o \in Unresolved(work)
        /\ order[o].status = "DISPATCHING" => inflight = o

\* What was decided of a reservation stays: no restart, late result or snapshot frees
\* the risk of a filled order, or takes back what was released, unless a snapshot
\* has denied the order's effect.
ReservationIsFinal ==
    [][\A o \in Orders \ denied' : order[o].resv \in {"CONSUMED", "RELEASED"} =>
           order'[o].resv = order[o].resv]_vars

-----------------------------------------------------------------------------
(* The view of the stream that StreamPromise states.                       *)

RecordState == [o \in Orders |-> order[o].record]
StreamSession == IF session = "seen" THEN "open" ELSE session
SentOrders == {o \in Orders : order[o].record = "SENT"}

Stream == INSTANCE StreamPromise
              WITH Commands <- Orders, record <- RecordState, session <- StreamSession,
                   answers <- SentOrders \ (wire \cup orphans)

\* The coordinator treats its dispatch records as the stream promises: whatever
\* calls, snapshots and restarts interleave, a record goes to SENT once, is settled
\* by its own session only, and then stays (connector_dispatch_result,
\* mark_connector_session_lost).
StreamSpec == Stream!Spec

=============================================================================
