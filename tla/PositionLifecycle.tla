--------------------------- MODULE PositionLifecycle ---------------------------
(***************************************************************************)
(* One open position and the commands about it (backend execution.py):      *)
(* closes and reductions, changes of native protection, trailing stops, the *)
(* deals that reduce it at the broker, and how the projection - remaining   *)
(* volume, stage, protection, last confirmed stop - follows the broker      *)
(* through lost answers, lost sessions, snapshots and restarts.             *)
(*                                                                         *)
(* As in ExecutionCoordinator an operation is one action, since it saves    *)
(* once at its end; dispatch_position_command saves before it calls the     *)
(* adapter and is three.  Every operation on a position takes the account   *)
(* lock, which is held during that call.  The account's own supervision     *)
(* (health, emergency, custodian) is in ExecutionCoordinator.               *)
(***************************************************************************)
EXTENDS AccountGate, Integers, Sequences

CONSTANTS
    Commands,     \* position command ids
    NoCommand,    \* no adapter call in progress
    ExitDeals,    \* deals the broker makes by itself: targets, stops, manual closes
    Lots,         \* the volume of the position
    Starts,       \* transports, each with a stage that the position has reached
    Volumes,      \* the volumes that closes ask for; 0 is "ALL"
    MaxStop,      \* stops are levels; a higher one is tighter (a LONG position)
    MaxRestarts,  \* bound on backend restarts
    ForeignRows   \* do snapshots hold rows that name no order of the account?

ASSUME PositionAssumption ==
    /\ NoCommand \notin Commands /\ Commands \cap ExitDeals = {}
    /\ Starts \subseteq {"direct", "stream"} \X {"ENTRY", "TP1_CONFIRMED", "TP2_CONFIRMED"}
    /\ Lots \in Nat \ {0} /\ Volumes \subseteq 0..Lots
    /\ MaxStop \in Nat \ {0} /\ MaxRestarts \in Nat /\ ForeignRows \in BOOLEAN

VARIABLES
    transport,   \* "direct" (a broker adapter) or "stream" (the connector): fixed
    pos,         \* the Position: stop is last_confirmed_stop, native native_stop_loss
    cmd,         \* the PositionCommands
    record,      \* their ConnectorDispatchRecords
    prepared,    \* commands by dispatch_sequence of their record
    known,       \* deals that have a Fill
    acct,        \* the account's execution state
    work,        \* ReconciliationWork of each command
    underFence,  \* was any work recorded under a pending fence?
    inflight,    \* the command of the adapter call in progress
    session,     \* the connector session, as in ExecutionCoordinator
    wire,        \* commands sent on the stream that the connector has not acted on
    orphans,     \* SENT records inherited from a process that is gone
    real,        \* the broker's position: volume and stop
    deal,        \* the volume of each deal at the broker, 0 before it is made
    did,         \* what the broker did with each command
    overtaken,   \* was a stop changed past a doubt, or a doubt settled past pos?
    denied,      \* executed commands that a snapshot said had no effect
    restarts

projection == <<pos, cmd, record, prepared, known>>
doubt == <<acct, work, underFence>>
stream == <<session, wire, orphans>>
broker == <<real, deal, did>>
history == <<overtaken, denied>>
vars == <<transport, projection, doubt, inflight, stream, broker, history, restarts>>

Kinds == {"NONE", "CLOSE", "PROTECTION", "TRAIL"}
Stages == {"ENTRY", "TP1_CONFIRMED", "TP2_CONFIRMED", "CLOSING", "CLOSED"}
WorkStates == {"NONE", "PENDING", "ESCALATED", "RECOVERED"}

\* volume 0 is "ALL"
NoCommandRow == [kind |-> "NONE", status |-> "RECEIVED", volume |-> 0, stop |-> 0]
NoRecord == [state |-> "NONE", volume |-> 0]

Unlocked == inflight = NoCommand
InDoubt == {c \in Commands : cmd[c].status = "UNKNOWN"}
Unresolved(w) == {c \in Commands : w[c] \in {"PENDING", "ESCALATED"}}
Exposed(p) == p.stage # "CLOSED" /\ p.prot # "CONFIRMED"
Unconfirmed(p) == p.prot # "CONFIRMED"

\* record_fill of the entry has projected the position with its native stop;
\* targets may have been filled since.
Init ==
    /\ \E start \in Starts :
           /\ transport = start[1]
           /\ pos = [remaining |-> Lots, stage |-> start[2], prot |-> "CONFIRMED",
                     stop |-> 1, native |-> 1]
    /\ cmd = [c \in Commands |-> NoCommandRow]
    /\ record = [c \in Commands |-> NoRecord] /\ prepared = <<>> /\ known = {}
    /\ acct = FreshAccount
    /\ work = [c \in Commands |-> "NONE"] /\ underFence = FALSE
    /\ inflight = NoCommand
    /\ session = "closed" /\ wire = {} /\ orphans = {}
    /\ real = [volume |-> Lots, stop |-> 1]
    /\ deal = [d \in Commands \cup ExitDeals |-> 0]
    /\ did = [c \in Commands |-> "nothing"]
    /\ overtaken = FALSE /\ denied = {} /\ restarts = 0

-----------------------------------------------------------------------------
(* UNKNOWN work, as in ExecutionCoordinator.                               *)

\* _record_unknown for the commands of S, from the account a
RecordUnknown(S, a) ==
    LET new == S \ Unresolved(work)
    IN  /\ work' = [c \in Commands |-> IF c \in new THEN "PENDING" ELSE work[c]]
        /\ underFence' = (underFence \/ (new # {} /\ a.gate = "FENCE_PENDING"))
        /\ acct' = IF new = {} THEN a ELSE Quarantine(a)

\* mark_protection_unknown: the account, and the position
DoubtAccount(a) ==
    SetInterlock(Fence([a EXCEPT !.gate = "QUARANTINED"]), ProtectionReasons, FALSE)
DoubtPosition(p) == [p EXCEPT !.prot = "QUARANTINED"]

\* the work that _complete_non_order_work_if_converged recovers: its callers
\* have just settled the command
Converged(S, cs) == {c \in S : work[c] = "PENDING" /\ cs[c].status # "UNKNOWN"}

WorkAfter(S, cs) ==
    [c \in Commands |-> IF c \in Converged(S, cs) THEN "RECOVERED" ELSE work[c]]

CompleteWork(S, a, cs, p) ==
    IF Converged(S, cs) = {} THEN a
    ELSE RestoreTemporary(
             RemoveReasons(a, {"RECONCILIATION_PENDING"}, Exposed(p), underFence),
             Unresolved(work) \ Converged(S, cs) # {}, Unconfirmed(p), underFence)

-----------------------------------------------------------------------------
(* Requests.  An idempotency key seen before returns the prior command.    *)

\* request_position_close: a volume may not exceed what remains, whatever other
\* requests are open; ALL is always accepted.
RequestClose(c, v) ==
    /\ Unlocked /\ cmd[c].kind = "NONE" /\ v <= pos.remaining
    /\ cmd' = [cmd EXCEPT ![c] = [NoCommandRow EXCEPT !.kind = "CLOSE", !.volume = v]]
    /\ pos' = [pos EXCEPT !.stage = "CLOSING"]
    /\ UNCHANGED <<transport, record, prepared, known, doubt, inflight, stream,
                   broker, history, restarts>>

\* request_position_modify_protection
RequestProtection(c, s) ==
    /\ Unlocked /\ cmd[c].kind = "NONE"
    /\ cmd' = [cmd EXCEPT ![c] = [NoCommandRow EXCEPT !.kind = "PROTECTION", !.stop = s]]
    /\ UNCHANGED <<transport, pos, record, prepared, known, doubt, inflight, stream,
                   broker, history, restarts>>

\* request_trailing: after TP2, and only tighter than the last confirmed stop
RequestTrailing(c, s) ==
    /\ Unlocked /\ cmd[c].kind = "NONE"
    /\ pos.stage = "TP2_CONFIRMED" /\ s > pos.stop
    /\ cmd' = [cmd EXCEPT ![c] = [NoCommandRow EXCEPT !.kind = "TRAIL", !.stop = s]]
    /\ UNCHANGED <<transport, pos, record, prepared, known, doubt, inflight, stream,
                   broker, history, restarts>>

-----------------------------------------------------------------------------
(* The broker.                                                             *)

\* c closes v lots at the broker, which refuses more than there is.
BrokerCloses(c, v) ==
    IF v \in 1..real.volume
    THEN /\ real' = [real EXCEPT !.volume = @ - v]
         /\ deal' = [deal EXCEPT ![c] = v]
         /\ did' = [did EXCEPT ![c] = "done"]
    ELSE /\ did' = [did EXCEPT ![c] = "refused"] /\ UNCHANGED <<real, deal>>

\* c moves the stop at the broker
BrokerMovesStop(c, s) ==
    /\ IF real.volume > 0
       THEN real' = [real EXCEPT !.stop = s] /\ did' = [did EXCEPT ![c] = "done"]
       ELSE did' = [did EXCEPT ![c] = "refused"] /\ UNCHANGED real
    /\ UNCHANGED deal

\* a target, a stop or a hand at the terminal reduces the position
BrokerReduces(d, v) ==
    /\ deal[d] = 0 /\ v \in 1..real.volume
    /\ real' = [real EXCEPT !.volume = @ - v]
    /\ deal' = [deal EXCEPT ![d] = v]
    /\ UNCHANGED <<transport, projection, doubt, inflight, stream, did, history,
                   restarts>>

-----------------------------------------------------------------------------
(* Dispatch over an adapter: dispatch_position_command.                    *)

\* Commands that change the stop overtake what is in doubt.
Overtakes == overtaken \/ InDoubt # {}

BeginCall(c) ==
    /\ transport = "direct" /\ Unlocked
    /\ cmd[c].kind # "NONE" /\ cmd[c].status = "RECEIVED"
    /\ cmd' = [cmd EXCEPT ![c].status = "DISPATCHING"]
    /\ inflight' = c
    /\ overtaken' = Overtakes /\ UNCHANGED denied
    /\ UNCHANGED <<transport, pos, record, prepared, known, doubt, stream, broker,
                   restarts>>

\* an adapter without the capability
Incapable(c) ==
    /\ transport = "direct" /\ Unlocked
    /\ cmd[c].kind # "NONE" /\ cmd[c].status = "RECEIVED"
    /\ cmd' = [cmd EXCEPT ![c].status = "REJECTED"]
    /\ UNCHANGED <<transport, pos, record, prepared, known, doubt, inflight, stream,
                   broker, history, restarts>>

\* The call reaches the broker.  Every kind but TRAIL calls close_position, a
\* change of protection too, and without a volume that is all there is.
CallActs ==
    /\ inflight # NoCommand /\ did[inflight] = "nothing"
    /\ LET c == inflight
       IN  IF cmd[c].kind = "TRAIL" THEN BrokerMovesStop(c, cmd[c].stop)
           ELSE BrokerCloses(c, IF cmd[c].volume = 0 THEN real.volume ELSE cmd[c].volume)
    /\ UNCHANGED <<transport, projection, doubt, inflight, stream, history, restarts>>

\* _apply_confirmed_trailing_stop
TrailTo(p, c) ==
    IF cmd[c].kind = "TRAIL" THEN [p EXCEPT !.stop = cmd[c].stop] ELSE p

\* the answer says what the broker did; a confirmed close changes no volume
AnswerClear ==
    /\ inflight # NoCommand /\ did[inflight] # "nothing"
    /\ IF did[inflight] = "done"
       THEN /\ cmd' = [cmd EXCEPT ![inflight].status = "CONFIRMED"]
            /\ pos' = TrailTo(pos, inflight)
       ELSE cmd' = [cmd EXCEPT ![inflight].status = "REJECTED"] /\ UNCHANGED pos
    /\ inflight' = NoCommand
    /\ UNCHANGED <<transport, record, prepared, known, doubt, stream, broker,
                   history, restarts>>

AnswerAmbiguous ==
    /\ inflight # NoCommand
    /\ cmd' = [cmd EXCEPT ![inflight].status = "UNKNOWN"]
    /\ RecordUnknown({inflight}, acct)
    /\ inflight' = NoCommand
    /\ UNCHANGED <<transport, pos, record, prepared, known, stream, broker,
                   history, restarts>>

-----------------------------------------------------------------------------
(* Dispatch over the connector stream.                                     *)

\* prepare_connector_position_dispatch: trailing is not supported, the volume is
\* fixed now, and the state of the command is not looked at
Prepare(c) ==
    /\ transport = "stream" /\ cmd[c].kind \in {"CLOSE", "PROTECTION"}
    /\ record[c] = NoRecord
    /\ record' = [record EXCEPT ![c] =
           [state |-> "QUEUED",
            volume |-> IF cmd[c].volume = 0 THEN pos.remaining ELSE cmd[c].volume]]
    /\ prepared' = Append(prepared, c)
    /\ UNCHANGED <<transport, pos, cmd, known, doubt, inflight, stream, broker,
                   history, restarts>>

\* observe_connector_health(healthy=True)
Healthy(a) == RemoveReasons(a, ConnectorReasons, Exposed(pos), underFence)

OpenSession ==
    /\ transport = "stream" /\ session = "closed"
    /\ session' = "open" /\ wire' = {}
    /\ acct' = Healthy(acct)
    /\ UNCHANGED <<transport, projection, work, underFence, inflight, orphans, broker,
                   history, restarts>>

\* c is the first of S in dispatch order
FirstOf(S, c) ==
    \E n \in DOMAIN prepared :
        /\ prepared[n] = c /\ c \in S
        /\ \A m \in 1..(n - 1) : prepared[m] \notin S

\* replay_unsent: the first record that is QUEUED, in dispatch sequence
MarkSent(c) ==
    /\ session = "ready" /\ FirstOf({d \in Commands : record[d].state = "QUEUED"}, c)
    /\ record' = [record EXCEPT ![c].state = "SENT"]
    /\ wire' = wire \cup {c}
    /\ overtaken' = Overtakes /\ UNCHANGED denied
    /\ UNCHANGED <<transport, pos, cmd, prepared, known, doubt, inflight, session,
                   orphans, broker, restarts>>

\* The connector and the broker act on the frames one after the other.
Execute(c) ==
    /\ FirstOf(wire, c) /\ wire' = wire \ {c}
    /\ IF cmd[c].kind = "CLOSE" THEN BrokerCloses(c, record[c].volume)
       ELSE BrokerMovesStop(c, cmd[c].stop)
    /\ UNCHANGED <<transport, projection, doubt, inflight, session, orphans,
                   history, restarts>>

\* connector_dispatch_result, ACCEPTED with read-back: a close is worth the
\* volume the broker filled.
Accepted(p, c) ==
    IF cmd[c].kind = "PROTECTION"
    THEN [p EXCEPT !.prot = "CONFIRMED", !.stop = cmd[c].stop, !.native = cmd[c].stop]
    ELSE LET left == IF deal[c] >= p.remaining THEN 0 ELSE p.remaining - deal[c]
         IN  [p EXCEPT !.remaining = left, !.stage = IF left = 0 THEN "CLOSED" ELSE @]

\* the same, UNKNOWN, for each command of S
Doubtful(S) ==
    LET unsure == {c \in S : cmd[c].kind = "PROTECTION"}
        new == S \ Unresolved(work)
        a == IF new = {} THEN acct ELSE Quarantine(acct)
    IN  /\ cmd' = [c \in Commands |->
               IF c \in S THEN [cmd[c] EXCEPT !.status = "UNKNOWN"] ELSE cmd[c]]
        /\ record' = [c \in Commands |->
               IF c \in S THEN [record[c] EXCEPT !.state = "UNKNOWN"] ELSE record[c]]
        /\ work' = [c \in Commands |-> IF c \in new THEN "PENDING" ELSE work[c]]
        /\ underFence' = (underFence \/ (new # {} /\ acct.gate = "FENCE_PENDING"))
        /\ pos' = IF unsure = {} THEN pos ELSE DoubtPosition(pos)
        /\ acct' = IF unsure = {} THEN a ELSE DoubtAccount(a)

\* Mutant: a result is applied to a record that is already settled.
ResultAgain(c, clear) ==
    /\ session # "closed" /\ record[c].state \in {"SENT", "UNKNOWN"}
    /\ c \notin wire \cup orphans
    /\ did[c] # "nothing"
    /\ IF ~clear THEN Doubtful({c})
       ELSE /\ cmd' = [cmd EXCEPT ![c].status =
                   IF did[c] = "done" THEN "CONFIRMED" ELSE "REJECTED"]
            /\ record' = [record EXCEPT ![c].state =
                   IF did[c] = "done" THEN "ACCEPTED" ELSE "REJECTED"]
            /\ pos' = IF did[c] = "done" THEN Accepted(pos, c) ELSE pos
            /\ UNCHANGED doubt
    /\ UNCHANGED <<transport, prepared, known, inflight, stream, broker,
                   history, restarts>>

\* A result of the session that sent the command; results come in order.  On a
\* settled record it is a repetition or STALE_COMMAND_RESULT.
Result(c, clear) ==
    /\ session # "closed" /\ c \notin wire
    /\ FirstOf({d \in Commands : record[d].state = "SENT"} \ orphans, c)
    /\ IF ~clear THEN Doubtful({c})
       ELSE /\ cmd' = [cmd EXCEPT ![c].status =
                   IF did[c] = "done" THEN "CONFIRMED" ELSE "REJECTED"]
            /\ record' = [record EXCEPT ![c].state =
                   IF did[c] = "done" THEN "ACCEPTED" ELSE "REJECTED"]
            /\ pos' = IF did[c] = "done" THEN Accepted(pos, c) ELSE pos
            /\ UNCHANGED doubt
    /\ UNCHANGED <<transport, prepared, known, inflight, stream, broker,
                   history, restarts>>

\* mark_connector_session_lost; the next hello or heartbeat heals what
\* observe_connector_health(healthy=False) does, which is in ExecutionCoordinator
LoseSession ==
    /\ session # "closed" /\ session' = "closed"
    /\ Doubtful({c \in Commands : record[c].state = "SENT"})
    /\ orphans' = {}
    /\ UNCHANGED <<transport, prepared, known, inflight, wire, broker, history,
                   restarts>>

Heartbeat ==
    /\ session # "closed" /\ acct' = Healthy(acct) /\ acct' # acct
    /\ UNCHANGED <<transport, projection, work, underFence, inflight, stream, broker,
                   history, restarts>>

-----------------------------------------------------------------------------
(* Recovery and reconciliation.                                            *)

\* record_exit_fill of a deal reported as TP1, TP2, RUNNER or CLOSE; a deal that
\* has a Fill changes nothing
RecordExitFill(d, s) ==
    /\ transport = "direct" /\ Unlocked
    /\ d \notin known /\ deal[d] \in 1..pos.remaining
    /\ s = "TP1" => pos.stage = "ENTRY"
    /\ s = "TP2" => pos.stage = "TP1_CONFIRMED"
    /\ s = "RUNNER" => pos.stage = "TP2_CONFIRMED"
    /\ known' = known \cup {d}
    /\ pos' = [pos EXCEPT !.remaining = @ - deal[d],
                          !.stage = CASE s = "TP1" -> "TP1_CONFIRMED"
                                      [] s = "TP2" -> "TP2_CONFIRMED"
                                      [] OTHER -> IF pos.remaining = deal[d]
                                                  THEN "CLOSED" ELSE @]
    /\ UNCHANGED <<transport, cmd, record, prepared, doubt, inflight, stream, broker,
                   history, restarts>>

Verdict(c) == IF did[c] = "done" THEN "CONFIRMED" ELSE "REJECTED"

\* recover_position_command, with an adapter that knows.  A command that is not
\* UNKNOWN only has its work and the restart recovery completed.
RecoverCommand(c) ==
    /\ transport = "direct" /\ Unlocked /\ cmd[c].kind # "NONE"
    /\ LET settles == cmd[c].status = "UNKNOWN"
           cs == IF settles THEN [cmd EXCEPT ![c].status = Verdict(c)] ELSE cmd
           p == IF settles /\ did[c] = "done" THEN TrailTo(pos, c) ELSE pos
       IN  /\ cmd' = cs /\ pos' = p
           /\ work' = WorkAfter({c}, cs)
           /\ acct' = CompleteRestart(CompleteWork({c}, acct, cs, p),
                                      Unresolved(work') # {})
    /\ UNCHANGED <<transport, record, prepared, known, underFence, inflight, stream,
                   broker, history, restarts>>

\* dispatch_position_command of a command that is settled
DispatchSettled(c) ==
    /\ transport = "direct" /\ Unlocked /\ work[c] = "PENDING"
    /\ cmd[c].status \in {"CONFIRMED", "REJECTED"}
    /\ work' = WorkAfter({c}, cmd)
    /\ acct' = CompleteWork({c}, acct, cmd, pos)
    /\ UNCHANGED <<transport, projection, underFence, inflight, stream, broker,
                   history, restarts>>

\* mark_position_command_unknown, for a command that is in doubt
MarkUnknown(c) ==
    /\ Unlocked /\ cmd[c].status = "UNKNOWN"
    /\ pos' = DoubtPosition(pos)
    /\ RecordUnknown({c}, DoubtAccount(acct))
    /\ UNCHANGED <<transport, cmd, record, prepared, known, inflight, stream, broker,
                   history, restarts>>

\* confirm_trailing, called with what the broker did; the work is left as it is
ConfirmTrailing(c) ==
    /\ Unlocked /\ cmd[c].kind = "TRAIL" /\ cmd[c].status = "UNKNOWN"
    /\ did[c] = "done"
    /\ cmd' = [cmd EXCEPT ![c].status = "CONFIRMED"]
    /\ pos' = [pos EXCEPT !.stop = cmd[c].stop]
    /\ UNCHANGED <<transport, record, prepared, known, doubt, inflight, stream, broker,
                   history, restarts>>

\* confirm_protection, by a caller who has seen the stop at the broker
ConfirmProtection ==
    /\ Unlocked /\ pos.prot # "CONFIRMED"
    /\ real.volume > 0 /\ real.stop = pos.stop
    /\ pos' = [pos EXCEPT !.prot = "CONFIRMED"]
    /\ LET a == RemoveReasons(acct, ProtectionReasons, FALSE, underFence)
       IN  acct' = IF Unresolved(work) # {} THEN [a EXCEPT !.gate = "QUARANTINED"]
                   ELSE RestoreTemporary(a, FALSE, FALSE, underFence)
    /\ UNCHANGED <<transport, cmd, record, prepared, known, work, underFence, inflight,
                   stream, broker, history, restarts>>

\* repair_native_protection: the stop that is applied again is native_stop_loss;
\* only an adapter can apply it.
RepairProtection(repaired) ==
    /\ Unlocked /\ pos.prot # "CONFIRMED"
    /\ repaired => transport = "direct" /\ real.volume > 0
    /\ IF repaired
       THEN /\ pos' = [pos EXCEPT !.prot = "CONFIRMED", !.stop = pos.native]
            /\ real' = [real EXCEPT !.stop = pos.native]
            /\ overtaken' = Overtakes /\ UNCHANGED denied
            /\ acct' = RemoveReasons(acct, ProtectionReasons, FALSE, underFence)
       ELSE /\ pos' = DoubtPosition(pos)
            /\ acct' = SetInterlock(Fence(acct), {"NATIVE_PROTECTION_UNVERIFIED"}, TRUE)
            /\ UNCHANGED <<real, history>>
    /\ UNCHANGED <<transport, cmd, record, prepared, known, work, underFence, inflight,
                   stream, deal, did, restarts>>

\* What it may report as REJECTED whether or not it was executed: the connector says
\* so of every command of the hello's recovery list, the unresolved work, that no
\* broker row names (NO_EFFECT), and the rows of its MT5 adapter name none.
Deniable(S) == IF transport = "stream" THEN S \cap Unresolved(work) ELSE {}

\* what a snapshot reports of c: REJECTED of the commands D, else the truth
Reported(c, D) == IF c \in D THEN "REJECTED" ELSE Verdict(c)

\* the commands whose row is read: of a settled one only a confirmation is
Heard(S, D) ==
    {c \in S : cmd[c].status \in {"CONFIRMED", "REJECTED"} => Reported(c, D) = "CONFIRMED"}

\* reconcile_observation on the position_commands of S
ObserveCommands(S, D) ==
    [c \in Commands |->
        IF c \in Heard(S, D) THEN [cmd[c] EXCEPT !.status = Reported(c, D)] ELSE cmd[c]]

\* the trailing stop that the last TRAIL confirmed in the snapshot leaves
ObserveTrails(S, D) ==
    LET trails == {c \in Heard(S, D) : cmd[c].kind = "TRAIL" /\ Reported(c, D) = "CONFIRMED"}
    IN  IF trails = {} THEN {pos} ELSE {TrailTo(pos, c) : c \in trails}

DeniedAfter(S, D) == denied \cup {c \in D \cap Heard(S, D) : did[c] = "done"}

\* Mutant: a broker row restores the confirmation whatever the stop.
ProjectAnyStop(p) ==
    IF real.volume = 0 THEN p
    ELSE [p EXCEPT !.remaining = real.volume, !.prot = "CONFIRMED"]

\* _project_position: a stop that is not the last confirmed one is not protection
Project(p) ==
    IF real.volume = 0 THEN p
    ELSE IF real.stop = p.stop
    THEN [p EXCEPT !.remaining = real.volume, !.prot = "CONFIRMED", !.native = p.stop]
    ELSE [p EXCEPT !.remaining = real.volume, !.prot = "UNCONFIRMED"]

\* its last lines, on the account
ProjectedAccount(a, q) ==
    IF q.prot # "CONFIRMED" /\ real.volume > 0
    THEN SetInterlock([a EXCEPT !.gate = "QUARANTINED"], ProtectionReasons, FALSE)
    ELSE a

Made == {d \in Commands \cup ExitDeals : deal[d] > 0}

Reconciled(S, w) ==
    /\ Unresolved(work) \subseteq S /\ Unresolved(w) = {}
    /\ \A c \in Commands : record[c].state # "UNKNOWN"

\* A snapshot lists open positions only; the commands of S have evidence in it.
Snapshot(S) ==
    /\ Unlocked /\ (transport = "stream" => session = "open")
    /\ S \subseteq {c \in Commands : cmd[c].status = "UNKNOWN" \/ did[c] # "nothing"}
    /\ S \cap wire = {}

\* reconcile_observation to its end
Observe(S, D, complete) ==
    /\ Snapshot(S) /\ (transport = "stream" => complete)
    /\ \E p \in ObserveTrails(S, D) :
           LET cs == ObserveCommands(S, D)
               q == Project(p)
               a == ProjectedAccount(CompleteWork(Heard(S, D), acct, cs, p), q)
               left == Unresolved(WorkAfter(Heard(S, D), cs)) # {}
               b == RestoreTemporary(a, left, Unconfirmed(q), underFence)
           IN  /\ cmd' = cs /\ pos' = q
               /\ work' = WorkAfter(Heard(S, D), cs)
               /\ acct' = IF complete THEN CompleteRestart(b, left) ELSE b
    /\ known' = known \cup Made
    /\ denied' = DeniedAfter(S, D)
    /\ session' = IF transport = "direct" THEN session
                  ELSE IF Reconciled(S, work') THEN "ready" ELSE "seen"
    /\ UNCHANGED <<transport, record, prepared, underFence, inflight, wire, orphans,
                   broker, overtaken, restarts>>

\* reconcile_observation raises at a row it cannot attribute (WRONG_ACCOUNT,
\* POSITION_ID_REQUIRED), which the stream's handler answers with an error: the commands
\* before that row have changed and their work is completed; the position is projected
\* after them and after the deals.  Raised before that, it has settled commands past the
\* projection, and which deals have a Fill by then nothing on the stream asks.  The
\* session stays unreconciled.
ObserveRaises(S, D, projected) ==
    /\ ForeignRows /\ transport = "stream" /\ Snapshot(S)
    /\ LET cs == ObserveCommands(S, D)
           a == CompleteWork(Heard(S, D), acct, cs, pos)
       IN  /\ cmd' = cs /\ work' = WorkAfter(Heard(S, D), cs)
           /\ IF projected THEN /\ pos' = Project(pos) /\ acct' = ProjectedAccount(a, pos')
                                /\ known' = known \cup Made
              ELSE acct' = a /\ UNCHANGED <<pos, known>>
    /\ denied' = DeniedAfter(S, D)
    /\ session' = "seen"
    /\ overtaken' = (overtaken \/ (~projected /\ cmd' # cmd))
    /\ UNCHANGED <<transport, record, prepared, underFence, inflight, wire, orphans,
                   broker, restarts>>

\* advance_recovery_deadlines
Escalate(c) ==
    /\ work[c] = "PENDING"
    /\ work' = [work EXCEPT ![c] = "ESCALATED"]
    /\ UNCHANGED <<transport, projection, acct, underFence, inflight, stream, broker,
                   history, restarts>>

\* Mutant: only orders are looked for when a checkpoint is loaded.
RestartOrdersOnly ==
    /\ restarts < MaxRestarts /\ restarts' = restarts + 1
    /\ acct' = BeginRestart(acct)
    /\ inflight' = NoCommand /\ session' = "closed"
    /\ orphans' = {c \in Commands : record[c].state = "SENT"}
    /\ UNCHANGED <<transport, projection, work, underFence, wire, broker, history>>

\* The process dies at any save, or during the adapter's call: _begin_restart_
\* recovery and _recover_inflight_subject.
Restart ==
    /\ restarts < MaxRestarts /\ restarts' = restarts + 1
    /\ LET doubtful == {c \in Commands : cmd[c].status \in {"DISPATCHING", "UNKNOWN"}}
       IN  /\ cmd' = [c \in Commands |-> IF c \in doubtful
                          THEN [cmd[c] EXCEPT !.status = "UNKNOWN"] ELSE cmd[c]]
           /\ RecordUnknown(doubtful, BeginRestart(acct))
    /\ inflight' = NoCommand /\ session' = "closed"
    /\ orphans' = {c \in Commands : record[c].state = "SENT"}
    /\ UNCHANGED <<transport, pos, record, prepared, known, wire, broker, history>>

-----------------------------------------------------------------------------
Requests ==
    \E c \in Commands :
        \/ \E v \in Volumes : RequestClose(c, v)
        \/ \E s \in 1..MaxStop : RequestProtection(c, s) \/ RequestTrailing(c, s)

DirectDispatch ==
    \/ CallActs \/ AnswerClear \/ AnswerAmbiguous
    \/ \E c \in Commands : BeginCall(c) \/ Incapable(c) \/ DispatchSettled(c)

StreamStep ==
    \/ OpenSession \/ LoseSession \/ Heartbeat
    \/ \E c \in Commands :
           \/ Prepare(c) \/ MarkSent(c) \/ Execute(c)
           \/ \E clear \in BOOLEAN : Result(c, clear)

ExitFills ==
    \E d \in Commands \cup ExitDeals :
        \/ \E s \in {"TP1", "TP2", "RUNNER", "CLOSE"} : RecordExitFill(d, s)
        \/ d \in ExitDeals /\ \E v \in 1..Lots : BrokerReduces(d, v)

Reconciliation ==
    \/ \E c \in Commands :
           RecoverCommand(c) \/ MarkUnknown(c) \/ ConfirmTrailing(c) \/ Escalate(c)
    \/ \E S \in SUBSET Commands : \E D \in SUBSET Deniable(S) :
           \/ \E complete \in BOOLEAN : Observe(S, D, complete)
           \/ \E projected \in BOOLEAN : ObserveRaises(S, D, projected)
    \/ ConfirmProtection \/ \E repaired \in BOOLEAN : RepairProtection(repaired)

Next == Requests \/ DirectDispatch \/ StreamStep \/ ExitFills \/ Reconciliation \/ Restart

Spec == Init /\ [][Next]_vars

-----------------------------------------------------------------------------
\* Every variable keeps its type.
TypeOK ==
    /\ transport \in {"direct", "stream"}
    /\ pos \in [remaining : 0..Lots, stage : Stages, stop : 1..MaxStop, native : 1..MaxStop,
                 prot : {"CONFIRMED", "UNCONFIRMED", "QUARANTINED"}]
    /\ cmd \in [Commands -> [kind : Kinds, volume : 0..Lots, stop : 0..MaxStop,
            status : {"RECEIVED", "DISPATCHING", "CONFIRMED", "UNKNOWN", "REJECTED"}]]
    /\ record \in [Commands -> [volume : 0..Lots,
            state : {"NONE", "QUEUED", "SENT", "ACCEPTED", "REJECTED", "UNKNOWN"}]]
    /\ prepared \in Seq(Commands) /\ known \subseteq Commands \cup ExitDeals
    /\ acct \in Account /\ work \in [Commands -> WorkStates] /\ underFence \in BOOLEAN
    /\ inflight \in Commands \cup {NoCommand}
    /\ session \in {"closed", "open", "seen", "ready"}
    /\ wire \subseteq Commands /\ orphans \subseteq Commands
    /\ real \in [volume : 0..Lots, stop : 1..MaxStop]
    /\ deal \in [Commands \cup ExitDeals -> 0..Lots]
    /\ did \in [Commands -> {"nothing", "done", "refused"}]
    /\ overtaken \in BOOLEAN /\ denied \subseteq Commands /\ restarts \in 0..MaxRestarts

\* The projection never shows less exposure than the broker holds: a deal counts
\* once, whether a result, an exit fill or a snapshot brought it, in whatever
\* order and however often.
ExposureNotUnderstated == pos.remaining >= real.volume

\* Confirmed protection is the broker's: with no command in doubt or in flight,
\* last_confirmed_stop of a CONFIRMED position is the stop at the broker.  The
\* exceptions are a stop that was changed past a command still in doubt, and a snapshot
\* that settled commands and was cut short before it reached the position.
StopIsTheBrokers ==
    pos.prot = "CONFIRMED" /\ real.volume > 0 /\ ~overtaken
        /\ InDoubt = {} /\ Unlocked /\ (\A c \in Commands : record[c].state # "SENT")
        => pos.stop = real.stop

\* A position command whose outcome nobody knows has work that somebody will
\* look at, also after a crash in the middle of the call.
DoubtHasWork ==
    \A c \in Commands :
        cmd[c].status = "UNKNOWN" \/ (cmd[c].status = "DISPATCHING" /\ inflight # c)
            => c \in Unresolved(work)

\* Without a change of protection by the operator the confirmed stop is never
\* loosened (strategy-templates-v0.md: trailing "never loosens confirmed SL").
NeverLooser ==
    [][pos'.stop < pos.stop => \E c \in Commands : cmd[c].kind = "PROTECTION"]_vars

\* What is settled about a command is what the broker did with it, or did not do and
\* will never do, whichever of the answer, the read-back and a snapshot settled it: a
\* command told to have failed may be requested again.  Only a snapshot that denied an
\* executed command makes it REJECTED; what is CONFIRMED was done without exception.
VerdictIsTrue ==
    \A c \in Commands :
        /\ cmd[c].status = "CONFIRMED" => did[c] = "done"
        /\ cmd[c].status = "REJECTED" => did[c] # "done" \/ c \in denied

\* The same without the exception: the connector's specification lets a command leave
\* UNKNOWN on proof only, of which NO_EFFECT without a correlation is none.  The code
\* breaks it.
DeniedOnProofOnly ==
    \A c \in Commands : cmd[c].status = "REJECTED" => did[c] # "done"

\* A position that is called CLOSED is flat at the broker: neither the gate nor a
\* repair looks at it again (_has_unconfirmed_open_protection).
ClosedIsFlat == pos.stage = "CLOSED" => pos.remaining = 0 /\ real.volume = 0

\* The projection follows reductions only: no snapshot that was overtaken, late
\* result or exit fill gives a position volume back.
RemainingOnlyFalls == [][pos'.remaining <= pos.remaining]_vars

-----------------------------------------------------------------------------
(* The view of the stream that StreamPromise states.                       *)

RecordState == [c \in Commands |-> record[c].state]
StreamSession == IF session = "seen" THEN "open" ELSE session
SentCommands == {c \in Commands : record[c].state = "SENT"}

Stream == INSTANCE StreamPromise
              WITH record <- RecordState, session <- StreamSession,
                   answers <- SentCommands \ (wire \cup orphans)

\* The records of position commands are treated as the stream promises, whatever
\* results, lost sessions, snapshots and restarts come in between
\* (connector_dispatch_result, mark_connector_session_lost).
StreamSpec == Stream!Spec

=============================================================================
