--------------------------- MODULE ConnectorDelivery ---------------------------
(***************************************************************************)
(* Delivery of durable dispatch records to the connector of one account:   *)
(* the in-memory registry and the bridge (connector_delivery.py), the       *)
(* websocket handler that drives them (main.py, connector_stream) with its  *)
(* two tasks deliver and send_ordered, and the connector's side of the      *)
(* stream (protocol.py, dispatcher.py) as far as sequences and epochs go.   *)
(*                                                                         *)
(* The handler runs on one event loop: a step is what happens between two   *)
(* points where it may wait.  The registry's lock is never held across such *)
(* a point, so that a registry call, and a bridge call made of a registry   *)
(* call and a coordinator call, is one step.  Requests that accept commands *)
(* or raise the epoch run in other threads, and may come between any two.   *)
(*                                                                         *)
(* One connector generation.  Heartbeats and other telemetry of the         *)
(* connector only move both sequences on, and are left out.                 *)
(***************************************************************************)
EXTENDS Integers, Sequences, FiniteSets

CONSTANTS
    Commands,       \* side-effecting commands
    Closes,         \* those of them that are a position.close
    NoCommand,      \* the command of a control frame
    MaxEpoch,       \* bound on fences
    MaxSessions,    \* bound on sessions
    MaxRestarts     \* bound on restarts, on each side

ASSUME DeliveryAssumption ==
    /\ NoCommand \notin Commands /\ IsFiniteSet(Commands)
    /\ Closes \subseteq Commands
    /\ MaxEpoch \in Nat /\ MaxSessions \in Nat /\ MaxRestarts \in Nat

VARIABLES
    \* the coordinator's durable state
    order,          \* dispatch_sequence (0: not accepted) and epoch of a command
    record,         \* state of the ConnectorDispatchRecord
    epoch,          \* execution_epoch of the account
    \* the registry
    session,        \* is a session registered, its epoch, is it reconciled?
    pending,        \* pending table: state and wire sequence of an envelope
    lastSequence, lastDispatch, received,
    \* the handler of the session
    stage,          \* "none", "greeting", "running", "ending"
    queue,          \* commands in the session's queue, in wire order
    outbound,       \* frames given to send_ordered
    expected,       \* the sequence send_ordered waits for
    \* the websocket and the connector
    linked, down, up,
    conn,           \* last_server_sequence, sequence, execution_epoch, and
                    \* last_dispatch_sequence of its journal
    journaled,      \* commands the connector's journal has received
    \* history and bounds
    handed,         \* how often a command was handed to the websocket
    acked,          \* the result the backend acknowledged to the connector
    inherited,      \* records SENT by a backend process that is gone
    refused,        \* commands refused as OUT_OF_ORDER_DISPATCH
    sessions, restarts

durable == <<order, record, epoch>>
registry == <<session, pending, lastSequence, lastDispatch, received>>
handler == <<stage, queue, outbound, expected>>
link == <<linked, down, up>>
remote == <<conn, journaled, refused>>
history == <<handed, acked, inherited>>
bounds == <<sessions, restarts>>
vars == <<durable, registry, handler, link, remote, history, bounds>>

Verdicts == {"ACCEPTED", "REJECTED", "UNKNOWN"}
RecordStates == {"NONE", "QUEUED", "SENT"} \cup Verdicts

NoSession == [active |-> FALSE, epoch |-> 0, reconciled |-> FALSE]
NotPending == [state |-> "NONE", seq |-> 0]

Frame(kind, seq, cmd) == [kind |-> kind, seq |-> seq, cmd |-> cmd, epoch |-> 0]
Report(kind, seq, cmd, verdict) ==
    [kind |-> kind, seq |-> seq, cmd |-> cmd, verdict |-> verdict]

Accepted(c) == order[c].seq # 0

Init ==
    /\ order = [c \in Commands |-> [seq |-> 0, epoch |-> 0]]
    /\ record = [c \in Commands |-> "NONE"] /\ epoch = 0
    /\ session = NoSession /\ pending = [c \in Commands |-> NotPending]
    /\ lastSequence = 0 /\ lastDispatch = 0 /\ received = 0
    /\ stage = "none" /\ queue = {} /\ outbound = {} /\ expected = 0
    /\ linked = FALSE /\ down = <<>> /\ up = <<>>
    /\ conn = [server |-> 0, seq |-> 0, epoch |-> 0, dispatched |-> 0]
    /\ journaled = {} /\ refused = {}
    /\ handed = [c \in Commands |-> 0] /\ acked = [c \in Commands |-> "none"]
    /\ inherited = {} /\ sessions = 0
    /\ restarts = [backend |-> 0, connector |-> 0]

-----------------------------------------------------------------------------
(* Requests.                                                               *)

\* accept_execution, or a position command: a dispatch sequence is allocated
\* with the current epoch, under the account lock.
Accept(c) ==
    /\ ~Accepted(c)
    /\ order' = [order EXCEPT ![c] =
           [seq |-> 1 + Cardinality({d \in Commands : Accepted(d)}),
            epoch |-> epoch]]
    /\ UNCHANGED <<record, epoch, registry, handler, link, remote, history, bounds>>

\* prepare_connector_dispatch, later in the same request and without the lock;
\* a record that exists is returned as it is.
Prepare(c) ==
    /\ Accepted(c) /\ record[c] = "NONE"
    /\ record' = [record EXCEPT ![c] = "QUEUED"]
    /\ UNCHANGED <<order, epoch, registry, handler, link, remote, history, bounds>>

\* install_fence
RaiseEpoch ==
    /\ epoch < MaxEpoch /\ epoch' = epoch + 1
    /\ UNCHANGED <<order, record, registry, handler, link, remote, history, bounds>>

-----------------------------------------------------------------------------
(* The session.                                                            *)

\* hello and open_session.  While a session is registered a hello is answered
\* SESSION_ALREADY_ACTIVE, without any change.
Open ==
    /\ ~session.active /\ sessions < MaxSessions
    /\ sessions' = sessions + 1
    /\ session' = [active |-> TRUE, epoch |-> epoch, reconciled |-> FALSE]
    /\ stage' = "greeting" /\ queue' = {} /\ outbound' = {} /\ expected' = 0
    /\ linked' = TRUE /\ down' = <<>> /\ up' = <<>>
    /\ UNCHANGED <<durable, pending, lastSequence, lastDispatch, received,
                   remote, history, restarts>>

\* queue_control: the frame takes the next sequence, whatever is still queued.
Control(kind, from) == from \cup {Frame(kind, lastSequence + 1, NoCommand)}

\* The snapshot is sent, with the epoch of this moment; the tasks are started,
\* and reconciliation.required is queued.
Greet ==
    /\ stage = "greeting" /\ linked
    /\ down' = Append(down,
           [Frame("snapshot", lastSequence, NoCommand) EXCEPT !.epoch = epoch])
    /\ expected' = lastSequence + 1
    /\ outbound' = Control("required", {})
    /\ lastSequence' = lastSequence + 1
    /\ stage' = "running"
    /\ UNCHANGED <<durable, session, pending, lastDispatch, received, queue,
                   linked, up, remote, history, bounds>>

\* Sending the snapshot raises: the handler is left before its try block, and
\* nothing closes the session.
GreetFails ==
    /\ stage = "greeting" /\ ~linked
    /\ stage' = "none"
    /\ UNCHANGED <<durable, registry, queue, outbound, expected, link, remote,
                   history, bounds>>

\* The connection breaks; what is on its way is lost.
Break ==
    /\ linked /\ linked' = FALSE /\ down' = <<>> /\ up' = <<>>
    /\ UNCHANGED <<durable, registry, handler, remote, history, bounds>>

\* receive_json raises: the handler comes to its finally block.
Disconnected ==
    /\ stage = "running" /\ ~linked
    /\ stage' = "ending"
    /\ UNCHANGED <<durable, registry, queue, outbound, expected, link, remote,
                   history, bounds>>

\* Mutant: what was SENT is queued once more.
CloseRequeueing ==
    /\ stage = "ending"
    /\ record' = [c \in Commands |->
           IF record[c] = "SENT" THEN "QUEUED" ELSE record[c]]
    /\ session' = NoSession /\ stage' = "none" /\ queue' = {} /\ outbound' = {}
    /\ linked' = FALSE /\ down' = <<>> /\ up' = <<>>
    /\ UNCHANGED <<order, epoch, pending, lastSequence, lastDispatch, received,
                   expected, remote, history, bounds>>

\* The end of the finally block: session_lost turns what was SENT into doubt,
\* and close_session forgets the queue, but not the pending table.
Close ==
    /\ stage = "ending"
    /\ record' = [c \in Commands |->
           IF record[c] = "SENT" THEN "UNKNOWN" ELSE record[c]]
    /\ session' = NoSession /\ stage' = "none" /\ queue' = {} /\ outbound' = {}
    /\ linked' = FALSE /\ down' = <<>> /\ up' = <<>>
    /\ UNCHANGED <<order, epoch, pending, lastSequence, lastDispatch, received,
                   expected, remote, history, bounds>>

-----------------------------------------------------------------------------
(* The tasks deliver and send_ordered, which also run while the finally     *)
(* block waits for outbound.                                                *)

Working == stage \in {"running", "ending"}

Earliest(S) == {c \in S : \A d \in S : pending[c].seq <= pending[d].seq}

\* Mutant: the durable record is left QUEUED.
DeliverUnmarked(c) ==
    /\ Working /\ c \in Earliest(queue)
    /\ queue' = queue \ {c}
    /\ pending' = [pending EXCEPT ![c].state = "SENT"]
    /\ outbound' = outbound \cup {Frame("command", pending[c].seq, c)}
    /\ UNCHANGED <<durable, session, lastSequence, lastDispatch, received,
                   stage, expected, link, remote, history, bounds>>

\* next_for_session, bridge.mark_sent (the registry and then the record, which
\* is saved) and the hand-over to send_ordered.
Deliver(c) ==
    /\ Working /\ c \in Earliest(queue)
    /\ pending[c].state = "QUEUED" /\ record[c] \in {"QUEUED", "SENT"}
    /\ queue' = queue \ {c}
    /\ pending' = [pending EXCEPT ![c].state = "SENT"]
    /\ record' = [record EXCEPT ![c] = "SENT"]
    /\ outbound' = outbound \cup {Frame("command", pending[c].seq, c)}
    /\ UNCHANGED <<order, epoch, session, lastSequence, lastDispatch, received,
                   stage, expected, link, remote, history, bounds>>

\* Mutant: frames are sent as they come.
DueAnyhow(f) == f \in outbound

\* send_ordered holds a frame back until all sequences before it were sent
Due(f) == f \in outbound /\ f.seq = expected

\* send_json; on a connection that broke unnoticed the frame is lost.
Write(f) ==
    /\ Working /\ Due(f)
    /\ outbound' = outbound \ {f} /\ expected' = expected + 1
    /\ down' = IF linked THEN Append(down, f) ELSE down
    /\ handed' = IF f.kind = "command" THEN [handed EXCEPT ![f.cmd] = @ + 1]
                 ELSE handed
    /\ UNCHANGED <<durable, registry, stage, queue, linked, up, remote, acked,
                   inherited, bounds>>

\* send_json raises on a broken connection.  The finally block awaits the
\* failed task, which raises again: session_lost and close_session are skipped.
WriterFails ==
    /\ Working /\ ~linked /\ \E f \in outbound : Due(f)
    /\ stage' = "none" /\ queue' = {} /\ outbound' = {}
    /\ UNCHANGED <<durable, registry, expected, link, remote, history, bounds>>

-----------------------------------------------------------------------------
(* The connector.                                                          *)

\* The connector reads the next frame and answers with the reports rs.
Read(kind, rs) ==
    /\ linked /\ down # <<>> /\ down[1].kind = kind
    /\ down' = Tail(down) /\ up' = up \o rs

\* accept_snapshot
ReadSnapshot ==
    /\ Read("snapshot", <<>>)
    /\ down[1].seq >= conn.server
    /\ conn' = [conn EXCEPT !.server = down[1].seq, !.epoch = down[1].epoch]
    /\ UNCHANGED <<durable, registry, handler, linked, journaled, refused,
                   history, bounds>>

\* accept_snapshot raises, as the server's sequence went backwards, and the
\* connector closes the connection.
RefuseSnapshot ==
    /\ linked /\ down # <<>>
    /\ down[1].kind = "snapshot" /\ down[1].seq < conn.server
    /\ linked' = FALSE /\ down' = <<>> /\ up' = <<>>
    /\ UNCHANGED <<durable, registry, handler, remote, history, bounds>>

\* _validate_inbound takes only the next sequence
Next1 == down[1].seq = conn.server + 1

\* reconciliation.required is answered with an account snapshot and the
\* observation of the broker.
ReadRequired ==
    /\ Read("required", <<Report("snapshot", conn.seq + 1, NoCommand, "none"),
                          Report("observation", conn.seq + 2, NoCommand, "none")>>)
    /\ Next1
    /\ conn' = [conn EXCEPT !.server = @ + 1, !.seq = @ + 2]
    /\ UNCHANGED <<durable, registry, handler, linked, journaled, refused,
                   history, bounds>>

\* acknowledgements and errors
ReadControl ==
    /\ Read("control", <<>>) /\ Next1
    /\ conn' = [conn EXCEPT !.server = @ + 1]
    /\ UNCHANGED <<durable, registry, handler, linked, journaled, refused,
                   history, bounds>>

\* dispatch() takes the frame's sequence for the dispatch sequence
InDispatchOrder(s) == conn.dispatched = 0 \/ s = conn.dispatched + 1

\* A command that was in the journal before is answered from there; a new one
\* of another epoch, or out of order, is REJECTED without a trace; and any
\* other is journaled and has some verdict.
ReadCommand ==
    LET c == down[1].cmd
        s == down[1].seq
        current == order[c].epoch = conn.epoch
        taken == current /\ (c \in journaled \/ InDispatchOrder(s))
    IN  \E v \in Verdicts :
            /\ Read("command", <<Report("result", conn.seq + 1, c, v)>>) /\ Next1
            /\ taken \/ v = "REJECTED"
            /\ conn' = [conn EXCEPT !.server = s, !.seq = @ + 1,
                            !.dispatched =
                                IF taken /\ c \notin journaled THEN s ELSE @]
            /\ journaled' = IF taken THEN journaled \cup {c} ELSE journaled
            /\ refused' = IF current /\ ~taken THEN refused \cup {c} ELSE refused
            /\ UNCHANGED <<durable, registry, handler, linked, history, bounds>>

-----------------------------------------------------------------------------
(* The handler's loop.                                                     *)

Receive(kind) ==
    /\ stage = "running" /\ linked /\ up # <<>> /\ up[1].kind = kind
    /\ up' = Tail(up)

\* accept_inbound and record_result take only the next sequence
InSequence(r) == r.seq = received + 1

\* accept_inbound refuses a report, which is answered with an error.
RefuseReport ==
    /\ \E kind \in {"snapshot", "observation"} : Receive(kind)
    /\ ~InSequence(up[1])
    /\ outbound' = Control("control", outbound) /\ lastSequence' = lastSequence + 1
    /\ UNCHANGED <<durable, session, pending, lastDispatch, received, stage,
                   queue, expected, linked, down, remote, history, bounds>>

\* an account snapshot is audited only
ReceiveSnapshot ==
    /\ Receive("snapshot") /\ InSequence(up[1])
    /\ received' = received + 1
    /\ UNCHANGED <<durable, session, pending, lastSequence, lastDispatch,
                   handler, linked, down, remote, history, bounds>>

\* reconciliation_observed is answered; the session stays as it is while the
\* observation is incomplete or a record is UNKNOWN.
ObserveInDoubt ==
    /\ Receive("observation") /\ InSequence(up[1])
    /\ received' = received + 1
    /\ outbound' = Control("control", outbound) /\ lastSequence' = lastSequence + 1
    /\ UNCHANGED <<durable, session, pending, lastDispatch, stage, queue,
                   expected, linked, down, remote, history, bounds>>

\* pending_connector_dispatches
Waiting == {c \in Commands : record[c] = "QUEUED"}

\* DUPLICATE_PENDING_COMMAND, from whatever session: the record is passed over
Duplicate(c) == pending[c].state # "NONE"

\* Mutant: the epoch is not looked at.
AdmissibleAnyEpoch(c) == Duplicate(c) \/ order[c].seq > lastDispatch

\* enqueue raises nothing that ends the replay: not STALE_EPOCH, which is
\* tested before the pending table, nor OUT_OF_ORDER_DISPATCH, tested after it
Admissible(c) ==
    /\ order[c].epoch = session.epoch
    /\ Duplicate(c) \/ order[c].seq > lastDispatch

\* what replay_unsent enqueues, in dispatch order, before an error that is not
\* deferred ends it
Enqueued ==
    {c \in Waiting : ~Duplicate(c) /\ \A d \in Waiting :
        order[d].seq <= order[c].seq => Admissible(d)}

Rank(c) == Cardinality({d \in Enqueued : order[d].seq <= order[c].seq})

\* mark_reconciled and replay_unsent.  The error that ends a replay also ends
\* the handler, by way of its finally block.
Replay ==
    /\ Receive("observation") /\ InSequence(up[1])
    /\ \A c \in Commands : record[c] # "UNKNOWN"
    /\ received' = received + 1
    /\ outbound' = Control("control", outbound)
    /\ session' = [session EXCEPT !.reconciled = TRUE]
    /\ pending' = [c \in Commands |->
           IF c \in Enqueued
           THEN [state |-> "QUEUED", seq |-> lastSequence + 1 + Rank(c)]
           ELSE pending[c]]
    /\ queue' = queue \cup Enqueued
    /\ lastSequence' = lastSequence + 1 + Cardinality(Enqueued)
    /\ lastDispatch' \in {lastDispatch} \cup {order[c].seq : c \in Enqueued}
    /\ \A c \in Enqueued : order[c].seq <= lastDispatch'
    /\ stage' = IF \A c \in Waiting : Admissible(c) THEN "running" ELSE "ending"
    /\ UNCHANGED <<durable, expected, linked, down, remote, history, bounds>>

\* record_result of the registry: the envelope is pending, the sequence the
\* next; and connector_dispatch_result: the record has no other verdict.
Registered(r) == pending[r.cmd].state # "NONE" /\ InSequence(r)
Settles(r) ==
    /\ pending[r.cmd].state \in {"SENT", r.verdict}
    /\ record[r.cmd] \in {"QUEUED", "SENT", r.verdict}

\* What connector_dispatch_result makes of the verdict that the registry has
\* taken: a close ACCEPTED without its filled_volume is UNKNOWN on record.
Recorded(r) ==
    IF record[r.cmd] \in Verdicts THEN {record[r.cmd]}
    ELSE {r.verdict} \cup
         {v \in {"UNKNOWN"} : r.verdict = "ACCEPTED" /\ r.cmd \in Closes}

\* Mutant: the result is acknowledged from the registry alone.
AcknowledgeUnrecorded ==
    /\ Receive("result") /\ Registered(up[1]) /\ Settles(up[1])
    /\ received' = received + 1
    /\ pending' = [pending EXCEPT ![up[1].cmd].state = up[1].verdict]
    /\ acked' = [acked EXCEPT ![up[1].cmd] = up[1].verdict]
    /\ outbound' = Control("control", outbound) /\ lastSequence' = lastSequence + 1
    /\ UNCHANGED <<durable, session, lastDispatch, stage, queue, expected,
                   linked, down, remote, handed, inherited, bounds>>

\* Mutant: the result does not count as a frame received.
AcknowledgeUncounted ==
    /\ Receive("result") /\ Registered(up[1]) /\ Settles(up[1])
    /\ pending' = [pending EXCEPT ![up[1].cmd].state = up[1].verdict]
    /\ \E v \in Recorded(up[1]) : record' = [record EXCEPT ![up[1].cmd] = v]
    /\ acked' = [acked EXCEPT ![up[1].cmd] = up[1].verdict]
    /\ outbound' = Control("control", outbound) /\ lastSequence' = lastSequence + 1
    /\ UNCHANGED <<order, epoch, session, lastDispatch, received, stage, queue,
                   expected, linked, down, remote, handed, inherited, bounds>>

\* The result is registered, recorded, and acknowledged as the registry has it.
\* Any other result is answered with an error; ResultsFit says there is none.
Acknowledge ==
    /\ Receive("result") /\ Registered(up[1]) /\ Settles(up[1])
    /\ received' = received + 1
    /\ pending' = [pending EXCEPT ![up[1].cmd].state = up[1].verdict]
    /\ \E v \in Recorded(up[1]) : record' = [record EXCEPT ![up[1].cmd] = v]
    /\ acked' = [acked EXCEPT ![up[1].cmd] = up[1].verdict]
    /\ outbound' = Control("control", outbound) /\ lastSequence' = lastSequence + 1
    /\ UNCHANGED <<order, epoch, session, lastDispatch, stage, queue, expected,
                   linked, down, remote, handed, inherited, bounds>>

-----------------------------------------------------------------------------
(* Restarts.                                                               *)

\* The backend process dies and starts again.  Registry and handler are gone;
\* a record that is SENT is not looked at.
RestartBackend ==
    /\ restarts.backend < MaxRestarts
    /\ restarts' = [restarts EXCEPT !.backend = @ + 1]
    /\ session' = NoSession /\ pending' = [c \in Commands |-> NotPending]
    /\ lastSequence' = 0 /\ lastDispatch' = 0 /\ received' = 0
    /\ stage' = "none" /\ queue' = {} /\ outbound' = {} /\ expected' = 0
    /\ linked' = FALSE /\ down' = <<>> /\ up' = <<>>
    /\ inherited' = inherited \cup {c \in Commands : record[c] = "SENT"}
    /\ UNCHANGED <<durable, remote, handed, acked, sessions>>

\* The connector process starts again: its sequences are in memory, its
\* journal is not.
RestartConnector ==
    /\ restarts.connector < MaxRestarts
    /\ restarts' = [restarts EXCEPT !.connector = @ + 1]
    /\ conn' = [conn EXCEPT !.server = 0, !.seq = 0]
    /\ linked' = FALSE /\ down' = <<>> /\ up' = <<>>
    /\ UNCHANGED <<durable, registry, handler, journaled, refused, history,
                   sessions>>

Next ==
    \/ \E c \in Commands : Accept(c) \/ Prepare(c) \/ Deliver(c)
    \/ \E f \in outbound : Write(f)
    \/ RaiseEpoch
    \/ Open \/ Greet \/ GreetFails \/ Break \/ Disconnected \/ Close
    \/ WriterFails
    \/ ReadSnapshot \/ RefuseSnapshot \/ ReadRequired \/ ReadControl
    \/ ReadCommand
    \/ RefuseReport \/ ReceiveSnapshot \/ ObserveInDoubt \/ Replay
    \/ Acknowledge
    \/ RestartBackend \/ RestartConnector

Spec == Init /\ [][Next]_vars

-----------------------------------------------------------------------------
(* Properties.                                                             *)

Frames ==
    [kind : {"snapshot", "required", "control"}, seq : Nat, cmd : {NoCommand},
     epoch : Nat]
    \cup [kind : {"command"}, seq : Nat, cmd : Commands, epoch : {0}]
Reports ==
    [kind : {"snapshot", "observation"}, seq : Nat, cmd : {NoCommand},
     verdict : {"none"}]
    \cup [kind : {"result"}, seq : Nat, cmd : Commands, verdict : Verdicts]

DurableOK ==
    /\ order \in [Commands -> [seq : Nat, epoch : Nat]]
    /\ record \in [Commands -> RecordStates] /\ epoch \in Nat

RegistryOK ==
    /\ session \in [active : BOOLEAN, epoch : Nat, reconciled : BOOLEAN]
    /\ pending \in [Commands -> [state : RecordStates, seq : Nat]]
    /\ lastSequence \in Nat /\ lastDispatch \in Nat /\ received \in Nat

\* a queue belongs to a working handler, and a handler to a session
HandlerOK ==
    /\ stage \in {"none", "greeting", "running", "ending"}
    /\ queue \in SUBSET Commands /\ outbound \in SUBSET Frames /\ expected \in Nat
    /\ Working \/ (queue = {} /\ outbound = {})
    /\ stage # "none" => session.active

LinkOK == linked \in BOOLEAN /\ down \in Seq(Frames) /\ up \in Seq(Reports)

RemoteOK ==
    /\ conn \in [server : Nat, seq : Nat, epoch : Nat, dispatched : Nat]
    /\ journaled \in SUBSET Commands /\ refused \in SUBSET Commands

HistoryOK ==
    /\ handed \in [Commands -> Nat]
    /\ acked \in [Commands -> Verdicts \cup {"none"}]
    /\ inherited \in SUBSET Commands /\ sessions \in Nat
    /\ restarts \in [backend : Nat, connector : Nat]

\* Every variable keeps its type, a queue belongs to a working handler, and
\* a handler to a registered session (main.py, connector_stream).
TypeOK ==
    DurableOK /\ RegistryOK /\ HandlerOK /\ LinkOK /\ RemoteOK /\ HistoryOK

\* Over all sessions, replays and restarts of either side, a command is handed
\* to the websocket at most once, since its durable record is SENT before
\* that (deliver, main.py:2191) and only QUEUED records are replayed.
NeverHandedTwice == \A c \in Commands : handed[c] <= 1

\* The pending table and the durable record, which are written one after the
\* other (mark_sent, record_result, session_lost), differ in nothing but doubt.
TablesAgree == \A c \in Commands :
    LET p == pending[c].state
    IN  /\ p = "QUEUED" => record[c] = "QUEUED"
        /\ p = "SENT" => record[c] \in {"SENT", "UNKNOWN"}
        /\ p \in Verdicts => record[c] \in {p, "UNKNOWN"}

\* A record is SENT only as long as a session is registered that may still
\* bring its result; the exception are records inherited from a backend
\* process that died, which no restart settles.
SentHasSession == \A c \in Commands \ inherited :
    record[c] = "SENT" => session.active

\* A result that was acknowledged to the connector is on record, then and ever
\* after, whatever session or process ends: it is never lost, reopened or turned
\* round.  One case is not word for word (execution.py:3156): a close that is
\* acknowledged as ACCEPTED may be UNKNOWN on record, never REJECTED or open.
AckedIsRecorded == \A c \in Commands :
    acked[c] # "none" =>
        \/ record[c] = acked[c]
        \/ c \in Closes /\ acked[c] = "ACCEPTED" /\ record[c] = "UNKNOWN"

\* execution.py:3135, "Persist a validated connector result before transport
\* acknowledgement", word for word.  It is violated by a close whose result
\* carries no filled_volume: the bridge answers what the registry returned.
AckedAsRecorded == \A c \in Commands :
    acked[c] # "none" => record[c] = acked[c]

\* A result that reaches the backend is never refused: its envelope is pending,
\* its sequence the next one and its record open, whatever was restarted or
\* refused before (record_result drops a result for each of these reasons, and
\* nothing would send it again).
ResultsFit ==
    stage = "running" /\ linked /\ up # <<>> /\ up[1].kind = "result" =>
        Registered(up[1]) /\ Settles(up[1])

\* Control frames and commands take their sequences at different times and
\* come to the websocket in any order; the connector, which drops a session at
\* the first sequence that is not the next, never has to.
NoGap ==
    linked /\ down # <<>> /\ down[1].kind # "snapshot" =>
        down[1].seq = conn.server + 1

InTransit == {f \in outbound \cup {down[i] : i \in 1..Len(down)} :
                  f.kind = "command"}

\* No command accepted before a fence crosses into a session that was opened
\* after it, however often it is replayed.
FenceStopsReplay ==
    \A f \in InTransit : session.active => order[f.cmd].epoch = session.epoch

\* docs/spec/mt5-connector-mvp.md:229: the dispatch sequence is what the
\* connector sees as sequence, so that it refuses a command as out of order
\* only if one that was accepted before is missing.
RefusedOnlyOnGap == \A c \in refused : \E d \in Commands \ journaled :
    Accepted(d) /\ order[d].seq < order[c].seq

\* docs/spec/mt5-connector-mvp.md:655: after every reconnect or detected
\* sequence gap the connector emits a complete observation, by which the
\* backend reconciles; so that the backend takes an observation that arrives.
ReconnectReconciles ==
    stage = "running" /\ linked /\ up # <<>> /\ up[1].kind = "observation" =>
        InSequence(up[1])

-----------------------------------------------------------------------------
(* The view of the stream that StreamPromise states.                       *)

StreamSession == IF ~session.active THEN "closed"
                 ELSE IF session.reconciled THEN "ready" ELSE "open"

Answers == {c \in Commands : record[c] = "SENT"
                /\ \E i \in 1..Len(up) : up[i].kind = "result" /\ up[i].cmd = c}

Stream == INSTANCE StreamPromise
              WITH session <- StreamSession, wire <- {f.cmd : f \in InTransit},
                   answers <- Answers

\* Registry, bridge, tasks and handler together keep what StreamPromise says of
\* the dispatch records, over failed writers, silent breaks of the connection
\* and restarts of either side (connector_delivery.py, connector_stream).
StreamSpec == Stream!Spec

=============================================================================
