----------------------------- MODULE StreamPromise -----------------------------
(***************************************************************************)
(* What the connector stream promises about the durable dispatch records   *)
(* of an account: a command's frame goes out once, when its record turns     *)
(* from QUEUED to SENT in a session that was ready; a result settles the     *)
(* record only while it is SENT and only within the session that sent it;    *)
(* the end of the session turns what is still SENT into UNKNOWN; and what    *)
(* a record says then it says for ever.                                      *)
(*                                                                         *)
(* ExecutionCoordinator and PositionLifecycle are written with this view of  *)
(* the stream, ConnectorDelivery with the registry, the tasks and the frames *)
(* behind it: each of the three implements it.                               *)
(***************************************************************************)
CONSTANT Commands

VARIABLES
    record,    \* the ConnectorDispatchRecord of a command
    session,   \* "closed", "open", or "ready": no command was left UNKNOWN
    wire,      \* commands whose frame may still reach the connector
    answers    \* commands whose result may still reach the session

vars == <<record, session, wire, answers>>

Verdicts == {"ACCEPTED", "REJECTED", "UNKNOWN"}

Init ==
    /\ record = [c \in Commands |-> "NONE"] /\ session = "closed"
    /\ wire = {} /\ answers = {}

Queue(c) ==
    /\ record[c] = "NONE" /\ record' = [record EXCEPT ![c] = "QUEUED"]
    /\ UNCHANGED <<session, wire, answers>>

Open ==
    /\ session = "closed" /\ session' = "open"
    /\ wire' = {} /\ answers' = {}
    /\ UNCHANGED record

\* Only evidence on every command in doubt makes a session ready.
Ready ==
    /\ session = "open" /\ session' = "ready"
    /\ \A c \in Commands : record[c] # "UNKNOWN"
    /\ UNCHANGED <<record, wire, answers>>

Send(c) ==
    /\ session = "ready" /\ record[c] = "QUEUED"
    /\ record' = [record EXCEPT ![c] = "SENT"]
    /\ wire' = wire \cup {c}
    /\ UNCHANGED <<session, answers>>

\* The connector acts on a frame, once; its result may have no way back.
Act(c) ==
    /\ c \in wire /\ wire' = wire \ {c}
    /\ answers' \in {answers, answers \cup {c}}
    /\ UNCHANGED <<record, session>>

Settle(c, verdict) ==
    /\ session # "closed" /\ c \in answers /\ record[c] = "SENT"
    /\ record' = [record EXCEPT ![c] = verdict]
    /\ answers' = answers \ {c}
    /\ UNCHANGED <<session, wire>>

\* Frames and results are lost with the connection that carries them.
Drop ==
    /\ wire' \in SUBSET wire /\ answers' \in SUBSET answers
    /\ UNCHANGED <<record, session>>

Lose ==
    /\ session # "closed" /\ session' = "closed"
    /\ record' = [c \in Commands |->
           IF record[c] = "SENT" THEN "UNKNOWN" ELSE record[c]]
    /\ wire' \in SUBSET wire /\ answers' = {}

\* The backend dies: no result finds its session, and nothing is recorded.
Crash ==
    /\ session' = "closed" /\ answers' = {} /\ wire' \in SUBSET wire
    /\ UNCHANGED record

Next ==
    \/ \E c \in Commands :
           Queue(c) \/ Send(c) \/ Act(c) \/ \E v \in Verdicts : Settle(c, v)
    \/ Open \/ Ready \/ Drop \/ Lose \/ Crash

Spec == Init /\ [][Next]_vars
=============================================================================
