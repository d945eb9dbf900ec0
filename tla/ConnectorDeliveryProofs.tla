------------------------ MODULE ConnectorDeliveryProofs ------------------------
(***************************************************************************)
(* Proofs about ConnectorDelivery, for any finite set of commands and any   *)
(* number of fences, sessions and restarts on both sides.                   *)
(***************************************************************************)
EXTENDS ConnectorDelivery, FiniteSetTheorems, TLAPS

\* The steps by what they may change.
Request == RaiseEpoch \/ \E c \in Commands : Accept(c) \/ Prepare(c)
Connection == Open \/ Greet \/ GreetFails \/ Break \/ Disconnected \/ Close
Task == WriterFails \/ (\E c \in Commands : Deliver(c)) \/ \E f \in outbound : Write(f)
Connector == ReadSnapshot \/ RefuseSnapshot \/ ReadRequired \/ ReadControl \/ ReadCommand
Reception == RefuseReport \/ ReceiveSnapshot \/ ObserveInDoubt \/ Replay \/ Acknowledge
Restart == RestartBackend \/ RestartConnector

LEMMA Steps ==
  ASSUME [Next]_vars
  PROVE  Request \/ Connection \/ Task \/ Connector \/ Reception \/ Restart
           \/ UNCHANGED vars
  BY Zenon DEF Next, Request, Connection, Task, Connector, Reception, Restart

LEMMA CountType ==
  ASSUME NEW S \in SUBSET Commands PROVE Cardinality(S) \in Nat
  BY DeliveryAssumption, FS_Subset, FS_CardinalityType

LEMMA CommandFrame ==
  ASSUME NEW n \in Nat, NEW c \in Commands
  PROVE  Frame("command", n, c) \in Frames
  BY DEF Frame, Frames

LEMMA ControlFrame ==
  ASSUME NEW kind \in {"required", "control"}, NEW n \in Nat
  PROVE  Frame(kind, n, NoCommand) \in Frames
  BY DEF Frame, Frames

LEMMA ControlType ==
  ASSUME NEW kind \in {"required", "control"}, NEW from \in SUBSET Frames,
         lastSequence \in Nat
  PROVE  Control(kind, from) \in SUBSET Frames
<1>1. Frame(kind, lastSequence + 1, NoCommand) \in Frames
  BY ControlFrame
<1> QED BY <1>1 DEF Control

LEMMA TailType ==
  ASSUME NEW S, NEW s \in Seq(S), s # <<>>
  PROVE  s[1] \in S /\ Tail(s) \in Seq(S)
  OBVIOUS

LEMMA InitType == Init => TypeOK
<1> SUFFICES ASSUME Init PROVE TypeOK
  OBVIOUS
<1>1. DurableOK /\ RegistryOK
  BY DEF Init, DurableOK, RegistryOK, NoSession, NotPending, RecordStates
<1>2. HandlerOK /\ RemoteOK
  BY DEF Init, HandlerOK, RemoteOK
<1>3. LinkOK
  <2>1. linked = FALSE /\ down = <<>> /\ up = <<>>
    BY DEF Init
  <2>2. <<>> \in Seq(Frames) /\ <<>> \in Seq(Reports)
    OBVIOUS
  <2> QED BY <2>1, <2>2 DEF LinkOK
<1>4. HistoryOK
  BY DEF Init, HistoryOK
<1> QED BY <1>1, <1>2, <1>3, <1>4 DEF TypeOK

-----------------------------------------------------------------------------
(* Every step keeps the types, part by part.                               *)

LEMMA DurableType ==
  ASSUME TypeOK, [Next]_vars PROVE DurableOK'
<1> USE DEF DurableOK
<1>0. DurableOK
  BY DEF TypeOK
<1>1. ASSUME NEW c \in Commands, Accept(c) PROVE DurableOK'
  <2>1. {d \in Commands : Accepted(d)} \in SUBSET Commands
    OBVIOUS
  <2>2. Cardinality({d \in Commands : Accepted(d)}) \in Nat
    BY <2>1, CountType
  <2> DEFINE n == 1 + Cardinality({d \in Commands : Accepted(d)})
  <2>3. n \in Nat
    BY <2>2
  <2>4. /\ order' = [order EXCEPT ![c] = [seq |-> n, epoch |-> epoch]]
        /\ record' = record /\ epoch' = epoch
    BY <1>1 DEF Accept
  <2> HIDE DEF n
  <2> QED BY <1>0, <2>3, <2>4
<1>2. ASSUME NEW c \in Commands, Prepare(c) PROVE DurableOK'
  BY <1>0, <1>2 DEF Prepare, RecordStates
<1>3. CASE RaiseEpoch
  BY <1>0, <1>3 DEF RaiseEpoch
<1>4. CASE Close
  BY <1>0, <1>4 DEF Close, RecordStates, Verdicts
<1>5. ASSUME NEW c \in Commands, Deliver(c) PROVE DurableOK'
  BY <1>0, <1>5 DEF Deliver, RecordStates
<1>6. CASE Acknowledge
  <2>1. up[1] \in Reports
    BY <1>6, TailType DEF Acknowledge, Receive, TypeOK, LinkOK
  <2>2. up[1].kind = "result"
    BY <1>6 DEF Acknowledge, Receive
  <2>3. up[1].cmd \in Commands /\ up[1].verdict \in Verdicts
    BY <2>1, <2>2 DEF Reports
  <2>4. PICK v \in Recorded(up[1]) : record' = [record EXCEPT ![up[1].cmd] = v]
    BY <1>6 DEF Acknowledge
  <2>5. v \in Verdicts
    BY <2>3 DEF Recorded, Verdicts
  <2>6. order' = order /\ epoch' = epoch
    BY <1>6 DEF Acknowledge
  <2> QED BY <1>0, <2>3, <2>4, <2>5, <2>6 DEF RecordStates
<1>7. ASSUME UNCHANGED durable PROVE DurableOK'
  BY <1>0, <1>7 DEF durable
<1>8. CASE Connection
  BY <1>4, <1>7, <1>8 DEF Connection, Open, Greet, GreetFails, Break, Disconnected
<1>9. CASE Task
  BY <1>5, <1>7, <1>9 DEF Task, Write, WriterFails
<1>10. CASE Connector
  BY <1>7, <1>10 DEF Connector, ReadSnapshot, RefuseSnapshot, ReadRequired,
                    ReadControl, ReadCommand
<1>11. CASE Reception
  BY <1>6, <1>7, <1>11 DEF Reception, RefuseReport, ReceiveSnapshot, ObserveInDoubt, Replay
<1>12. CASE Restart
  BY <1>7, <1>12 DEF Restart, RestartBackend, RestartConnector
<1>13. CASE UNCHANGED vars
  BY <1>7, <1>13 DEF vars
<1> QED
  BY <1>1, <1>2, <1>3, <1>8, <1>9, <1>10, <1>11, <1>12, <1>13, Steps DEF Request

\* the commands enqueued by a replay, and their ranks
LEMMA EnqueuedType ==
  /\ Enqueued \in SUBSET Commands
  /\ Cardinality(Enqueued) \in Nat
  /\ \A c \in Commands : Rank(c) \in Nat
<1>1. Enqueued \in SUBSET Commands
  BY DEF Enqueued, Waiting
<1>2. Cardinality(Enqueued) \in Nat
  BY <1>1, CountType
<1>3. ASSUME NEW c \in Commands PROVE Rank(c) \in Nat
  <2>1. {d \in Enqueued : order[d].seq <= order[c].seq} \in SUBSET Commands
    BY <1>1
  <2> QED BY <2>1, CountType DEF Rank
<1> QED BY <1>1, <1>2, <1>3

LEMMA RegistryType ==
  ASSUME TypeOK, [Next]_vars PROVE RegistryOK'
<1> USE DEF RegistryOK
<1>0. RegistryOK /\ DurableOK
  BY DEF TypeOK
<1>1. CASE Open
  BY <1>0, <1>1 DEF Open, DurableOK
<1>2. CASE Greet
  BY <1>0, <1>2 DEF Greet
<1>3. CASE Close
  BY <1>0, <1>3 DEF Close, NoSession
<1>4. ASSUME NEW c \in Commands, Deliver(c) PROVE RegistryOK'
  BY <1>0, <1>4 DEF Deliver, RecordStates
<1>5. CASE RefuseReport \/ ReceiveSnapshot \/ ObserveInDoubt
  BY <1>0, <1>5 DEF RefuseReport, ReceiveSnapshot, ObserveInDoubt
<1>6. CASE Replay
  <2> HIDE DEF RegistryOK
  <2>1. session' \in [active : BOOLEAN, epoch : Nat, reconciled : BOOLEAN]
    BY <1>0, <1>6 DEF Replay, RegistryOK
  <2>2. pending' \in [Commands -> [state : RecordStates, seq : Nat]]
    <3> HIDE DEF Rank, Enqueued
    <3>1. \A c \in Commands : lastSequence + 1 + Rank(c) \in Nat
      BY <1>0, EnqueuedType DEF RegistryOK
    <3>2. pending' = [c \in Commands |->
             IF c \in Enqueued
             THEN [state |-> "QUEUED", seq |-> lastSequence + 1 + Rank(c)]
             ELSE pending[c]]
      BY <1>6 DEF Replay
    <3> QED BY <1>0, <3>1, <3>2 DEF RegistryOK, RecordStates
  <2>3. lastSequence' \in Nat
    BY <1>0, <1>6, EnqueuedType DEF Replay, RegistryOK
  <2>4. lastDispatch' \in Nat
    BY <1>0, <1>6, EnqueuedType DEF Replay, RegistryOK, DurableOK
  <2>5. received' \in Nat
    BY <1>0, <1>6 DEF Replay, RegistryOK
  <2> QED BY <2>1, <2>2, <2>3, <2>4, <2>5 DEF RegistryOK
<1>7. CASE Acknowledge
  <2>1. up[1] \in Reports
    BY <1>7, TailType DEF Acknowledge, Receive, TypeOK, LinkOK
  <2>2. up[1].cmd \in Commands /\ up[1].verdict \in Verdicts
    BY <1>7, <2>1 DEF Reports, Acknowledge, Receive
  <2> QED BY <1>0, <1>7, <2>2 DEF Acknowledge, RecordStates
<1>8. CASE RestartBackend
  BY <1>8 DEF RestartBackend, NoSession, NotPending, RecordStates
<1>9. ASSUME UNCHANGED registry PROVE RegistryOK'
  BY <1>0, <1>9 DEF registry
<1>10. CASE Request
  BY <1>9, <1>10 DEF Request, RaiseEpoch, Accept, Prepare
<1>11. CASE Connection
  BY <1>1, <1>2, <1>3, <1>9, <1>11 DEF Connection, GreetFails, Break, Disconnected
<1>12. CASE Task
  BY <1>4, <1>9, <1>12 DEF Task, Write, WriterFails
<1>13. CASE Connector
  BY <1>9, <1>13 DEF Connector, ReadSnapshot, RefuseSnapshot, ReadRequired,
                    ReadControl, ReadCommand
<1>14. CASE Reception
  BY <1>5, <1>6, <1>7, <1>14 DEF Reception
<1>15. CASE Restart
  BY <1>8, <1>9, <1>15 DEF Restart, RestartConnector
<1>16. CASE UNCHANGED vars
  BY <1>9, <1>16 DEF vars
<1> QED
  BY <1>10, <1>11, <1>12, <1>13, <1>14, <1>15, <1>16, Steps

LEMMA HandlerType ==
  ASSUME TypeOK, [Next]_vars PROVE HandlerOK'
<1> USE DEF HandlerOK, Working
<1>0. HandlerOK /\ RegistryOK
  BY DEF TypeOK
<1>1. CASE Open
  BY <1>0, <1>1 DEF Open
<1>2. CASE Greet
  <2>1. Control("required", {}) \in SUBSET Frames
    BY <1>0, ControlType DEF RegistryOK
  <2> QED BY <1>0, <1>2, <2>1 DEF Greet, RegistryOK
<1>3. CASE GreetFails \/ Disconnected
  BY <1>0, <1>3 DEF GreetFails, Disconnected, registry
<1>4. CASE Close \/ WriterFails
  BY <1>0, <1>4 DEF Close, WriterFails, registry
<1>5. ASSUME NEW c \in Commands, Deliver(c) PROVE HandlerOK'
  <2>1. pending[c].seq \in Nat
    BY <1>0 DEF RegistryOK
  <2>2. Frame("command", pending[c].seq, c) \in Frames
    BY <2>1, CommandFrame
  <2>3. outbound' \in SUBSET Frames
    BY <1>0, <1>5, <2>2 DEF Deliver
  <2> QED BY <1>0, <1>5, <2>3 DEF Deliver
<1>6. ASSUME NEW f \in outbound, Write(f) PROVE HandlerOK'
  BY <1>0, <1>6 DEF Write, registry
<1>7. ASSUME stage = "running", outbound' = Control("control", outbound),
             queue' \in SUBSET Commands, stage' \in {"running", "ending"},
             expected' = expected, session'.active = session.active
      PROVE  HandlerOK'
  <2>1. Control("control", outbound) \in SUBSET Frames
    BY <1>0, ControlType DEF RegistryOK
  <2> QED BY <1>0, <1>7, <2>1
<1>8. CASE RefuseReport \/ ObserveInDoubt \/ Acknowledge
  BY <1>0, <1>7, <1>8 DEF RefuseReport, ObserveInDoubt, Acknowledge, Receive
<1>9. CASE Replay
  <2>1. stage = "running" /\ outbound' = Control("control", outbound)
        /\ expected' = expected /\ queue' = queue \cup Enqueued
        /\ session' = [session EXCEPT !.reconciled = TRUE]
        /\ stage' \in {"running", "ending"}
    BY <1>9 DEF Replay, Receive
  <2>2. queue' \in SUBSET Commands
    BY <1>0, <2>1, EnqueuedType
  <2>3. session'.active = session.active
    BY <1>0, <2>1 DEF RegistryOK
  <2> QED BY <1>7, <2>1, <2>2, <2>3
<1>10. CASE RestartBackend
  BY <1>10 DEF RestartBackend
<1>11. ASSUME UNCHANGED <<session, handler>> PROVE HandlerOK'
  BY <1>0, <1>11 DEF handler
<1>12. CASE Request
  BY <1>11, <1>12 DEF Request, RaiseEpoch, Accept, Prepare, registry
<1>13. CASE Connection
  BY <1>1, <1>2, <1>3, <1>4, <1>11, <1>13 DEF Connection, Break, registry
<1>14. CASE Task
  BY <1>4, <1>5, <1>6, <1>14 DEF Task
<1>15. CASE Connector
  BY <1>11, <1>15 DEF Connector, ReadSnapshot, RefuseSnapshot, ReadRequired,
                    ReadControl, ReadCommand, registry
<1>16. CASE Reception
  BY <1>8, <1>9, <1>11, <1>16 DEF Reception, ReceiveSnapshot
<1>17. CASE Restart
  BY <1>10, <1>11, <1>17 DEF Restart, RestartConnector, registry
<1>18. CASE UNCHANGED vars
  BY <1>11, <1>18 DEF vars, registry
<1> QED
  BY <1>12, <1>13, <1>14, <1>15, <1>16, <1>17, <1>18, Steps

LEMMA LinkType ==
  ASSUME TypeOK, [Next]_vars PROVE LinkOK'
<1> USE DEF LinkOK
<1>0. LinkOK /\ HandlerOK /\ DurableOK /\ RegistryOK /\ RemoteOK
  BY DEF TypeOK
<1>1. ASSUME linked' \in BOOLEAN, down' = <<>>, up' = <<>> PROVE LinkOK'
  <2>1. <<>> \in Seq(Frames) /\ <<>> \in Seq(Reports)
    OBVIOUS
  <2> QED BY <1>1, <2>1
<1>2. CASE Open \/ Break \/ Close \/ RefuseSnapshot \/ Restart
  <2>1. linked' \in BOOLEAN /\ down' = <<>> /\ up' = <<>>
    BY <1>2 DEF Open, Break, Close, RefuseSnapshot, Restart, RestartBackend,
                RestartConnector
  <2> QED BY <1>1, <2>1
<1>3. CASE Greet
  <2> DEFINE snapshot == [Frame("snapshot", lastSequence, NoCommand) EXCEPT !.epoch = epoch]
  <2>1. snapshot \in Frames
    BY <1>0 DEF Frame, Frames, DurableOK, RegistryOK
  <2>2. down' = Append(down, snapshot) /\ UNCHANGED <<linked, up>>
    BY <1>3 DEF Greet
  <2> HIDE DEF snapshot
  <2> QED BY <1>0, <2>1, <2>2
<1>4. ASSUME NEW f \in outbound, Write(f) PROVE LinkOK'
  <2>1. f \in Frames
    BY <1>0 DEF HandlerOK
  <2>2. down' = IF linked THEN Append(down, f) ELSE down
    BY <1>4 DEF Write
  <2>3. UNCHANGED <<linked, up>>
    BY <1>4 DEF Write
  <2> QED BY <1>0, <2>1, <2>2, <2>3
<1>5. ASSUME NEW kind, NEW rs \in Seq(Reports), Read(kind, rs), linked' = linked
      PROVE  LinkOK'
  <2>1. Tail(down) \in Seq(Frames)
    BY <1>0, <1>5, TailType DEF Read
  <2>2. up \o rs \in Seq(Reports)
    BY <1>0
  <2> QED BY <1>0, <1>5, <2>1, <2>2 DEF Read
<1>6. CASE ReadSnapshot \/ ReadControl
  <2>1. <<>> \in Seq(Reports)
    OBVIOUS
  <2>2. \E kind \in {"snapshot", "control"} : Read(kind, <<>>)
    BY <1>6 DEF ReadSnapshot, ReadControl
  <2>3. linked' = linked
    BY <1>6 DEF ReadSnapshot, ReadControl
  <2> QED BY <1>5, <2>1, <2>2, <2>3
<1>7. CASE ReadRequired
  <2> DEFINE r1 == Report("snapshot", conn.seq + 1, NoCommand, "none")
             r2 == Report("observation", conn.seq + 2, NoCommand, "none")
  <2>1. r1 \in Reports /\ r2 \in Reports
    BY <1>0 DEF Report, Reports, RemoteOK
  <2>2. Read("required", <<r1, r2>>) /\ linked' = linked
    BY <1>7 DEF ReadRequired
  <2> HIDE DEF r1, r2
  <2>3. <<r1, r2>> \in Seq(Reports)
    BY <2>1
  <2> QED BY <1>5, <2>2, <2>3
<1>8. CASE ReadCommand
  <2>1. PICK v \in Verdicts :
          /\ Read("command", <<Report("result", conn.seq + 1, down[1].cmd, v)>>)
          /\ linked' = linked
    BY <1>8 DEF ReadCommand
  <2>2. down[1] \in Frames /\ down[1].kind = "command"
    BY <1>0, <2>1, TailType DEF Read
  <2>3. down[1].cmd \in Commands
    BY <2>2 DEF Frames
  <2> DEFINE r == Report("result", conn.seq + 1, down[1].cmd, v)
  <2>4. r \in Reports
    BY <1>0, <2>3 DEF Report, Reports, RemoteOK
  <2>5. Read("command", <<r>>) /\ linked' = linked
    BY <2>1
  <2> HIDE DEF r
  <2>6. <<r>> \in Seq(Reports)
    BY <2>4
  <2> QED BY <1>5, <2>5, <2>6
<1>9. CASE Reception
  <2>1. up # <<>> /\ up' = Tail(up) /\ UNCHANGED <<linked, down>>
    BY <1>9 DEF Reception, RefuseReport, ReceiveSnapshot, ObserveInDoubt, Replay,
                Acknowledge, Receive
  <2>2. Tail(up) \in Seq(Reports)
    BY <1>0, <2>1, TailType
  <2> QED BY <1>0, <2>1, <2>2
<1>10. ASSUME UNCHANGED link PROVE LinkOK'
  BY <1>0, <1>10 DEF link
<1>11. CASE Request
  BY <1>10, <1>11 DEF Request, RaiseEpoch, Accept, Prepare
<1>12. CASE Connection
  BY <1>2, <1>3, <1>10, <1>12 DEF Connection, GreetFails, Disconnected
<1>13. CASE Task
  BY <1>4, <1>10, <1>13 DEF Task, Deliver, WriterFails
<1>14. CASE Connector
  BY <1>2, <1>6, <1>7, <1>8, <1>14 DEF Connector
<1>15. CASE UNCHANGED vars
  BY <1>10, <1>15 DEF vars
<1> QED
  BY <1>2, <1>9, <1>11, <1>12, <1>13, <1>14, <1>15, Steps

LEMMA RemoteType ==
  ASSUME TypeOK, [Next]_vars PROVE RemoteOK'
<1> USE DEF RemoteOK
<1>0. RemoteOK /\ LinkOK
  BY DEF TypeOK
<1>1. ASSUME down # <<>>
      PROVE  /\ down[1].seq \in Nat /\ down[1].epoch \in Nat
             /\ down[1].kind = "command" => down[1].cmd \in Commands
  <2>1. down[1] \in Frames
    BY <1>0, <1>1, TailType DEF LinkOK
  <2> QED BY <2>1 DEF Frames
<1>2. CASE ReadSnapshot
  BY <1>0, <1>1, <1>2 DEF ReadSnapshot, Read
<1>3. CASE ReadRequired \/ ReadControl
  <2>1. \/ conn' = [conn EXCEPT !.server = @ + 1, !.seq = @ + 2]
        \/ conn' = [conn EXCEPT !.server = @ + 1]
    BY <1>3 DEF ReadRequired, ReadControl
  <2>2. UNCHANGED <<journaled, refused>>
    BY <1>3 DEF ReadRequired, ReadControl
  <2>3. conn.server + 1 \in Nat /\ conn.seq + 2 \in Nat
    BY <1>0
  <2>4. conn' \in [server : Nat, seq : Nat, epoch : Nat, dispatched : Nat]
    BY <1>0, <2>1, <2>3
  <2> QED BY <1>0, <2>2, <2>4
<1>4. CASE ReadCommand
  <2> DEFINE c == down[1].cmd
             s == down[1].seq
             current == order[c].epoch = conn.epoch
             taken == current /\ (c \in journaled \/ InDispatchOrder(s))
  <2>1. /\ down # <<>> /\ down[1].kind = "command"
        /\ conn' = [conn EXCEPT !.server = s, !.seq = @ + 1,
                        !.dispatched =
                            IF taken /\ c \notin journaled THEN s ELSE @]
        /\ journaled' = IF taken THEN journaled \cup {c} ELSE journaled
        /\ refused' = IF current /\ ~taken THEN refused \cup {c} ELSE refused
    BY <1>4 DEF ReadCommand, Read
  <2>2. c \in Commands /\ s \in Nat
    BY <1>1, <2>1
  <2> HIDE DEF taken, current, c, s
  <2>3. conn.seq + 1 \in Nat
    BY <1>0
  <2>4. conn' \in [server : Nat, seq : Nat, epoch : Nat, dispatched : Nat]
    BY <1>0, <2>1, <2>2, <2>3
  <2>5. journaled' \in SUBSET Commands /\ refused' \in SUBSET Commands
    BY <1>0, <2>1, <2>2
  <2> QED BY <2>4, <2>5
<1>5. CASE RestartConnector
  BY <1>0, <1>5 DEF RestartConnector
<1>6. ASSUME UNCHANGED remote PROVE RemoteOK'
  BY <1>0, <1>6 DEF remote
<1>7. CASE Request
  BY <1>6, <1>7 DEF Request, RaiseEpoch, Accept, Prepare
<1>8. CASE Connection
  BY <1>6, <1>8 DEF Connection, Open, Greet, GreetFails, Break, Disconnected, Close
<1>9. CASE Task
  BY <1>6, <1>9 DEF Task, Deliver, Write, WriterFails
<1>10. CASE Connector
  BY <1>2, <1>3, <1>4, <1>6, <1>10 DEF Connector, RefuseSnapshot
<1>11. CASE Reception
  BY <1>6, <1>11 DEF Reception, RefuseReport, ReceiveSnapshot, ObserveInDoubt,
                     Replay, Acknowledge
<1>12. CASE Restart
  BY <1>5, <1>6, <1>12 DEF Restart, RestartBackend
<1>13. CASE UNCHANGED vars
  BY <1>6, <1>13 DEF vars
<1> QED
  BY <1>7, <1>8, <1>9, <1>10, <1>11, <1>12, <1>13, Steps

LEMMA HistoryType ==
  ASSUME TypeOK, [Next]_vars PROVE HistoryOK'
<1> USE DEF HistoryOK
<1>0. HistoryOK
  BY DEF TypeOK
<1>1. CASE Open
  BY <1>0, <1>1 DEF Open, history
<1>2. ASSUME NEW f \in outbound, Write(f) PROVE HistoryOK'
  <2>1. handed' \in [Commands -> Nat]
    <3>1. f \in Frames
      BY DEF TypeOK, HandlerOK
    <3>2. f.kind = "command" => f.cmd \in Commands
      BY <3>1 DEF Frames
    <3>3. handed' = IF f.kind = "command" THEN [handed EXCEPT ![f.cmd] = @ + 1]
                    ELSE handed
      BY <1>2 DEF Write
    <3> QED BY <1>0, <3>2, <3>3
  <2> QED BY <1>0, <1>2, <2>1 DEF Write, bounds
<1>3. CASE Acknowledge
  <2>1. up[1] \in Reports
    BY <1>3, TailType DEF Acknowledge, Receive, TypeOK, LinkOK
  <2>2. up[1].cmd \in Commands /\ up[1].verdict \in Verdicts
    BY <1>3, <2>1 DEF Reports, Acknowledge, Receive
  <2> QED BY <1>0, <1>3, <2>2 DEF Acknowledge, bounds
<1>4. CASE RestartBackend
  BY <1>0, <1>4 DEF RestartBackend
<1>5. CASE RestartConnector
  BY <1>0, <1>5 DEF RestartConnector, history
<1>6. ASSUME UNCHANGED <<history, bounds>> PROVE HistoryOK'
  BY <1>0, <1>6 DEF history, bounds
<1>7. CASE Request
  BY <1>6, <1>7 DEF Request, RaiseEpoch, Accept, Prepare
<1>8. CASE Connection
  BY <1>1, <1>6, <1>8 DEF Connection, Greet, GreetFails, Break, Disconnected, Close
<1>9. CASE Task
  BY <1>2, <1>6, <1>9 DEF Task, Deliver, WriterFails
<1>10. CASE Connector
  BY <1>6, <1>10 DEF Connector, ReadSnapshot, RefuseSnapshot, ReadRequired,
                     ReadControl, ReadCommand
<1>11. CASE Reception
  BY <1>3, <1>6, <1>11 DEF Reception, RefuseReport, ReceiveSnapshot, ObserveInDoubt,
                     Replay, history
<1>12. CASE Restart
  BY <1>4, <1>5, <1>12 DEF Restart
<1>13. CASE UNCHANGED vars
  BY <1>6, <1>13 DEF vars
<1> QED
  BY <1>7, <1>8, <1>9, <1>10, <1>11, <1>12, <1>13, Steps

\* The state is well-typed in every behaviour, whatever the frames in flight
\* are; a queue has a handler, and a handler its registered session
\* (main.py:2113, connector_stream).
THEOREM TypeCorrect == Spec => []TypeOK
<1>1. TypeOK /\ [Next]_vars => TypeOK'
  BY DurableType, RegistryType, HandlerType, LinkType, RemoteType, HistoryType
  DEF TypeOK
<1> QED BY InitType, <1>1, PTL DEF Spec

-----------------------------------------------------------------------------
(* The inductive invariant, and what follows from it: a command is handed  *)
(* to the websocket at most once, no fenced command reaches a later         *)
(* session, the two tables agree, what was acknowledged is the record, and  *)
(* the stream of one session has no gap.                                    *)


\* Only accepted commands have records; what is queued is QUEUED in both
\* tables, and of the epoch of its session.
QueueOK ==
    /\ \A c \in Commands : record[c] # "NONE" => Accepted(c)
    /\ \A c \in queue : /\ pending[c].state = "QUEUED" /\ record[c] = "QUEUED"
                        /\ order[c].epoch = session.epoch

\* A command that is yet to be delivered was never handed over; of a command
\* that was delivered there is one frame at most, and as long as it waits the
\* command was not handed over either.
SendingOK ==
    /\ \A c \in Commands : record[c] \in {"NONE", "QUEUED"} => handed[c] = 0
    /\ \A f \in outbound : f.kind = "command" =>
           /\ handed[f.cmd] = 0 /\ record[f.cmd] \notin {"NONE", "QUEUED"}
           /\ order[f.cmd].epoch = session.epoch
    /\ \A f, g \in outbound :
           f.kind = "command" /\ g.kind = "command" /\ f.cmd = g.cmd => f = g

\* Commands on their way to the connector are of the session's epoch.
DownOK == \A i \in 1..Len(down) : down[i].kind = "command" =>
    /\ record[down[i].cmd] # "NONE"
    /\ session.active => order[down[i].cmd].epoch = session.epoch

DeliveryInv ==
    /\ TypeOK /\ QueueOK /\ TablesAgree /\ SendingOK /\ NeverHandedTwice
    /\ SentHasSession /\ AckedIsRecorded /\ DownOK

LEMMA InitInv == Init => DeliveryInv
<1> SUFFICES ASSUME Init PROVE DeliveryInv
  OBVIOUS
<1>1. TypeOK
  BY InitType
<1>2. QueueOK /\ SendingOK
  BY DEF Init, QueueOK, SendingOK
<1>3. TablesAgree /\ SentHasSession /\ AckedIsRecorded /\ NeverHandedTwice
  BY DEF Init, TablesAgree, SentHasSession, AckedIsRecorded, NeverHandedTwice,
         NotPending, Verdicts
<1>4. DownOK
  BY DEF Init, DownOK
<1> QED BY <1>1, <1>2, <1>3, <1>4 DEF DeliveryInv

-----------------------------------------------------------------------------
(* What the larger steps do to the variables the invariant is about.       *)

LEMMA AddedFrame ==
  ASSUME NEW kind, NEW from, NEW f \in Control(kind, from)
  PROVE  f \in from \/ f.kind = kind
  BY DEF Control, Frame

LEMMA ReplayFacts ==
  ASSUME TypeOK, Replay
  PROVE  /\ \A c \in Enqueued :
              /\ c \in Commands /\ record[c] = "QUEUED" /\ pending[c].state = "NONE"
              /\ order[c].epoch = session.epoch /\ pending'[c].state = "QUEUED"
         /\ \A c \in Commands \ Enqueued : pending'[c] = pending[c]
         /\ session'.epoch = session.epoch /\ session'.active = session.active
         /\ queue' = queue \cup Enqueued /\ outbound' = Control("control", outbound)
         /\ UNCHANGED <<durable, expected, linked, down, handed, acked, inherited>>
<1>1. ASSUME NEW c \in Enqueued
      PROVE  /\ c \in Commands /\ record[c] = "QUEUED" /\ pending[c].state = "NONE"
             /\ order[c].epoch = session.epoch
  <2>1. c \in Waiting /\ ~Duplicate(c)
    BY DEF Enqueued
  <2>2. order[c].seq <= order[c].seq
    BY <2>1 DEF Waiting, TypeOK, DurableOK
  <2>3. Admissible(c)
    BY <2>1, <2>2 DEF Enqueued
  <2> QED BY <2>1, <2>3 DEF Waiting, Duplicate, Admissible
<1>2. pending' = [c \in Commands |->
           IF c \in Enqueued
           THEN [state |-> "QUEUED", seq |-> lastSequence + 1 + Rank(c)]
           ELSE pending[c]]
  BY DEF Replay
<1>3. session' = [session EXCEPT !.reconciled = TRUE]
  BY DEF Replay
<1>4. session'.epoch = session.epoch /\ session'.active = session.active
  BY <1>3 DEF TypeOK, RegistryOK
<1>5. /\ queue' = queue \cup Enqueued /\ outbound' = Control("control", outbound)
      /\ UNCHANGED <<durable, expected, linked, down, handed, acked, inherited>>
  BY DEF Replay, history
<1> HIDE DEF Enqueued
<1>6. \A c \in Enqueued : c \in Commands
  BY <1>1
<1>7. \A c \in Enqueued : pending'[c].state = "QUEUED"
  BY <1>2, <1>6
<1>8. \A c \in Commands \ Enqueued : pending'[c] = pending[c]
  BY <1>2
<1> QED BY <1>1, <1>4, <1>5, <1>7, <1>8

LEMMA AcknowledgeFacts ==
  ASSUME TypeOK, Acknowledge
  PROVE  \E c \in Commands, v, w \in Verdicts :
           /\ pending[c].state \in {"SENT", v} /\ record[c] \in {"QUEUED", "SENT", v}
           /\ w = v \/ (c \in Closes /\ v = "ACCEPTED" /\ w = "UNKNOWN")
           /\ pending' = [pending EXCEPT ![c].state = v]
           /\ record' = [record EXCEPT ![c] = w]
           /\ acked' = [acked EXCEPT ![c] = v]
           /\ outbound' = Control("control", outbound)
           /\ UNCHANGED <<order, session, queue, expected, linked, down, handed, inherited>>
<1>1. up[1] \in Reports /\ up[1].kind = "result"
  BY TailType DEF Acknowledge, Receive, TypeOK, LinkOK
<1>2. up[1].cmd \in Commands /\ up[1].verdict \in Verdicts
  BY <1>1 DEF Reports
<1> DEFINE c == up[1].cmd
           v == up[1].verdict
<1>3. PICK w \in Recorded(up[1]) : record' = [record EXCEPT ![c] = w]
  BY DEF Acknowledge
<1>4. pending[c].state \in {"SENT", v} /\ record[c] \in {"QUEUED", "SENT", v}
  BY DEF Acknowledge, Settles
<1>5. w = v \/ (c \in Closes /\ v = "ACCEPTED" /\ w = "UNKNOWN")
  BY <1>2, <1>4 DEF Recorded, Verdicts
<1>6. w \in Verdicts
  BY <1>2, <1>5 DEF Verdicts
<1>7. /\ pending' = [pending EXCEPT ![c].state = v]
      /\ acked' = [acked EXCEPT ![c] = v]
      /\ outbound' = Control("control", outbound)
      /\ UNCHANGED <<order, session, queue, expected, linked, down, handed, inherited>>
  BY DEF Acknowledge
<1> HIDE DEF c, v
<1> QED BY <1>2, <1>3, <1>4, <1>5, <1>6, <1>7 DEF c, v

-----------------------------------------------------------------------------
(* Every step keeps each part.                                             *)

\* the steps that leave the tables alone
LEMMA Quiet ==
  ASSUME \/ RaiseEpoch \/ Greet \/ GreetFails \/ Break \/ Disconnected
         \/ Connector \/ ReceiveSnapshot \/ RestartConnector \/ UNCHANGED vars
  PROVE  /\ UNCHANGED <<order, record, session, pending, queue>>
         /\ UNCHANGED history
  BY DEF RaiseEpoch, Greet, GreetFails, Break, Disconnected, Connector,
         ReadSnapshot, RefuseSnapshot, ReadRequired, ReadControl, ReadCommand,
         ReceiveSnapshot, RestartConnector, vars, durable, registry, handler

LEMMA QueueStep ==
  ASSUME DeliveryInv, [Next]_vars PROVE QueueOK'
<1> USE DEF QueueOK, Accepted
<1>0. QueueOK /\ TypeOK /\ DurableOK /\ RegistryOK /\ HandlerOK
  BY DEF DeliveryInv, TypeOK
<1>1. ASSUME NEW c \in Commands, Accept(c) PROVE QueueOK'
  <2>1. record[c] = "NONE" /\ c \notin queue
    BY <1>0, <1>1 DEF Accept, DurableOK, HandlerOK
  <2>2. \A d \in Commands : d # c => order'[d] = order[d]
    BY <1>0, <1>1 DEF Accept, DurableOK
  <2>3. UNCHANGED <<record, pending, queue, session>>
    BY <1>1 DEF Accept, registry, handler
  <2> QED BY <1>0, <2>1, <2>2, <2>3 DEF HandlerOK
<1>2. ASSUME NEW c \in Commands, Prepare(c) PROVE QueueOK'
  BY <1>0, <1>2 DEF Prepare, DurableOK, HandlerOK, registry, handler
<1>3. ASSUME queue' = {}, order' = order,
             \A c \in Commands : record'[c] # "NONE" => record[c] # "NONE"
      PROVE  QueueOK'
  BY <1>0, <1>3
<1>4. CASE Open \/ Close \/ WriterFails \/ RestartBackend
  BY <1>0, <1>3, <1>4 DEF Open, Close, WriterFails, RestartBackend, durable, DurableOK
<1>5. ASSUME NEW c \in Commands, Deliver(c) PROVE QueueOK'
  BY <1>0, <1>5 DEF Deliver, DurableOK, RegistryOK, HandlerOK
<1>6. ASSUME NEW f \in outbound, Write(f) PROVE QueueOK'
  BY <1>0, <1>6 DEF Write, durable, registry
<1>7. CASE RefuseReport \/ ObserveInDoubt
  BY <1>0, <1>7 DEF RefuseReport, ObserveInDoubt, durable
<1>8. CASE Replay
  <2>1. \A c \in queue : c \in Commands
    BY <1>0 DEF HandlerOK
  <2> HIDE DEF Enqueued, Replay
  <2> QED BY <1>0, <1>8, <2>1, ReplayFacts DEF durable
<1>9. CASE Acknowledge
  <2>1. PICK c \in Commands, v, w \in Verdicts :
          /\ pending[c].state \in {"SENT", v} /\ record[c] \in {"QUEUED", "SENT", v}
          /\ pending' = [pending EXCEPT ![c].state = v]
          /\ record' = [record EXCEPT ![c] = w]
          /\ UNCHANGED <<order, session, queue>>
    BY <1>0, <1>9, AcknowledgeFacts
  <2>2. c \notin queue
    BY <1>0, <2>1 DEF Verdicts
  <2> QED BY <1>0, <2>1, <2>2 DEF Verdicts, DurableOK, RegistryOK, HandlerOK
<1>10. ASSUME UNCHANGED <<order, record, session, pending, queue>> PROVE QueueOK'
  BY <1>0, <1>10
<1> QED
  BY <1>1, <1>2, <1>4, <1>5, <1>6, <1>7, <1>8, <1>9, <1>10, Steps, Quiet
  DEF Request, Connection, Task, Reception, Restart

LEMMA TablesStep ==
  ASSUME DeliveryInv, [Next]_vars PROVE TablesAgree'
<1> USE DEF TablesAgree, Verdicts
<1>0. QueueOK /\ TablesAgree /\ TypeOK /\ DurableOK /\ RegistryOK /\ HandlerOK
  BY DEF DeliveryInv, TypeOK
<1>1. ASSUME NEW c \in Commands, Prepare(c) PROVE TablesAgree'
  BY <1>0, <1>1 DEF Prepare, DurableOK, registry
<1>2. CASE Close
  BY <1>0, <1>2 DEF Close, DurableOK
<1>3. ASSUME NEW c \in Commands, Deliver(c) PROVE TablesAgree'
  BY <1>0, <1>3 DEF Deliver, DurableOK, RegistryOK
<1>4. CASE Replay
  <2> HIDE DEF Enqueued, Replay
  <2> QED BY <1>0, <1>4, ReplayFacts DEF durable
<1>5. CASE Acknowledge
  <2>1. PICK c \in Commands, v, w \in Verdicts :
          /\ pending' = [pending EXCEPT ![c].state = v]
          /\ record' = [record EXCEPT ![c] = w] /\ w \in {v, "UNKNOWN"}
    BY <1>0, <1>5, AcknowledgeFacts
  <2> QED BY <1>0, <2>1 DEF DurableOK, RegistryOK
<1>6. CASE RestartBackend
  BY <1>6 DEF RestartBackend, NotPending
<1>7. ASSUME UNCHANGED <<record, pending>> PROVE TablesAgree'
  BY <1>0, <1>7
<1>8. ASSUME NEW c \in Commands, Accept(c) PROVE TablesAgree'
  BY <1>7, <1>8 DEF Accept, registry
<1>9. CASE Open \/ WriterFails \/ RefuseReport \/ ObserveInDoubt
  BY <1>7, <1>9 DEF Open, WriterFails, RefuseReport, ObserveInDoubt, durable, registry
<1>10. ASSUME NEW f \in outbound, Write(f) PROVE TablesAgree'
  BY <1>7, <1>10 DEF Write, durable, registry
<1> QED
  BY <1>1, <1>2, <1>3, <1>4, <1>5, <1>6, <1>7, <1>8, <1>9, <1>10, Steps, Quiet
  DEF Request, Connection, Task, Reception, Restart

LEMMA SendingStep ==
  ASSUME DeliveryInv, [Next]_vars PROVE SendingOK'
<1> USE DEF SendingOK
<1>0. QueueOK /\ SendingOK /\ DurableOK /\ RegistryOK /\ HandlerOK /\ HistoryOK
  BY DEF DeliveryInv, TypeOK
<1>1. \A f \in outbound : f.kind = "command" => f.cmd \in Commands
  BY <1>0 DEF HandlerOK, Frames
<1>2. ASSUME NEW c \in Commands, Accept(c) PROVE SendingOK'
  <2>1. record[c] = "NONE"
    BY <1>0, <1>2 DEF Accept, QueueOK
  <2>2. \A d \in Commands : d # c => order'[d] = order[d]
    BY <1>0, <1>2 DEF Accept, DurableOK
  <2>3. UNCHANGED <<record, outbound, session, handed>>
    BY <1>2 DEF Accept, registry, handler, history
  <2> QED BY <1>0, <1>1, <2>1, <2>2, <2>3
<1>3. ASSUME NEW c \in Commands, Prepare(c) PROVE SendingOK'
  <2>1. record[c] = "NONE" /\ record' = [record EXCEPT ![c] = "QUEUED"]
    BY <1>3 DEF Prepare
  <2>2. UNCHANGED <<order, outbound, session, handed>>
    BY <1>3 DEF Prepare, registry, handler, history
  <2> QED BY <1>0, <1>1, <2>1, <2>2 DEF DurableOK
<1>4. ASSUME outbound' = {}, handed' = handed,
             \A c \in Commands : record'[c] \in {"NONE", "QUEUED"} => record'[c] = record[c]
      PROVE  SendingOK'
  BY <1>0, <1>4
<1>5. CASE Open \/ Close \/ WriterFails \/ RestartBackend
  <2>1. outbound' = {} /\ handed' = handed
    BY <1>5 DEF Open, Close, WriterFails, RestartBackend, history
  <2>2. ASSUME NEW c \in Commands, record'[c] \in {"NONE", "QUEUED"}
        PROVE  record'[c] = record[c]
    BY <1>0, <1>5, <2>2 DEF Open, Close, WriterFails, RestartBackend, durable, DurableOK
  <2> QED BY <1>4, <2>1, <2>2
<1>6. ASSUME NEW c \in Commands, Deliver(c) PROVE SendingOK'
  <2> DEFINE frame == Frame("command", pending[c].seq, c)
  <2>1. record[c] = "QUEUED" /\ order[c].epoch = session.epoch
    BY <1>0, <1>6 DEF Deliver, QueueOK, Earliest
  <2>2. handed[c] = 0 /\ \A f \in outbound : f.kind = "command" => f.cmd # c
    BY <1>0, <2>1
  <2>3. frame.kind = "command" /\ frame.cmd = c
    BY DEF Frame
  <2>4. /\ record' = [record EXCEPT ![c] = "SENT"]
        /\ outbound' = outbound \cup {frame}
        /\ UNCHANGED <<order, session, handed>>
    BY <1>6 DEF Deliver, history
  <2> HIDE DEF frame
  <2>5. \A d \in Commands : record'[d] \in {"NONE", "QUEUED"} => handed'[d] = 0
    BY <1>0, <2>4 DEF DurableOK
  <2>6. ASSUME NEW f \in outbound', f.kind = "command"
        PROVE  /\ handed'[f.cmd] = 0 /\ record'[f.cmd] \notin {"NONE", "QUEUED"}
               /\ order'[f.cmd].epoch = session'.epoch
    <3>1. CASE f = frame
      BY <1>0, <2>1, <2>2, <2>3, <2>4, <3>1 DEF DurableOK
    <3>2. CASE f \in outbound
      BY <1>0, <1>1, <2>4, <2>6, <3>2 DEF DurableOK
    <3> QED BY <2>4, <3>1, <3>2
  <2>7. \A f, g \in outbound' :
           f.kind = "command" /\ g.kind = "command" /\ f.cmd = g.cmd => f = g
    BY <1>0, <2>2, <2>3, <2>4
  <2> QED BY <2>5, <2>6, <2>7
<1>7. ASSUME NEW f \in outbound, Write(f) PROVE SendingOK'
  <2>1. UNCHANGED <<order, record, session>> /\ outbound' = outbound \ {f}
    BY <1>7 DEF Write, durable, registry
  <2>2. handed' = IF f.kind = "command" THEN [handed EXCEPT ![f.cmd] = @ + 1]
                  ELSE handed
    BY <1>7 DEF Write
  <2>3. CASE f.kind # "command"
    BY <1>0, <2>1, <2>2, <2>3
  <2>4. CASE f.kind = "command"
    <3>1. f.cmd \in Commands /\ record[f.cmd] \notin {"NONE", "QUEUED"}
      BY <1>0, <1>1, <2>4
    <3>2. \A c \in Commands : c # f.cmd => handed'[c] = handed[c]
      BY <1>0, <2>2, <2>4 DEF HistoryOK
    <3>3. \A g \in outbound' : g.kind = "command" => g.cmd # f.cmd
      BY <1>0, <2>1, <2>4
    <3> QED BY <1>0, <1>1, <2>1, <3>1, <3>2, <3>3
  <2> QED BY <2>3, <2>4
<1>8. ASSUME outbound' \in {outbound, Control("control", outbound), Control("required", {})},
             order' = order, session'.epoch = session.epoch, handed' = handed,
             \A c \in Commands : record'[c] = record[c] \/ record'[c] \in Verdicts
      PROVE  SendingOK'
  <2>1. \A f \in outbound' : f.kind = "command" => f \in outbound
    BY <1>8, AddedFrame
  <2>2. \A c \in Commands : record'[c] \in {"NONE", "QUEUED"} => record'[c] = record[c]
    BY <1>8 DEF Verdicts
  <2>3. \A c \in Commands : record[c] \notin {"NONE", "QUEUED"}
                             => record'[c] \notin {"NONE", "QUEUED"}
    BY <2>2
  <2> QED BY <1>0, <1>1, <1>8, <2>1, <2>2, <2>3
<1>9. CASE Greet \/ ReceiveSnapshot \/ RefuseReport \/ ObserveInDoubt
  BY <1>8, <1>9 DEF Greet, ReceiveSnapshot, RefuseReport, ObserveInDoubt, durable,
                    handler, history
<1>10. CASE Replay
  BY <1>8, <1>10, ReplayFacts DEF DeliveryInv, durable
<1>11. CASE Acknowledge
  <2>1. PICK c \in Commands, v, w \in Verdicts :
          /\ record' = [record EXCEPT ![c] = w]
          /\ outbound' = Control("control", outbound)
          /\ UNCHANGED <<order, session, handed>>
    BY <1>11, AcknowledgeFacts DEF DeliveryInv
  <2>2. \A d \in Commands : record'[d] = record[d] \/ record'[d] \in Verdicts
    BY <1>0, <2>1 DEF DurableOK
  <2> QED BY <1>8, <2>1, <2>2
<1>12. CASE RaiseEpoch \/ GreetFails \/ Break \/ Disconnected \/ Connector
            \/ RestartConnector \/ UNCHANGED vars
  <2>1. outbound' = outbound
    BY <1>12 DEF RaiseEpoch, GreetFails, Break, Disconnected, Connector,
         ReadSnapshot, RefuseSnapshot, ReadRequired, ReadControl, ReadCommand,
         RestartConnector, vars, handler
  <2> QED BY <1>8, <1>12, <2>1, Quiet DEF history
<1> QED
  BY <1>2, <1>3, <1>5, <1>6, <1>7, <1>9, <1>10, <1>11, <1>12, Steps
  DEF Request, Connection, Task, Reception, Restart

\* the steps that hand no command over
LEMMA HandedStep ==
  ASSUME TypeOK, [Next]_vars
  PROVE  \/ handed' = handed
         \/ \E f \in outbound : /\ f.kind = "command" /\ f.cmd \in Commands
                                /\ handed' = [handed EXCEPT ![f.cmd] = @ + 1]
<1>1. ASSUME NEW f \in outbound, Write(f), f.kind = "command"
      PROVE  f.cmd \in Commands /\ handed' = [handed EXCEPT ![f.cmd] = @ + 1]
  <2>1. f \in Frames
    BY DEF TypeOK, HandlerOK
  <2> QED BY <1>1, <2>1 DEF Write, Frames
<1>2. ASSUME NEW f \in outbound, Write(f), f.kind # "command" PROVE handed' = handed
  BY <1>2 DEF Write
<1>3. CASE Request \/ Connection \/ Reception \/ Restart \/ Connector \/ UNCHANGED vars
  BY <1>3 DEF Request, RaiseEpoch, Accept, Prepare, Connection, Open, Greet,
       GreetFails, Break, Disconnected, Close, Connector, ReadSnapshot,
       RefuseSnapshot, ReadRequired, ReadControl, ReadCommand, Reception,
       RefuseReport, ReceiveSnapshot, ObserveInDoubt, Replay, Acknowledge,
       Restart, RestartBackend, RestartConnector, vars, history
<1>4. ASSUME NEW c \in Commands, Deliver(c) PROVE handed' = handed
  BY <1>4 DEF Deliver, history
<1>5. CASE WriterFails
  BY <1>5 DEF WriterFails, history
<1> QED BY <1>1, <1>2, <1>3, <1>4, <1>5, Steps DEF Task

LEMMA OnceStep ==
  ASSUME DeliveryInv, [Next]_vars PROVE NeverHandedTwice'
<1> USE DEF NeverHandedTwice
<1>0. NeverHandedTwice /\ SendingOK /\ TypeOK /\ HistoryOK
  BY DEF DeliveryInv, TypeOK
<1>1. ASSUME NEW f \in outbound, f.kind = "command", f.cmd \in Commands,
             handed' = [handed EXCEPT ![f.cmd] = @ + 1]
      PROVE  NeverHandedTwice'
  <2>1. handed[f.cmd] = 0
    BY <1>0, <1>1 DEF SendingOK
  <2> QED BY <1>0, <1>1, <2>1 DEF HistoryOK
<1>2. CASE handed' = handed
  BY <1>0, <1>2
<1> QED BY <1>0, <1>1, <1>2, HandedStep

LEMMA SentStep ==
  ASSUME DeliveryInv, [Next]_vars PROVE SentHasSession'
<1> USE DEF SentHasSession
<1>0. SentHasSession /\ DurableOK /\ RegistryOK /\ HandlerOK /\ TypeOK
  BY DEF DeliveryInv, TypeOK
<1>1. ASSUME NEW c \in Commands, Prepare(c) PROVE SentHasSession'
  BY <1>0, <1>1 DEF Prepare, DurableOK, registry, history
<1>2. CASE Open
  BY <1>2 DEF Open
<1>3. CASE Close
  BY <1>0, <1>3 DEF Close, DurableOK
<1>4. ASSUME NEW c \in Commands, Deliver(c) PROVE SentHasSession'
  <2>1. session.active
    BY <1>0, <1>4 DEF Deliver, Working, HandlerOK
  <2> QED BY <1>4, <2>1 DEF Deliver
<1>5. CASE Replay
  BY <1>0, <1>5, ReplayFacts DEF durable
<1>6. CASE Acknowledge
  <2>1. PICK c \in Commands, v, w \in Verdicts :
          /\ record' = [record EXCEPT ![c] = w]
          /\ UNCHANGED <<session, inherited>>
    BY <1>0, <1>6, AcknowledgeFacts
  <2> QED BY <1>0, <2>1 DEF DurableOK, Verdicts
<1>7. CASE RestartBackend
  BY <1>0, <1>7 DEF RestartBackend, durable
<1>8. ASSUME UNCHANGED <<record, session, inherited>> PROVE SentHasSession'
  BY <1>0, <1>8
<1>9. ASSUME NEW c \in Commands, Accept(c) PROVE SentHasSession'
  BY <1>8, <1>9 DEF Accept, registry, history
<1>10. CASE WriterFails \/ RefuseReport \/ ObserveInDoubt
  BY <1>8, <1>10 DEF WriterFails, RefuseReport, ObserveInDoubt, durable, registry, history
<1>11. ASSUME NEW f \in outbound, Write(f) PROVE SentHasSession'
  BY <1>8, <1>11 DEF Write, durable, registry
<1>12. ASSUME UNCHANGED <<order, record, session, pending, queue>>, UNCHANGED history
       PROVE  SentHasSession'
  BY <1>8, <1>12 DEF history
<1> QED
  BY <1>1, <1>2, <1>3, <1>4, <1>5, <1>6, <1>7, <1>9, <1>10, <1>11, <1>12, Steps, Quiet
  DEF Request, Connection, Task, Reception, Restart

LEMMA AckedStep ==
  ASSUME DeliveryInv, [Next]_vars PROVE AckedIsRecorded'
<1> USE DEF AckedIsRecorded
<1>0. AckedIsRecorded /\ DurableOK /\ HistoryOK /\ TypeOK
  BY DEF DeliveryInv, TypeOK
<1>1. \A c \in Commands : acked[c] # "none" => record[c] \in Verdicts
  BY <1>0 DEF HistoryOK, Verdicts
<1>2. ASSUME NEW c \in Commands, Prepare(c) PROVE AckedIsRecorded'
  BY <1>0, <1>1, <1>2 DEF Prepare, DurableOK, history, Verdicts
<1>3. CASE Close
  BY <1>0, <1>1, <1>3 DEF Close, DurableOK, history, Verdicts
<1>4. ASSUME NEW c \in Commands, Deliver(c) PROVE AckedIsRecorded'
  BY <1>0, <1>1, <1>4 DEF Deliver, DurableOK, history, Verdicts
<1>5. CASE Replay
  BY <1>0, <1>5, ReplayFacts DEF durable
<1>6. CASE Acknowledge
  <2>1. PICK c \in Commands, v, w \in Verdicts :
          /\ record' = [record EXCEPT ![c] = w]
          /\ acked' = [acked EXCEPT ![c] = v]
          /\ w = v \/ (c \in Closes /\ v = "ACCEPTED" /\ w = "UNKNOWN")
    BY <1>0, <1>6, AcknowledgeFacts
  <2> QED BY <1>0, <2>1 DEF DurableOK, HistoryOK
<1>7. ASSUME UNCHANGED <<record, acked>> PROVE AckedIsRecorded'
  BY <1>0, <1>7
<1>8. ASSUME NEW c \in Commands, Accept(c) PROVE AckedIsRecorded'
  BY <1>7, <1>8 DEF Accept, history
<1>9. CASE Open \/ WriterFails \/ RefuseReport \/ ObserveInDoubt \/ RestartBackend
  BY <1>7, <1>9 DEF Open, WriterFails, RefuseReport, ObserveInDoubt, RestartBackend,
                    durable, history
<1>10. ASSUME NEW f \in outbound, Write(f) PROVE AckedIsRecorded'
  BY <1>7, <1>10 DEF Write, durable
<1>11. ASSUME UNCHANGED <<order, record, session, pending, queue>>, UNCHANGED history
       PROVE  AckedIsRecorded'
  BY <1>7, <1>11 DEF history
<1> QED
  BY <1>2, <1>3, <1>4, <1>5, <1>6, <1>8, <1>9, <1>10, <1>11, Steps, Quiet
  DEF Request, Connection, Task, Reception, Restart

LEMMA DownStep ==
  ASSUME DeliveryInv, [Next]_vars PROVE DownOK'
<1> DEFINE Fine(f) == f.kind = "command" =>
              /\ record[f.cmd] # "NONE"
              /\ session.active => order[f.cmd].epoch = session.epoch
<1>0. /\ DownOK /\ QueueOK /\ SendingOK /\ TypeOK /\ DurableOK /\ RegistryOK
      /\ HandlerOK /\ LinkOK
  BY DEF DeliveryInv, TypeOK
<1>1. \A i \in 1..Len(down) : down[i].kind = "command" => down[i].cmd \in Commands
  <2>1. \A i \in 1..Len(down) : down[i] \in Frames
    BY <1>0 DEF LinkOK
  <2> QED BY <2>1 DEF Frames
<1>2. ASSUME down' = <<>> PROVE DownOK'
  BY <1>2 DEF DownOK
<1>3. ASSUME down' = down,
             \A c \in Commands : record[c] # "NONE" =>
                 record'[c] # "NONE" /\ order'[c] = order[c],
             session'.active => session.active /\ session'.epoch = session.epoch
      PROVE  DownOK'
  BY <1>0, <1>1, <1>3 DEF DownOK
<1>4. ASSUME NEW f \in Frames, down' = Append(down, f), Fine(f),
             UNCHANGED <<order, record, session>>
      PROVE  DownOK'
  BY <1>0, <1>4 DEF DownOK, LinkOK
<1>5. ASSUME down # <<>>, down' = Tail(down), UNCHANGED <<order, record, session>>
      PROVE  DownOK'
  <2>1. \A i \in 1..Len(down') : i + 1 \in 1..Len(down) /\ down'[i] = down[i + 1]
    BY <1>0, <1>5 DEF LinkOK
  <2> QED BY <1>0, <1>5, <2>1 DEF DownOK
<1>6. CASE Open \/ Break \/ Close \/ RefuseSnapshot \/ Restart
  BY <1>2, <1>6 DEF Open, Break, Close, RefuseSnapshot, Restart, RestartBackend,
                    RestartConnector
<1>7. ASSUME NEW c \in Commands, Accept(c) PROVE DownOK'
  <2>1. record[c] = "NONE"
    BY <1>0, <1>7 DEF Accept, QueueOK
  <2>2. \A d \in Commands : d # c => order'[d] = order[d]
    BY <1>0, <1>7 DEF Accept, DurableOK
  <2>3. UNCHANGED <<record, down, session>>
    BY <1>7 DEF Accept, registry, link
  <2> QED BY <1>3, <2>1, <2>2, <2>3
<1>8. ASSUME NEW c \in Commands, Prepare(c) PROVE DownOK'
  BY <1>0, <1>3, <1>8 DEF Prepare, registry, link, DurableOK
<1>9. ASSUME NEW c \in Commands, Deliver(c) PROVE DownOK'
  BY <1>0, <1>3, <1>9 DEF Deliver, link, DurableOK
<1>10. CASE Greet
  <2> DEFINE snapshot == [Frame("snapshot", lastSequence, NoCommand) EXCEPT !.epoch = epoch]
  <2>1. snapshot \in Frames /\ snapshot.kind = "snapshot"
    BY <1>0 DEF Frame, Frames, DurableOK, RegistryOK
  <2>2. down' = Append(down, snapshot) /\ UNCHANGED <<order, record, session>>
    BY <1>10 DEF Greet, durable
  <2> HIDE DEF snapshot
  <2> QED BY <1>4, <2>1, <2>2
<1>11. ASSUME NEW f \in outbound, Write(f) PROVE DownOK'
  <2>1. f \in Frames /\ Fine(f)
    BY <1>0 DEF HandlerOK, SendingOK
  <2>2. UNCHANGED <<order, record, session>>
        /\ (down' = down \/ down' = Append(down, f))
    BY <1>11 DEF Write, durable, registry
  <2> QED BY <1>3, <1>4, <2>1, <2>2
<1>12. CASE Connector
  <2>1. CASE RefuseSnapshot
    BY <1>6, <2>1
  <2>2. CASE ~RefuseSnapshot
    <3>1. /\ down # <<>> /\ down' = Tail(down)
          /\ UNCHANGED <<order, record, session>>
      BY <1>12, <2>2 DEF Connector, ReadSnapshot, ReadRequired, ReadControl,
                         ReadCommand, Read, durable, registry
    <3> QED BY <1>5, <3>1
  <2> QED BY <2>1, <2>2
<1>13. CASE Replay
  <2>1. session'.epoch = session.epoch /\ session'.active = session.active
        /\ down' = down /\ UNCHANGED durable
    BY <1>0, <1>13, ReplayFacts
  <2> QED BY <1>3, <2>1 DEF durable
<1>14. CASE Acknowledge
  <2>1. PICK c \in Commands, v, w \in Verdicts :
          /\ record' = [record EXCEPT ![c] = w]
          /\ UNCHANGED <<order, session, down>>
    BY <1>0, <1>14, AcknowledgeFacts
  <2>2. \A d \in Commands : record[d] # "NONE" => record'[d] # "NONE"
    BY <1>0, <2>1 DEF DurableOK, Verdicts
  <2> QED BY <1>3, <2>1, <2>2
<1>15. CASE RaiseEpoch \/ GreetFails \/ Disconnected \/ WriterFails \/ RefuseReport
            \/ ReceiveSnapshot \/ ObserveInDoubt \/ UNCHANGED vars
  <2>1. UNCHANGED <<order, record, session, down>>
    BY <1>15 DEF RaiseEpoch, GreetFails, Disconnected, WriterFails, RefuseReport,
         ReceiveSnapshot, ObserveInDoubt, vars, durable, registry, link
  <2> QED BY <1>3, <2>1
<1> QED
  BY <1>6, <1>7, <1>8, <1>9, <1>10, <1>11, <1>12, <1>13, <1>14, <1>15, Steps
  DEF Request, Connection, Task, Reception

THEOREM DeliveryInvariant == Spec => []DeliveryInv
<1>1. DeliveryInv /\ [Next]_vars => DeliveryInv'
  <2> SUFFICES ASSUME DeliveryInv, [Next]_vars PROVE DeliveryInv'
    OBVIOUS
  <2>1. TypeOK'
    BY DurableType, RegistryType, HandlerType, LinkType, RemoteType, HistoryType
    DEF TypeOK, DeliveryInv
  <2>2. QueueOK' /\ TablesAgree' /\ SendingOK' /\ DownOK'
    BY QueueStep, TablesStep, SendingStep, DownStep
  <2>3. NeverHandedTwice' /\ SentHasSession' /\ AckedIsRecorded'
    BY OnceStep, SentStep, AckedStep
  <2> QED BY <2>1, <2>2, <2>3 DEF DeliveryInv
<1> QED BY InitInv, <1>1, PTL DEF Spec

\* A command is handed to the websocket at most once, over any number of
\* sessions, replays and restarts on both sides (deliver, main.py:2191).
THEOREM HandedAtMostOnce == Spec => []NeverHandedTwice
<1>1. DeliveryInv => NeverHandedTwice
  BY DEF DeliveryInv
<1> QED BY <1>1, DeliveryInvariant, PTL

\* The pending table and the durable record differ in nothing but doubt
\* (connector_delivery.py:552, mark_sent, and 560, record_result).
THEOREM TablesAlwaysAgree == Spec => []TablesAgree
<1>1. DeliveryInv => TablesAgree
  BY DEF DeliveryInv
<1> QED BY <1>1, DeliveryInvariant, PTL

\* A record is SENT only while a session is registered, but for those of a
\* backend process that died (main.py:2318, the finally block).
THEOREM SentOnlyInSession == Spec => []SentHasSession
<1>1. DeliveryInv => SentHasSession
  BY DEF DeliveryInv
<1> QED BY <1>1, DeliveryInvariant, PTL

\* A result the connector was told of is on record from then on, as it was told
\* or, for a close it was told is ACCEPTED, as UNKNOWN; no session, replay or
\* restart takes it back (execution.py:3118, connector_dispatch_result, and 3156).
THEOREM AcknowledgedIsDurable == Spec => []AckedIsRecorded
<1>1. DeliveryInv => AckedIsRecorded
  BY DEF DeliveryInv
<1> QED BY <1>1, DeliveryInvariant, PTL

\* No command accepted before a fence is in flight in a session opened after
\* it (connector_delivery.py:325, STALE_EPOCH).
THEOREM FencedNeverReplayed == Spec => []FenceStopsReplay
<1>1. DeliveryInv => FenceStopsReplay
  <2> SUFFICES ASSUME DeliveryInv, NEW f \in InTransit, session.active
               PROVE  order[f.cmd].epoch = session.epoch
    BY DEF FenceStopsReplay
  <2>1. CASE f \in outbound
    BY <2>1 DEF DeliveryInv, SendingOK, InTransit
  <2>2. ASSUME NEW i \in 1..Len(down), f = down[i]
        PROVE  order[f.cmd].epoch = session.epoch
    BY <2>2 DEF DeliveryInv, DownOK, InTransit
  <2> QED BY <2>1, <2>2 DEF InTransit
<1> QED BY <1>1, DeliveryInvariant, PTL

-----------------------------------------------------------------------------
(* The stream of a session has no gap.                                     *)

\* Over an unbroken link the frames on their way end just before the sequence
\* send_ordered waits for, and begin with the snapshot or just after the last
\* sequence the connector took.
StreamOK ==
    /\ \A f \in outbound : f.kind # "snapshot"
    /\ linked =>
        /\ stage # "none"
        /\ stage = "greeting" => down = <<>>
        /\ stage # "greeting" =>
            /\ \A i \in 1..Len(down) : down[i].seq = expected - 1 - Len(down) + i
            /\ \A i \in 2..Len(down) : down[i].kind # "snapshot"
            /\ \/ down # <<>> /\ down[1].kind = "snapshot"
               \/ conn.server = expected - 1 - Len(down)

LEMMA StreamStep ==
  ASSUME TypeOK, StreamOK, [Next]_vars PROVE StreamOK'
<1> USE DEF StreamOK
<1>0. HandlerOK /\ LinkOK /\ RegistryOK /\ RemoteOK /\ DurableOK
  BY DEF TypeOK
<1>1. ASSUME linked' = FALSE, outbound' \in {outbound, {}} PROVE StreamOK'
  BY <1>1
<1>2. CASE Break \/ Close \/ GreetFails \/ Disconnected \/ WriterFails
           \/ RefuseSnapshot \/ Restart
  <2>1. linked' = FALSE
    BY <1>0, <1>2 DEF Break, Close, GreetFails, Disconnected, WriterFails,
         RefuseSnapshot, Restart, RestartBackend, RestartConnector, link, LinkOK
  <2>2. outbound' \in {outbound, {}}
    BY <1>2 DEF Break, Close, GreetFails, Disconnected, WriterFails,
         RefuseSnapshot, Restart, RestartBackend, RestartConnector, handler
  <2> QED BY <1>1, <2>1, <2>2
<1>3. CASE Open
  BY <1>3 DEF Open
<1>4. CASE Greet
  <2> DEFINE snapshot == [Frame("snapshot", lastSequence, NoCommand) EXCEPT !.epoch = epoch]
  <2>1. snapshot.kind = "snapshot" /\ snapshot.seq = lastSequence
    BY DEF Frame
  <2>2. /\ linked /\ down = <<>> /\ down' = Append(down, snapshot)
        /\ expected' = lastSequence + 1 /\ stage' = "running"
        /\ outbound' = Control("required", {})
    BY <1>4 DEF Greet
  <2> HIDE DEF snapshot
  <2>3. \A f \in outbound' : f.kind # "snapshot"
    BY <2>2, AddedFrame
  <2>4. Len(down') = 1 /\ down'[1] = snapshot /\ down' # <<>>
    BY <2>2
  <2> QED BY <1>0, <2>1, <2>2, <2>3, <2>4 DEF RegistryOK
<1>5. ASSUME NEW f \in outbound, Write(f) PROVE StreamOK'
  <2>1. f.seq = expected /\ f.kind # "snapshot" /\ f \in Frames
    BY <1>0, <1>5 DEF Write, Due, HandlerOK
  <2>2. /\ outbound' = outbound \ {f} /\ expected' = expected + 1
        /\ down' = IF linked THEN Append(down, f) ELSE down
        /\ stage \in {"running", "ending"} /\ UNCHANGED <<stage, linked, conn>>
    BY <1>5 DEF Write, Working, remote
  <2>3. CASE ~linked
    BY <2>2, <2>3
  <2>4. CASE linked
    <3>1. down' = Append(down, f) /\ Len(down') = Len(down) + 1
      BY <1>0, <2>2, <2>4 DEF LinkOK
    <3>2. \A i \in 1..Len(down) : down'[i] = down[i]
      BY <1>0, <3>1 DEF LinkOK
    <3>3. down'[Len(down) + 1] = f
      BY <1>0, <3>1 DEF LinkOK
    <3>4. Len(down) \in Nat /\ expected \in Nat /\ (down # <<>> => Len(down) > 0)
      BY <1>0 DEF LinkOK, HandlerOK
    <3>5. \A i \in 1..Len(down') : down'[i].seq = expected' - 1 - Len(down') + i
      <4> TAKE i \in 1..Len(down')
      <4>1. CASE i = Len(down) + 1
        <5>1. down'[i] = f
          BY <3>3, <4>1
        <5>2. expected' - 1 - Len(down') + i = expected
          BY <2>2, <3>1, <3>4, <4>1
        <5> QED BY <2>1, <5>1, <5>2
      <4>2. CASE i \in 1..Len(down)
        BY <2>2, <2>4, <3>1, <3>2, <3>4, <4>2
      <4> QED BY <3>1, <3>4, <4>1, <4>2
    <3>6. \A i \in 2..Len(down') : down'[i].kind # "snapshot"
      <4> TAKE i \in 2..Len(down')
      <4>1. CASE i = Len(down) + 1
        BY <2>1, <3>3, <4>1
      <4>2. CASE i \in 2..Len(down)
        BY <2>2, <2>4, <3>2, <3>4, <4>2
      <4> QED BY <3>1, <3>4, <4>1, <4>2
    <3>7. \/ down' # <<>> /\ down'[1].kind = "snapshot"
          \/ conn'.server = expected' - 1 - Len(down')
      <4>1. CASE down # <<>> /\ down[1].kind = "snapshot"
        BY <3>1, <3>2, <3>4, <4>1
      <4>2. CASE conn.server = expected - 1 - Len(down)
        BY <2>2, <3>1, <3>4, <4>2
      <4> QED BY <2>2, <2>4, <4>1, <4>2
    <3> QED BY <2>2, <3>5, <3>6, <3>7
  <2> QED BY <2>3, <2>4
<1>6. ASSUME linked, down # <<>>, down' = Tail(down), conn'.server = down[1].seq,
             UNCHANGED <<stage, outbound, expected, linked>>
      PROVE  StreamOK'
  <2>1. stage # "greeting" /\ stage # "none"
    BY <1>6
  <2>2. Len(down) \in Nat /\ Len(down) > 0 /\ Len(down') = Len(down) - 1
        /\ expected \in Nat
    BY <1>0, <1>6 DEF LinkOK, HandlerOK
  <2>3. \A i \in 1..Len(down') : i + 1 \in 2..Len(down) /\ down'[i] = down[i + 1]
    BY <1>0, <1>6, <2>2 DEF LinkOK
  <2>4. \A i \in 1..Len(down') : down'[i].seq = expected' - 1 - Len(down') + i
    BY <1>6, <2>1, <2>2, <2>3
  <2>5. \A i \in 2..Len(down') : down'[i].kind # "snapshot"
    BY <1>6, <2>1, <2>2, <2>3
  <2>6. conn'.server = expected' - 1 - Len(down')
    BY <1>6, <2>1, <2>2
  <2> QED BY <1>6, <2>1, <2>4, <2>5, <2>6
<1>7. CASE ReadSnapshot \/ ReadRequired \/ ReadControl \/ ReadCommand
  <2>1. /\ linked /\ down # <<>> /\ down' = Tail(down)
        /\ UNCHANGED <<stage, outbound, expected, linked>>
    BY <1>7 DEF ReadSnapshot, ReadRequired, ReadControl, ReadCommand, Read, handler
  <2>2. conn'.server = down[1].seq
    <3>1. CASE ReadSnapshot
      <4>1. conn' = [conn EXCEPT !.server = down[1].seq, !.epoch = down[1].epoch]
        BY <3>1 DEF ReadSnapshot
      <4> QED BY <1>0, <4>1 DEF RemoteOK
    <3>2. CASE ReadRequired \/ ReadControl
      <4>1. /\ down[1].seq = conn.server + 1
            /\ \/ conn' = [conn EXCEPT !.server = @ + 1, !.seq = @ + 2]
               \/ conn' = [conn EXCEPT !.server = @ + 1]
        BY <3>2 DEF ReadRequired, ReadControl, Next1
      <4> QED BY <1>0, <4>1 DEF RemoteOK
    <3>3. CASE ReadCommand
      <4>1. \E n : conn' = [conn EXCEPT !.server = down[1].seq, !.seq = @ + 1,
                                       !.dispatched = n]
        BY <3>3 DEF ReadCommand
      <4> QED BY <1>0, <4>1 DEF RemoteOK
    <3> QED BY <1>7, <3>1, <3>2, <3>3
  <2> QED BY <1>6, <2>1, <2>2
<1>8. ASSUME UNCHANGED <<expected, linked, down, conn>>,
             stage' = stage \/ (stage = "running" /\ stage' = "ending"),
             \A f \in outbound' : f \in outbound \/ f.kind # "snapshot"
      PROVE  StreamOK'
  BY <1>8
<1>9. CASE RefuseReport \/ ObserveInDoubt \/ Replay \/ Acknowledge
  <2>1. /\ UNCHANGED <<expected, linked, down, conn>>
        /\ outbound' = Control("control", outbound)
        /\ stage' = stage \/ (stage = "running" /\ stage' = "ending")
    BY <1>9 DEF RefuseReport, ObserveInDoubt, Replay, Acknowledge, Receive, remote
  <2> QED BY <1>8, <2>1, AddedFrame
<1>10. ASSUME NEW c \in Commands, Deliver(c) PROVE StreamOK'
  <2>1. Frame("command", pending[c].seq, c).kind # "snapshot"
    BY DEF Frame
  <2> QED BY <1>8, <1>10, <2>1 DEF Deliver, link, remote
<1>11. CASE Request \/ ReceiveSnapshot \/ UNCHANGED vars
  BY <1>8, <1>11 DEF Request, RaiseEpoch, Accept, Prepare, ReceiveSnapshot, vars,
                     handler, link, remote
<1> QED
  BY <1>2, <1>3, <1>4, <1>5, <1>7, <1>9, <1>10, <1>11, Steps
  DEF Connection, Task, Connector, Reception

\* The connector never has to drop a session for a sequence that is not the
\* next, in whatever order commands and control frames come to send_ordered
\* (main.py:2160; protocol.py:142, _validate_inbound).
THEOREM StreamHasNoGap == Spec => []NoGap
<1>1. Init => StreamOK
  BY DEF Init, StreamOK
<1>2. TypeOK /\ StreamOK /\ [Next]_vars => StreamOK'
  BY StreamStep
<1>3. TypeOK /\ StreamOK => NoGap
  <2> SUFFICES ASSUME TypeOK, StreamOK, linked, down # <<>>, down[1].kind # "snapshot"
               PROVE  down[1].seq = conn.server + 1
    BY DEF NoGap
  <2>1. Len(down) \in Nat /\ Len(down) > 0 /\ expected \in Nat
    BY DEF TypeOK, LinkOK, HandlerOK
  <2> QED BY <2>1 DEF StreamOK
<1> QED BY <1>1, <1>2, <1>3, TypeCorrect, PTL DEF Spec

-----------------------------------------------------------------------------
(* The reports of a session are never refused.                             *)

\* A command that was delivered and of which no result is recorded.
Marked(c) == pending[c].state = "SENT" /\ record[c] = "SENT"

\* No command and no result is on its way in the session.
Idle ==
    /\ queue = {} /\ \A f \in outbound : f.kind # "command"
    /\ \A i \in 1..Len(down) : down[i].kind # "command"
    /\ \A i \in 1..Len(up) : up[i].kind # "result"

\* The reports on their way end with the connector's last sequence.  They
\* begin with the next one the backend takes, but before the reconciliation:
\* no command is sent until then.
ReportsOK ==
    /\ \A i \in 1..Len(up) : up[i].seq = conn.seq - Len(up) + i
    /\ Idle \/ received = conn.seq - Len(up)

\* The commands of these frames and results are marked, and those that left the
\* backend were handed over.
OutboundMarked == \A f \in outbound : f.kind = "command" => Marked(f.cmd)
DownMarked == \A i \in 1..Len(down) :
    down[i].kind = "command" => Marked(down[i].cmd) /\ handed[down[i].cmd] # 0
UpMarked == \A i \in 1..Len(up) :
    up[i].kind = "result" => Marked(up[i].cmd) /\ handed[up[i].cmd] # 0

\* Of a command there is one frame, or one result in its place.
DownOnce == \A i, j \in 1..Len(down) :
    down[i].kind = "command" /\ down[j].kind = "command" /\ down[i].cmd = down[j].cmd
    => i = j
UpOnce == \A i, j \in 1..Len(up) :
    up[i].kind = "result" /\ up[j].kind = "result" /\ up[i].cmd = up[j].cmd => i = j
Apart == \A i \in 1..Len(down), j \in 1..Len(up) :
    down[i].kind = "command" /\ up[j].kind = "result" => down[i].cmd # up[j].cmd

FlightOK == OutboundMarked /\ DownMarked /\ UpMarked /\ DownOnce /\ UpOnce /\ Apart

UpOK == linked => ReportsOK /\ FlightOK

LEMMA AppendedItems ==
  ASSUME NEW S, NEW s \in Seq(S), NEW e \in S
  PROVE  /\ Len(Append(s, e)) = Len(s) + 1 /\ Len(s) \in Nat
         /\ \A i \in 1..Len(s) : Append(s, e)[i] = s[i]
         /\ Append(s, e)[Len(s) + 1] = e
  OBVIOUS

LEMMA TailItems ==
  ASSUME NEW S, NEW s \in Seq(S), s # <<>>
  PROVE  /\ Len(Tail(s)) = Len(s) - 1 /\ Len(s) \in Nat /\ 1 \in 1..Len(s)
         /\ \A i \in 1..Len(Tail(s)) : Tail(s)[i] = s[i + 1] /\ i + 1 \in 2..Len(s)
  OBVIOUS

LEMMA JoinedItems ==
  ASSUME NEW S, NEW s \in Seq(S), NEW t \in Seq(S)
  PROVE  /\ Len(s \o t) = Len(s) + Len(t) /\ Len(s) \in Nat /\ Len(t) \in Nat
         /\ \A i \in 1..Len(s) : (s \o t)[i] = s[i]
         /\ \A i \in 1..Len(s \o t) :
                \/ i \in 1..Len(s)
                \/ i - Len(s) \in 1..Len(t) /\ (s \o t)[i] = t[i - Len(s)]
  OBVIOUS

\* The frames and the reports in flight name commands.
LEMMA TheyNameCommands ==
  ASSUME TypeOK
  PROVE  /\ \A f \in outbound : f.kind = "command" => f.cmd \in Commands
         /\ \A i \in 1..Len(down) : down[i].kind = "command" => down[i].cmd \in Commands
         /\ \A i \in 1..Len(up) : up[i].kind = "result" => up[i].cmd \in Commands
<1>1. /\ \A f \in Frames : f.kind = "command" => f.cmd \in Commands
      /\ \A r \in Reports : r.kind = "result" => r.cmd \in Commands
  BY DEF Frames, Reports
<1>2. \A f \in outbound : f \in Frames
  BY DEF TypeOK, HandlerOK
<1>3. \A i \in 1..Len(down) : down[i] \in Frames
  BY DEF TypeOK, LinkOK
<1>4. \A i \in 1..Len(up) : up[i] \in Reports
  BY DEF TypeOK, LinkOK
<1> QED BY <1>1, <1>2, <1>3, <1>4

\* Nothing moves on the link.
LEMMA StillFlight ==
  ASSUME FlightOK, UNCHANGED <<down, up, handed>>,
         \A c \in Commands : Marked(c) => Marked(c)', TypeOK, TypeOK',
         \A f \in outbound' : f \in outbound \/ (f.kind = "command" => Marked(f.cmd)')
  PROVE  FlightOK'
<1>1. /\ \A f \in outbound : f.kind = "command" => f.cmd \in Commands
      /\ \A i \in 1..Len(down) : down[i].kind = "command" => down[i].cmd \in Commands
      /\ \A i \in 1..Len(up) : up[i].kind = "result" => up[i].cmd \in Commands
  BY TheyNameCommands
<1> QED BY <1>1 DEF FlightOK, OutboundMarked, DownMarked, UpMarked, DownOnce, UpOnce, Apart, Marked

\* A frame is handed to the websocket.
LEMMA SentFlight ==
  ASSUME FlightOK, TypeOK, NEW f \in Frames,
         f.kind = "command" => Marked(f.cmd) /\ handed[f.cmd] = 0 /\ handed'[f.cmd] # 0,
         \A c \in Commands : handed[c] # 0 => handed'[c] # 0,
         down' = Append(down, f), UNCHANGED <<up, pending, record>>,
         \A g \in outbound' : g \in outbound \/ g.kind # "command"
  PROVE  FlightOK'
<1>1. /\ Len(down') = Len(down) + 1 /\ Len(down) \in Nat
      /\ \A i \in 1..Len(down) : down'[i] = down[i]
      /\ down'[Len(down) + 1] = f
  BY AppendedItems DEF TypeOK, LinkOK
<1>2. /\ \A i \in 1..Len(down) : down[i].kind = "command" => down[i].cmd \in Commands
      /\ \A i \in 1..Len(up) : up[i].kind = "result" => up[i].cmd \in Commands
  BY TheyNameCommands
<1>3. \A i \in 1..Len(down') : i \in 1..Len(down) \/ i = Len(down) + 1
  BY <1>1
<1>5. DownMarked'
  BY <1>1, <1>2, <1>3 DEF FlightOK, DownMarked, Marked
<1>6. UpMarked'
  BY <1>2 DEF FlightOK, UpMarked, Marked
<1>7. ASSUME NEW i \in 1..Len(down'), NEW j \in 1..Len(down'),
             down'[i].kind = "command", down'[j].kind = "command",
             down'[i].cmd = down'[j].cmd
      PROVE  i = j
  BY <1>1, <1>3, <1>7 DEF FlightOK, DownOnce, DownMarked
<1>8. ASSUME NEW i \in 1..Len(down'), NEW j \in 1..Len(up'),
             down'[i].kind = "command", up'[j].kind = "result"
      PROVE  down'[i].cmd # up'[j].cmd
  BY <1>1, <1>3, <1>8 DEF FlightOK, Apart, UpMarked
<1>9. OutboundMarked'
  BY DEF FlightOK, OutboundMarked, Marked
<1>10. UpOnce'
  BY DEF FlightOK, UpOnce
<1> QED BY <1>5, <1>6, <1>7, <1>8, <1>9, <1>10 DEF FlightOK, DownOnce, UpOnce, Apart

\* The connector takes a frame, and answers a command with its one result.
LEMMA ReadFlight ==
  ASSUME FlightOK, TypeOK, NEW rs \in Seq(Reports), down # <<>>,
         down' = Tail(down), up' = up \o rs,
         UNCHANGED <<handed, pending, record, outbound>>,
         \A i \in 1..Len(rs) : rs[i].kind = "result" =>
             Len(rs) = 1 /\ down[1].kind = "command" /\ rs[i].cmd = down[1].cmd
  PROVE  FlightOK'
<1>1. /\ 1 \in 1..Len(down)
      /\ \A i \in 1..Len(down') : down'[i] = down[i + 1] /\ i + 1 \in 2..Len(down)
  BY TailItems DEF TypeOK, LinkOK
<1>2. /\ Len(up) \in Nat /\ Len(rs) \in Nat
      /\ \A i \in 1..Len(up) : up'[i] = up[i]
      /\ \A i \in 1..Len(up') :
             \/ i \in 1..Len(up)
             \/ i - Len(up) \in 1..Len(rs) /\ up'[i] = rs[i - Len(up)]
  BY JoinedItems, Zenon DEF TypeOK, LinkOK
<1>4. \A i \in 1..Len(up') : up'[i].kind = "result" =>
          \/ i \in 1..Len(up) /\ up'[i] = up[i] /\ up[i].kind = "result"
          \/ /\ i = Len(up) + 1
             /\ down[1].kind = "command" /\ up'[i].cmd = down[1].cmd
  BY <1>2
<1>5. DownMarked'
  BY <1>1 DEF FlightOK, DownMarked, Marked
<1>6. UpMarked'
  BY <1>1, <1>4 DEF FlightOK, DownMarked, UpMarked, Marked
<1>7. ASSUME NEW i \in 1..Len(down'), NEW j \in 1..Len(down'),
             down'[i].kind = "command", down'[j].kind = "command",
             down'[i].cmd = down'[j].cmd
      PROVE  i = j
  BY <1>1, <1>7 DEF FlightOK, DownOnce
<1>8. ASSUME NEW i \in 1..Len(down'), NEW j \in 1..Len(up'),
             down'[i].kind = "command", up'[j].kind = "result"
      PROVE  down'[i].cmd # up'[j].cmd
  <2>1. i + 1 \in 1..Len(down) /\ i + 1 # 1 /\ down'[i] = down[i + 1]
    BY <1>1
  <2>2. CASE j \in 1..Len(up) /\ up'[j] = up[j] /\ up[j].kind = "result"
    BY <1>8, <2>1, <2>2 DEF FlightOK, Apart
  <2>3. CASE down[1].kind = "command" /\ up'[j].cmd = down[1].cmd
    BY <1>1, <1>8, <2>1, <2>3 DEF FlightOK, DownOnce
  <2> QED BY <1>4, <1>8, <2>2, <2>3
<1>9. OutboundMarked'
  BY DEF FlightOK, OutboundMarked, Marked
<1>10. ASSUME NEW i \in 1..Len(up'), NEW j \in 1..Len(up'),
              up'[i].kind = "result", up'[j].kind = "result", up'[i].cmd = up'[j].cmd
       PROVE  i = j
  BY <1>1, <1>4, <1>10 DEF FlightOK, UpOnce, Apart
<1> QED BY <1>5, <1>6, <1>7, <1>8, <1>9, <1>10 DEF FlightOK, DownOnce, UpOnce, Apart

\* The backend takes a report; a result settles its command.
LEMMA TakenFlight ==
  ASSUME FlightOK, SendingOK, TypeOK, up # <<>>, up' = Tail(up),
         UNCHANGED <<down, handed>>,
         \A c \in Commands :
             Marked(c) => Marked(c)' \/ (up[1].kind = "result" /\ up[1].cmd = c),
         \A g \in outbound' : g \in outbound \/ g.kind # "command"
  PROVE  FlightOK'
<1>1. /\ 1 \in 1..Len(up)
      /\ \A i \in 1..Len(up') :
             up'[i] = up[i + 1] /\ i + 1 \in 1..Len(up) /\ i + 1 # 1
  BY TailItems DEF TypeOK, LinkOK
<1>2. /\ \A f \in outbound : f.kind = "command" => f.cmd \in Commands
      /\ \A i \in 1..Len(down) : down[i].kind = "command" => down[i].cmd \in Commands
      /\ \A i \in 1..Len(up) : up[i].kind = "result" => up[i].cmd \in Commands
  BY TheyNameCommands
<1>3. DownMarked'
  BY <1>1, <1>2 DEF FlightOK, Apart, DownMarked, Marked
<1>4. UpMarked'
  BY <1>1, <1>2 DEF FlightOK, UpOnce, UpMarked, Marked
<1>5. ASSUME NEW i \in 1..Len(down'), NEW j \in 1..Len(up'),
             down'[i].kind = "command", up'[j].kind = "result"
      PROVE  down'[i].cmd # up'[j].cmd
  BY <1>1, <1>5 DEF FlightOK, Apart
<1>6. OutboundMarked'
  <2> SUFFICES ASSUME NEW g \in outbound, g.kind = "command" PROVE pending'[g.cmd].state = "SENT" /\ record'[g.cmd] = "SENT"
    BY DEF OutboundMarked, Marked
  <2>1. g.cmd \in Commands /\ Marked(g.cmd) /\ handed[g.cmd] = 0
    BY <1>2 DEF FlightOK, OutboundMarked, SendingOK
  <2>2. up[1].kind = "result" => up[1].cmd # g.cmd
    BY <1>1, <2>1 DEF FlightOK, UpMarked
  <2> QED BY <2>1, <2>2 DEF Marked
<1>7. ASSUME NEW i \in 1..Len(up'), NEW j \in 1..Len(up'),
             up'[i].kind = "result", up'[j].kind = "result", up'[i].cmd = up'[j].cmd
      PROVE  i = j
  <2>1. i + 1 = j + 1
    BY <1>1, <1>7 DEF FlightOK, UpOnce
  <2> QED BY <2>1
<1>8. DownOnce'
  BY DEF FlightOK, DownOnce
<1> QED BY <1>3, <1>4, <1>5, <1>6, <1>7, <1>8 DEF FlightOK, UpOnce, Apart

LEMMA SentReports ==
  ASSUME ReportsOK, TypeOK, NEW f \in Frames, down' = Append(down, f),
         UNCHANGED <<up, received, queue>>, conn'.seq = conn.seq,
         f.kind = "command" => f \in outbound,
         \A g \in outbound' : g \in outbound \/ g.kind # "command"
  PROVE  ReportsOK'
<1>1. /\ Len(down') = Len(down) + 1 /\ Len(down) \in Nat
      /\ \A i \in 1..Len(down) : down'[i] = down[i]
      /\ down'[Len(down) + 1] = f
  BY AppendedItems DEF TypeOK, LinkOK
<1>2. Idle => Idle'
  BY <1>1 DEF Idle
<1> QED BY <1>2 DEF ReportsOK

LEMMA ReadReports ==
  ASSUME ReportsOK, TypeOK, NEW rs \in Seq(Reports), down # <<>>,
         down' = Tail(down), up' = up \o rs,
         UNCHANGED <<received, queue, outbound>>,
         conn'.seq = conn.seq + Len(rs),
         \A i \in 1..Len(rs) : /\ rs[i].seq = conn.seq + i
                               /\ rs[i].kind = "result" => down[1].kind = "command"
  PROVE  ReportsOK'
<1>1. /\ 1 \in 1..Len(down)
      /\ \A i \in 1..Len(down') : down'[i] = down[i + 1] /\ i + 1 \in 1..Len(down)
  BY TailItems DEF TypeOK, LinkOK
<1>2. /\ Len(up) \in Nat /\ Len(rs) \in Nat /\ Len(up') = Len(up) + Len(rs)
      /\ \A i \in 1..Len(up) : up'[i] = up[i]
      /\ \A i \in 1..Len(up') :
             \/ i \in 1..Len(up)
             \/ i - Len(up) \in 1..Len(rs) /\ up'[i] = rs[i - Len(up)]
  BY JoinedItems, Zenon DEF TypeOK, LinkOK
<1>3. conn.seq \in Nat /\ received \in Nat
  BY DEF TypeOK, RemoteOK, RegistryOK
<1>4. ASSUME NEW i \in 1..Len(up') PROVE up'[i].seq = conn'.seq - Len(up') + i
  <2>1. CASE i \in 1..Len(up)
    <3>1. up'[i].seq = conn.seq - Len(up) + i
      BY <1>2, <2>1 DEF ReportsOK
    <3> QED BY <1>2, <1>3, <2>1, <3>1
  <2>2. CASE i - Len(up) \in 1..Len(rs) /\ up'[i] = rs[i - Len(up)]
    <3>1. up'[i].seq = conn.seq + (i - Len(up))
      BY <2>2
    <3> QED BY <1>2, <1>3, <2>2, <3>1
  <2> QED BY <1>2, <1>4, <2>1, <2>2
<1>5. Idle => Idle'
  <2> SUFFICES ASSUME Idle PROVE Idle'
    OBVIOUS
  <2>1. \A i \in 1..Len(down') : down'[i].kind # "command"
    BY <1>1 DEF Idle
  <2>2. \A i \in 1..Len(up') : up'[i].kind # "result"
    BY <1>1, <1>2 DEF Idle
  <2> QED BY <2>1, <2>2 DEF Idle
<1>6. received = conn.seq - Len(up) => received' = conn'.seq - Len(up')
  BY <1>2, <1>3
<1> QED BY <1>4, <1>5, <1>6 DEF ReportsOK

\* A report that is taken is the next one, and so is what follows it.  One that
\* is refused is refused before the reconciliation.
LEMMA TakenReports ==
  ASSUME ReportsOK, TypeOK, up # <<>>, up' = Tail(up), conn' = conn, down' = down,
         \/ InSequence(up[1]) /\ received' = received + 1
         \/ /\ ~InSequence(up[1]) /\ UNCHANGED <<received, queue>>
            /\ \A g \in outbound' : g \in outbound \/ g.kind # "command"
  PROVE  ReportsOK'
<1>1. /\ 1 \in 1..Len(up) /\ Len(up) \in Nat /\ Len(up') = Len(up) - 1
      /\ \A i \in 1..Len(up') : up'[i] = up[i + 1] /\ i + 1 \in 1..Len(up)
  BY TailItems DEF TypeOK, LinkOK
<1>2. conn.seq \in Nat /\ received \in Nat
  BY DEF TypeOK, RemoteOK, RegistryOK
<1>3. ASSUME NEW i \in 1..Len(up') PROVE up'[i].seq = conn'.seq - Len(up') + i
  <2>1. up'[i].seq = conn.seq - Len(up) + (i + 1)
    BY <1>1, <1>3 DEF ReportsOK
  <2> QED BY <1>1, <1>2, <1>3, <2>1
<1>4. up[1].seq = conn.seq - Len(up) + 1
  BY <1>1 DEF ReportsOK
<1>5. CASE InSequence(up[1]) /\ received' = received + 1
  <2>1. received' = conn'.seq - Len(up')
    BY <1>1, <1>2, <1>4, <1>5 DEF InSequence
  <2> QED BY <1>3, <2>1 DEF ReportsOK
<1>6. CASE /\ ~InSequence(up[1]) /\ UNCHANGED <<received, queue>>
           /\ \A g \in outbound' : g \in outbound \/ g.kind # "command"
  <2>1. Idle
    BY <1>2, <1>4, <1>6 DEF InSequence, ReportsOK
  <2>2. \A i \in 1..Len(up') : up'[i].kind # "result"
    BY <1>1, <2>1 DEF Idle
  <2>3. Idle'
    BY <1>6, <2>1, <2>2 DEF Idle
  <2> QED BY <1>3, <2>3 DEF ReportsOK
<1> QED BY <1>5, <1>6

\* The steps of the connector: what it reads and what it reports.
LEMMA UpRead ==
  ASSUME TypeOK, linked, UpOK, ReadSnapshot \/ ReadRequired \/ ReadControl \/ ReadCommand
  PROVE  UpOK'
<1>0. down \in Seq(Frames) /\ conn \in [server : Nat, seq : Nat, epoch : Nat, dispatched : Nat]
  BY DEF TypeOK, LinkOK, RemoteOK
<1>1. ReportsOK /\ FlightOK
  BY DEF UpOK
<1>2. /\ down # <<>> /\ down' = Tail(down) /\ linked' = linked
      /\ UNCHANGED <<received, queue, outbound, handed, pending, record>>
  BY DEF ReadSnapshot, ReadRequired, ReadControl, ReadCommand, Read, durable,
         registry, handler, history
<1>3. CASE ReadSnapshot \/ ReadControl
  <2>1. up' = up \o <<>>
    BY <1>3 DEF ReadSnapshot, ReadControl, Read
  <2>2. conn'.seq = conn.seq + Len(<<>>)
    <3>1. conn'.seq = conn.seq /\ conn.seq \in Nat
      BY <1>0, <1>3 DEF ReadSnapshot, ReadControl
    <3>2. Len(<<>>) = 0
      OBVIOUS
    <3> QED BY <3>1, <3>2
  <2>3. <<>> \in Seq(Reports) /\ 1..Len(<<>>) = {}
    OBVIOUS
  <2>4. ReportsOK'
    BY <1>1, <1>2, <2>1, <2>2, <2>3, ReadReports
  <2>5. FlightOK'
    BY <1>1, <1>2, <2>1, <2>3, ReadFlight
  <2> QED BY <2>4, <2>5 DEF UpOK
<1>4. CASE ReadRequired
  <2> DEFINE r == Report("snapshot", conn.seq + 1, NoCommand, "none")
             t == Report("observation", conn.seq + 2, NoCommand, "none")
  <2>1. up' = up \o <<r, t>> /\ conn' = [conn EXCEPT !.server = @ + 1, !.seq = @ + 2]
    BY <1>4 DEF ReadRequired, Read
  <2>2. /\ r \in Reports /\ r.kind # "result" /\ r.seq = conn.seq + 1
        /\ t \in Reports /\ t.kind # "result" /\ t.seq = conn.seq + 2
    BY <1>0 DEF Report, Reports
  <2> HIDE DEF r, t
  <2>3. <<r, t>> \in Seq(Reports) /\ Len(<<r, t>>) = 2
    BY <2>2
  <2>4. \A i \in 1..Len(<<r, t>>) : /\ <<r, t>>[i].seq = conn.seq + i
                                    /\ <<r, t>>[i].kind # "result"
    BY <2>2
  <2>5. conn'.seq = conn.seq + Len(<<r, t>>)
    BY <1>0, <2>1
  <2>6. ReportsOK'
    BY <1>1, <1>2, <2>1, <2>3, <2>4, <2>5, ReadReports
  <2>7. FlightOK'
    BY <1>1, <1>2, <2>1, <2>3, <2>4, ReadFlight
  <2> QED BY <2>6, <2>7 DEF UpOK
<1>5. CASE ReadCommand
  <2>1. PICK v \in Verdicts : Read("command", <<Report("result", conn.seq + 1, down[1].cmd, v)>>)
    BY <1>5 DEF ReadCommand
  <2> DEFINE r == Report("result", conn.seq + 1, down[1].cmd, v)
  <2>2. down[1] \in Frames /\ down[1].kind = "command" /\ up' = up \o <<r>>
    BY <1>0, <2>1, TailType DEF Read
  <2>3. r \in Reports /\ r.seq = conn.seq + 1 /\ r.cmd = down[1].cmd
    BY <1>0, <2>2 DEF Report, Reports, Frames
  <2> HIDE DEF r
  <2>4. <<r>> \in Seq(Reports) /\ Len(<<r>>) = 1
    BY <2>3
  <2>5. \A i \in 1..Len(<<r>>) : i = 1 /\ <<r>>[i] = r
    OBVIOUS
  <2>6. conn'.seq = conn.seq + Len(<<r>>)
    <3>1. \E n : conn' = [conn EXCEPT !.server = down[1].seq, !.seq = @ + 1,
                                     !.dispatched = n]
      BY <1>5 DEF ReadCommand
    <3> QED BY <1>0, <2>4, <3>1
  <2>7. ReportsOK'
    BY <1>1, <1>2, <2>2, <2>3, <2>4, <2>5, <2>6, ReadReports
  <2>8. FlightOK'
    BY <1>1, <1>2, <2>2, <2>3, <2>4, <2>5, ReadFlight
  <2> QED BY <2>7, <2>8 DEF UpOK
<1> QED BY <1>3, <1>4, <1>5

\* The steps of the handler's loop.
LEMMA UpTaken ==
  ASSUME TypeOK, SendingOK, linked, UpOK, Reception
  PROVE  UpOK'
<1>1. ReportsOK /\ FlightOK
  BY DEF UpOK
<1>2. /\ up # <<>> /\ up' = Tail(up)
      /\ UNCHANGED <<linked, down, handed, conn>>
  BY DEF Reception, RefuseReport, ReceiveSnapshot, ObserveInDoubt, Replay, Acknowledge,
         Receive, remote, history
<1>3. \A g \in outbound' : g \in outbound \/ g.kind # "command"
  <2>1. outbound' \in {outbound, Control("control", outbound)}
    BY DEF Reception, RefuseReport, ReceiveSnapshot, ObserveInDoubt, Replay,
           Acknowledge, handler
  <2> QED BY <2>1, AddedFrame
<1>4. ReportsOK'
  <2>1. \/ InSequence(up[1]) /\ received' = received + 1
        \/ ~InSequence(up[1]) /\ UNCHANGED <<received, queue>>
    BY DEF Reception, RefuseReport, ReceiveSnapshot, ObserveInDoubt, Replay,
           Acknowledge, Registered
  <2> QED BY <1>1, <1>2, <1>3, <2>1, TakenReports
<1>5. \A c \in Commands :
          Marked(c) => Marked(c)' \/ (up[1].kind = "result" /\ up[1].cmd = c)
  <2>1. CASE RefuseReport \/ ReceiveSnapshot \/ ObserveInDoubt
    BY <2>1 DEF RefuseReport, ReceiveSnapshot, ObserveInDoubt, durable, Marked
  <2>2. CASE Replay
    BY <2>2, ReplayFacts DEF durable, Marked
  <2>3. CASE Acknowledge
    <3>1. /\ up[1].kind = "result"
          /\ pending' = [pending EXCEPT ![up[1].cmd].state = up[1].verdict]
          /\ \E v : record' = [record EXCEPT ![up[1].cmd] = v]
      BY <2>3 DEF Acknowledge, Receive
    <3>2. \A c \in Commands : c # up[1].cmd =>
              pending'[c] = pending[c] /\ record'[c] = record[c]
      BY <3>1 DEF TypeOK, RegistryOK, DurableOK
    <3> QED BY <3>1, <3>2 DEF Marked
  <2> QED BY <2>1, <2>2, <2>3 DEF Reception
<1>6. FlightOK'
  BY <1>1, <1>2, <1>3, <1>5, TakenFlight
<1> QED BY <1>4, <1>6 DEF UpOK

LEMMA UpStep ==
  ASSUME DeliveryInv, TypeOK', UpOK, [Next]_vars PROVE UpOK'
<1>0. /\ TypeOK /\ SendingOK /\ QueueOK
      /\ HandlerOK /\ LinkOK /\ RegistryOK /\ DurableOK /\ HistoryOK
  BY DEF DeliveryInv, TypeOK
<1>1. CASE linked' = FALSE
  BY <1>1 DEF UpOK
<1>2. CASE Break \/ Close \/ GreetFails \/ Disconnected \/ WriterFails
           \/ RefuseSnapshot \/ Restart
  <2>1. linked' = FALSE
    BY <1>0, <1>2 DEF Break, Close, GreetFails, Disconnected, WriterFails,
         RefuseSnapshot, Restart, RestartBackend, RestartConnector, link, LinkOK
  <2> QED BY <1>1, <2>1
<1>3. CASE Open
  <2>1. queue' = {} /\ outbound' = {} /\ down' = <<>> /\ up' = <<>>
    BY <1>3 DEF Open
  <2>2. FlightOK'
    BY <2>1 DEF FlightOK, OutboundMarked, DownMarked, UpMarked, DownOnce, UpOnce, Apart
  <2>3. ReportsOK'
    BY <2>1 DEF ReportsOK, Idle
  <2> QED BY <2>2, <2>3 DEF UpOK
<1>4. CASE Greet
  <2> DEFINE f == [Frame("snapshot", lastSequence, NoCommand) EXCEPT !.epoch = epoch]
  <2>1. f.kind = "snapshot" /\ f \in Frames
    BY <1>0 DEF Frame, Frames, RegistryOK, DurableOK
  <2>2. /\ linked /\ down' = Append(down, f) /\ outbound' = Control("required", {})
        /\ UNCHANGED <<handed, up, pending, record, received, queue, conn>>
    BY <1>4 DEF Greet, durable, remote, history
  <2> HIDE DEF f
  <2>3. \A g \in outbound' : g \in outbound \/ g.kind # "command"
    BY <2>2, AddedFrame
  <2>4. ReportsOK'
    BY <1>0, <2>1, <2>2, <2>3, SentReports DEF UpOK
  <2>5. FlightOK'
    BY <1>0, <2>1, <2>2, <2>3, SentFlight DEF UpOK
  <2> QED BY <2>4, <2>5 DEF UpOK
<1>5. ASSUME NEW f \in outbound, Write(f), linked PROVE UpOK'
  <2>1. f \in Frames /\ (f.kind = "command" => f.cmd \in Commands)
    BY <1>0 DEF HandlerOK, Frames
  <2>2. /\ down' = Append(down, f) /\ outbound' = outbound \ {f}
        /\ handed' = IF f.kind = "command" THEN [handed EXCEPT ![f.cmd] = @ + 1]
                     ELSE handed
        /\ UNCHANGED <<up, pending, record, received, queue, conn>>
    BY <1>5 DEF Write, durable, registry, remote
  <2>3. \A c \in Commands : handed[c] # 0 => handed'[c] # 0
    BY <1>0, <2>1, <2>2 DEF HistoryOK
  <2>4. f.kind = "command" => Marked(f.cmd) /\ handed[f.cmd] = 0 /\ handed'[f.cmd] # 0
    <3>1. f.kind = "command" => Marked(f.cmd) /\ handed[f.cmd] = 0
      BY <1>0, <1>5 DEF UpOK, FlightOK, OutboundMarked, SendingOK
    <3>2. f.kind = "command" => handed'[f.cmd] # 0
      BY <1>0, <2>1, <2>2 DEF HistoryOK
    <3> QED BY <3>1, <3>2
  <2>5. \A g \in outbound' : g \in outbound \/ g.kind # "command"
    BY <2>2
  <2>6. ReportsOK'
    BY <1>0, <1>5, <2>1, <2>2, <2>5, SentReports DEF UpOK
  <2>7. FlightOK'
    BY <1>0, <1>5, <2>1, <2>2, <2>3, <2>4, <2>5, SentFlight DEF UpOK
  <2> QED BY <2>6, <2>7 DEF UpOK
<1>6. ASSUME UNCHANGED <<linked, down, up, handed, conn, received>>, linked,
             \A c \in Commands : Marked(c) => Marked(c)',
             Idle => UNCHANGED <<queue, outbound>>,
             \A f \in outbound' : f \in outbound \/ (f.kind = "command" => Marked(f.cmd)')
      PROVE  UpOK'
  <2>1. FlightOK'
    BY <1>0, <1>6, StillFlight DEF UpOK
  <2>2. ReportsOK'
    BY <1>6 DEF UpOK, ReportsOK, Idle
  <2> QED BY <2>1, <2>2 DEF UpOK
<1>7. ASSUME NEW c \in Commands, Deliver(c), linked PROVE UpOK'
  <2>1. /\ pending' = [pending EXCEPT ![c].state = "SENT"]
        /\ record' = [record EXCEPT ![c] = "SENT"]
        /\ outbound' = outbound \cup {Frame("command", pending[c].seq, c)}
        /\ c \in queue /\ UNCHANGED <<linked, down, up, handed, conn, received>>
    BY <1>7 DEF Deliver, Earliest, link, history, remote
  <2>2. Marked(c)' /\ \A d \in Commands : Marked(d) => Marked(d)'
    BY <1>0, <2>1 DEF Marked, RegistryOK, DurableOK
  <2>3. ~Idle
    BY <2>1 DEF Idle
  <2>4. \A f \in outbound' : f \in outbound \/ (f.kind = "command" => Marked(f.cmd)')
    BY <2>1, <2>2 DEF Frame, Marked
  <2> QED BY <1>6, <1>7, <2>1, <2>2, <2>3, <2>4
<1>8. ASSUME Request \/ UNCHANGED vars, linked PROVE UpOK'
  <2>1. UNCHANGED <<linked, down, up, handed, conn, received, queue, outbound, pending>>
    BY <1>8 DEF Request, RaiseEpoch, Accept, Prepare, vars, registry, handler, link,
         remote, history
  <2>2. \A c \in Commands : record[c] = "SENT" => record'[c] = "SENT"
    BY <1>0, <1>8 DEF Request, RaiseEpoch, Accept, Prepare, vars, durable, DurableOK
  <2>3. \A c \in Commands : Marked(c) => Marked(c)'
    BY <2>1, <2>2 DEF Marked
  <2> QED BY <1>6, <1>8, <2>1, <2>3
<1>9. CASE Connector
  <2>1. linked
    BY <1>9 DEF Connector, ReadSnapshot, RefuseSnapshot, ReadRequired, ReadControl,
         ReadCommand, Read
  <2> QED BY <1>0, <1>2, <1>9, <2>1, UpRead DEF Connector
<1>10. CASE Reception
  <2>1. linked
    BY <1>10 DEF Reception, RefuseReport, ReceiveSnapshot, ObserveInDoubt, Replay,
         Acknowledge, Receive
  <2> QED BY <1>0, <1>10, <2>1, UpTaken
<1>11. ASSUME Request \/ Task \/ UNCHANGED vars PROVE linked' = linked
  BY <1>11 DEF Request, RaiseEpoch, Accept, Prepare, Task, WriterFails, Deliver, Write,
       vars, link
<1> QED
  <2>1. linked \in BOOLEAN
    BY <1>0 DEF LinkOK
  <2> QED BY <1>1, <1>2, <1>3, <1>4, <1>5, <1>7, <1>8, <1>9, <1>10, <1>11, <2>1, Steps
          DEF Connection, Task

\* No result the connector reports is refused, whatever was restarted or refused
\* before: within a session its sequence is the next, its envelope is pending and
\* its record is open (connector_delivery.py:354, record_result;
\* execution.py:3118, connector_dispatch_result).
THEOREM ResultsAlwaysFit == Spec => []ResultsFit
<1>1. Init => UpOK
  BY DEF Init, UpOK
<1>2. DeliveryInv /\ TypeOK' /\ UpOK /\ [Next]_vars => UpOK'
  BY UpStep
<1>3. DeliveryInv => TypeOK
  BY DEF DeliveryInv
<1>4. DeliveryInv /\ UpOK => ResultsFit
  <2> SUFFICES ASSUME DeliveryInv, UpOK, linked, up # <<>>, up[1].kind = "result"
               PROVE  Registered(up[1]) /\ Settles(up[1])
    BY DEF ResultsFit
  <2>1. /\ 1 \in 1..Len(up) /\ Len(up) \in Nat
        /\ conn.seq \in Nat /\ received \in Nat
    BY TailItems DEF DeliveryInv, TypeOK, LinkOK, RemoteOK, RegistryOK
  <2>2. Marked(up[1].cmd)
    BY <2>1 DEF UpOK, FlightOK, UpMarked
  <2>3. up[1].seq = conn.seq - Len(up) + 1 /\ received = conn.seq - Len(up)
    BY <2>1 DEF UpOK, ReportsOK, Idle
  <2>4. InSequence(up[1])
    BY <2>1, <2>3 DEF InSequence
  <2> QED BY <2>2, <2>4 DEF Marked, Registered, Settles
<1> QED BY <1>1, <1>2, <1>3, <1>4, DeliveryInvariant, PTL DEF Spec

-----------------------------------------------------------------------------
(* The stream keeps its promise (StreamPromise).                           *)

Wire == {f.cmd : f \in InTransit}

\* A queue is filled by the reconciliation only, and a broken link is empty.
SessionOK ==
    /\ queue # {} => session.reconciled
    /\ ~linked => down = <<>> /\ up = <<>>

LEMMA SessionStep ==
  ASSUME TypeOK, SessionOK, [Next]_vars PROVE SessionOK'
<1>0. HandlerOK /\ LinkOK
  BY DEF TypeOK
<1>1. queue' # {} => session'.reconciled
  <2>1. CASE Request \/ Connector \/ UNCHANGED vars
    <3>1. UNCHANGED <<queue, session>>
      BY <2>1 DEF Request, RaiseEpoch, Accept, Prepare, Connector, ReadSnapshot,
         RefuseSnapshot, ReadRequired, ReadControl, ReadCommand, registry, handler, vars
    <3> QED BY <3>1 DEF SessionOK
  <2>2. CASE Connection \/ WriterFails \/ Restart
    <3>1. queue' \in {queue, {}} /\ (queue' # {} => session' = session)
      BY <1>0, <2>2 DEF Connection, Open, Greet, GreetFails, Break, Disconnected, Close,
         WriterFails, Restart, RestartBackend, RestartConnector, registry, handler,
         HandlerOK
    <3> QED BY <3>1 DEF SessionOK
  <2>3. CASE (\E c \in Commands : Deliver(c)) \/ \E f \in outbound : Write(f)
    <3>1. queue' \subseteq queue /\ session' = session
      BY <2>3 DEF Deliver, Write, registry
    <3> QED BY <3>1 DEF SessionOK
  <2>4. CASE RefuseReport \/ ReceiveSnapshot \/ ObserveInDoubt \/ Acknowledge
    <3>1. UNCHANGED <<queue, session>>
      BY <2>4 DEF RefuseReport, ReceiveSnapshot, ObserveInDoubt, Acknowledge, handler
    <3> QED BY <3>1 DEF SessionOK
  <2>5. CASE Replay
    BY <2>5 DEF Replay, TypeOK, RegistryOK
  <2> QED BY <2>1, <2>2, <2>3, <2>4, <2>5, Steps DEF Task, Reception
<1>2. ~linked' => down' = <<>> /\ up' = <<>>
  <2>1. CASE Request \/ WriterFails \/ (\E c \in Commands : Deliver(c)) \/ UNCHANGED vars
             \/ Greet \/ GreetFails \/ Disconnected
    <3>1. linked' = linked /\ (~linked => down' = down /\ up' = up)
      BY <2>1 DEF Request, RaiseEpoch, Accept, Prepare, WriterFails, Deliver, Greet,
         GreetFails, Disconnected, link, vars
    <3> QED BY <3>1 DEF SessionOK
  <2>2. CASE Open \/ Break \/ Close \/ RefuseSnapshot \/ Restart
    BY <2>2 DEF Open, Break, Close, RefuseSnapshot, Restart, RestartBackend,
       RestartConnector
  <2>3. ASSUME NEW f \in outbound, Write(f) PROVE ~linked' => down' = <<>> /\ up' = <<>>
    BY <2>3 DEF Write, SessionOK
  <2>4. CASE ReadSnapshot \/ ReadRequired \/ ReadControl \/ ReadCommand \/ Reception
    <3>1. linked' = linked /\ linked
      BY <2>4 DEF ReadSnapshot, ReadRequired, ReadControl, ReadCommand, Read, Reception,
         RefuseReport, ReceiveSnapshot, ObserveInDoubt, Replay, Acknowledge, Receive
    <3> QED BY <3>1
  <2> QED BY <2>1, <2>2, <2>3, <2>4, Steps DEF Connection, Task, Connector
<1> QED BY <1>1, <1>2 DEF SessionOK


LEMMA SessionHolds == Spec => []SessionOK
<1>1. Init => SessionOK
  BY DEF Init, SessionOK
<1>2. TypeOK /\ SessionOK /\ [Next]_vars => SessionOK'
  BY SessionStep
<1> QED BY <1>1, <1>2, TypeCorrect, PTL DEF Spec

PromiseInv == DeliveryInv /\ UpOK /\ SessionOK

Promised == <<record, StreamSession, Wire, Answers>>

InUp(c) == \E i \in 1..Len(up) : up[i].kind = "result" /\ up[i].cmd = c

LEMMA AnswersAre == Answers = {c \in Commands : record[c] = "SENT" /\ InUp(c)}
  BY DEF Answers, InUp

\* A command in transit is in a frame that waits or one on the link.
LEMMA WireAre ==
  ASSUME NEW c
  PROVE  c \in Wire <=> \/ \E f \in outbound : f.kind = "command" /\ f.cmd = c
                        \/ \E i \in 1..Len(down) : down[i].kind = "command" /\ down[i].cmd = c
  BY DEF Wire, InTransit

LEMMA WireNames == ASSUME TypeOK PROVE Wire \in SUBSET Commands
  BY TheyNameCommands, WireAre

\* What is neither recorded nor sent nor taken is a loss, or nothing at all.
LEMMA DropRefines ==
  ASSUME UNCHANGED <<record, StreamSession>>, Wire' \subseteq Wire,
         Answers' \subseteq Answers
  PROVE  [Stream!Next]_Promised
<1>1. Stream!Drop
  BY DEF Stream!Drop, Wire
<1> QED BY <1>1 DEF Stream!Next

LEMMA RequestRefines ==
  ASSUME PromiseInv, Request \/ UNCHANGED vars PROVE [Stream!Next]_Promised
<1>0. TypeOK
  BY DEF PromiseInv, DeliveryInv
<1>1. UNCHANGED <<StreamSession, Wire, up>>
  BY DEF Request, RaiseEpoch, Accept, Prepare, vars, registry, handler, link,
     StreamSession, Wire, InTransit
<1>2. CASE UNCHANGED record
  BY <1>1, <1>2, DropRefines DEF Answers
<1>3. ASSUME NEW c \in Commands, Prepare(c) PROVE [Stream!Next]_Promised
  <2>1. record[c] = "NONE" /\ record' = [record EXCEPT ![c] = "QUEUED"]
    BY <1>3 DEF Prepare
  <2>2. \A d \in Commands : record'[d] = "SENT" <=> record[d] = "SENT"
    BY <1>0, <2>1 DEF TypeOK, DurableOK
  <2>3. Answers' = Answers
    BY <1>1, <2>2 DEF Answers
  <2>4. Stream!Queue(c)
    BY <1>1, <2>1, <2>3 DEF Stream!Queue, Wire
  <2> QED BY <2>4 DEF Stream!Next
<1>4. UNCHANGED record \/ \E c \in Commands : Prepare(c)
  BY DEF Request, RaiseEpoch, Accept, vars, durable
<1> QED BY <1>2, <1>3, <1>4

LEMMA ConnectionRefines ==
  ASSUME PromiseInv, Connection PROVE [Stream!Next]_Promised
<1>0. TypeOK /\ HandlerOK /\ RegistryOK /\ LinkOK
  BY DEF PromiseInv, DeliveryInv, TypeOK
<1>1. CASE Open
  <2>1. StreamSession = "closed" /\ StreamSession' = "open" /\ record' = record
    BY <1>1 DEF Open, StreamSession, durable
  <2>2. Wire' = {} /\ Answers' = {}
    BY <1>1 DEF Open, Wire, InTransit, Answers
  <2>3. Stream!Open
    BY <2>1, <2>2 DEF Stream!Open, Wire
  <2> QED BY <2>3 DEF Stream!Next
<1>2. CASE Greet
  <2> DEFINE f == [Frame("snapshot", lastSequence, NoCommand) EXCEPT !.epoch = epoch]
  <2>1. /\ UNCHANGED <<record, session, up>>
        /\ outbound' = Control("required", {}) /\ down' = Append(down, f)
    BY <1>2 DEF Greet, durable
  <2>2. f.kind = "snapshot" /\ f \in Frames
    BY <1>0 DEF Frame, Frames, RegistryOK, TypeOK, DurableOK
  <2> HIDE DEF f
  <2>3. /\ Len(down') = Len(down) + 1 /\ Len(down) \in Nat
        /\ \A i \in 1..Len(down) : down'[i] = down[i]
        /\ down'[Len(down) + 1] = f
    BY <1>0, <2>1, <2>2, AppendedItems DEF LinkOK
  <2>4. \A g \in outbound' : g.kind # "command"
    BY <2>1 DEF Control, Frame
  <2>5. Wire' \subseteq Wire
    <3> SUFFICES ASSUME NEW c \in Wire' PROVE c \in Wire
      OBVIOUS
    <3>1. PICK i \in 1..Len(down') : down'[i].kind = "command" /\ down'[i].cmd = c
      BY <2>4 DEF Wire, InTransit
    <3>2. i \in 1..Len(down)
      BY <2>2, <2>3, <3>1
    <3> QED BY <2>3, <3>1, <3>2, WireAre
  <2> QED BY <2>1, <2>5, DropRefines DEF Answers, StreamSession
<1>3. CASE GreetFails \/ Disconnected
  <2>1. UNCHANGED <<record, session, up, outbound, down>>
    BY <1>3 DEF GreetFails, Disconnected, durable, registry, link
  <2> QED BY <2>1, DropRefines DEF Answers, StreamSession, Wire, InTransit
<1>4. CASE Break
  <2>1. UNCHANGED <<record, session, outbound>> /\ down' = <<>> /\ up' = <<>>
    BY <1>4 DEF Break, durable, registry, handler
  <2>2. Wire' \subseteq Wire /\ Answers' = {}
    BY <2>1 DEF Wire, InTransit, Answers
  <2> QED BY <2>1, <2>2, DropRefines DEF StreamSession
<1>5. CASE Close
  <2>1. session.active /\ session' = NoSession
    BY <1>0, <1>5 DEF Close, HandlerOK
  <2>2. StreamSession # "closed" /\ StreamSession' = "closed"
    BY <2>1 DEF StreamSession, NoSession
  <2>3. Wire' = {} /\ Answers' = {}
    BY <1>5 DEF Close, Wire, InTransit, Answers
  <2>4. record' = [c \in Commands |-> IF record[c] = "SENT" THEN "UNKNOWN" ELSE record[c]]
    BY <1>5 DEF Close
  <2>5. Stream!Lose
    BY <2>2, <2>3, <2>4 DEF Stream!Lose, Wire
  <2> QED BY <2>5 DEF Stream!Next
<1> QED BY <1>1, <1>2, <1>3, <1>4, <1>5 DEF Connection

LEMMA TaskRefines ==
  ASSUME PromiseInv, Task PROVE [Stream!Next]_Promised
<1>0. TypeOK /\ HandlerOK /\ RegistryOK /\ LinkOK /\ DurableOK
  BY DEF PromiseInv, DeliveryInv, TypeOK
<1>1. CASE WriterFails
  <2>1. UNCHANGED <<record, session, down, up>> /\ outbound' = {}
    BY <1>1 DEF WriterFails, durable, registry, link
  <2>2. Wire' \subseteq Wire /\ Answers' = Answers
    BY <2>1 DEF Wire, InTransit, Answers
  <2> QED BY <2>1, <2>2, DropRefines DEF StreamSession
<1>2. ASSUME NEW c \in Commands, Deliver(c) PROVE [Stream!Next]_Promised
  <2> DEFINE f == Frame("command", pending[c].seq, c)
  <2>1. /\ c \in queue /\ record' = [record EXCEPT ![c] = "SENT"]
        /\ outbound' = outbound \cup {f} /\ UNCHANGED <<session, down, up>> /\ Working
    BY <1>2 DEF Deliver, Earliest, link
  <2>2. f.kind = "command" /\ f.cmd = c
    BY DEF Frame
  <2> HIDE DEF f
  <2>3. record[c] = "QUEUED" /\ session.reconciled /\ session.active
    <3>1. stage # "none"
      BY <2>1 DEF Working
    <3> QED BY <1>0, <2>1, <3>1 DEF PromiseInv, DeliveryInv, QueueOK, SessionOK, HandlerOK
  <2>4. StreamSession = "ready" /\ StreamSession' = "ready"
    BY <2>1, <2>3 DEF StreamSession
  <2>5. Wire' = Wire \cup {c}
    BY <2>1, <2>2 DEF Wire, InTransit
  <2>6. ~InUp(c)
    <3> SUFFICES ASSUME NEW i \in 1..Len(up), up[i].kind = "result", up[i].cmd = c
                 PROVE  FALSE
      BY DEF InUp
    <3>1. linked
      BY DEF PromiseInv, SessionOK
    <3> QED BY <2>3, <3>1 DEF PromiseInv, UpOK, FlightOK, UpMarked, Marked
  <2>7. Answers' = Answers
    <3>1. \A d \in Commands \ {c} : record'[d] = record[d]
      BY <1>0, <2>1 DEF DurableOK
    <3>2. \A d : InUp(d)' <=> InUp(d)
      BY <2>1 DEF InUp
    <3> QED BY <2>6, <3>1, <3>2, AnswersAre DEF Answers, InUp
  <2>8. Stream!Send(c)
    BY <2>1, <2>3, <2>4, <2>5, <2>7 DEF Stream!Send, Wire
  <2> QED BY <2>8 DEF Stream!Next
<1>3. ASSUME NEW f \in outbound, Write(f) PROVE [Stream!Next]_Promised
  <2>1. /\ UNCHANGED <<record, session, up>> /\ outbound' = outbound \ {f}
        /\ down' \in {down, Append(down, f)}
    BY <1>3 DEF Write, durable, registry
  <2>2. f \in Frames
    BY <1>0 DEF HandlerOK
  <2>3. Wire' \subseteq Wire
    <3> SUFFICES ASSUME NEW i \in 1..Len(down'), down'[i].kind = "command"
                 PROVE  down'[i].cmd \in Wire
      BY <2>1 DEF Wire, InTransit
    <3>1. CASE down' = down
      BY <3>1, WireAre
    <3>2. CASE down' = Append(down, f)
      <4>1. /\ Len(down') = Len(down) + 1 /\ Len(down) \in Nat
            /\ \A j \in 1..Len(down) : down'[j] = down[j]
            /\ down'[Len(down) + 1] = f
        BY <1>0, <2>2, <3>2, AppendedItems DEF LinkOK
      <4>2. i \in 1..Len(down) \/ i = Len(down) + 1
        BY <4>1
      <4> QED BY <4>1, <4>2, WireAre
    <3> QED BY <2>1, <3>1, <3>2
  <2> QED BY <2>1, <2>3, DropRefines DEF Answers, StreamSession
<1> QED BY <1>1, <1>2, <1>3 DEF Task


\* The connector reads a frame; only a command has a result.
LEMMA ReadWire ==
  ASSUME TypeOK, NEW rs \in Seq(Reports), down # <<>>, down' = Tail(down),
         up' = up \o rs, UNCHANGED <<record, outbound>>
  PROVE  /\ Wire' \subseteq Wire
         /\ \A c \in Wire : c \in Wire' \/ (down[1].kind = "command" /\ down[1].cmd = c)
         /\ \A c : InUp(c) => InUp(c)'
         /\ \A c : InUp(c)' => InUp(c) \/ \E i \in 1..Len(rs) : rs[i].kind = "result" /\ rs[i].cmd = c
<1>1. /\ Len(down') = Len(down) - 1 /\ Len(down) \in Nat
      /\ \A i \in 1..Len(down') : down'[i] = down[i + 1] /\ i + 1 \in 2..Len(down)
  BY TailItems DEF TypeOK, LinkOK
<1>2. /\ Len(up) \in Nat /\ Len(rs) \in Nat /\ Len(up') = Len(up) + Len(rs)
      /\ \A i \in 1..Len(up) : up'[i] = up[i]
      /\ \A i \in 1..Len(up') :
             \/ i \in 1..Len(up)
             \/ i - Len(up) \in 1..Len(rs) /\ up'[i] = rs[i - Len(up)]
  BY JoinedItems, Zenon DEF TypeOK, LinkOK
<1>3. ASSUME NEW c \in Wire' PROVE c \in Wire
  <2>1. CASE \E f \in outbound : f.kind = "command" /\ f.cmd = c
    BY <2>1, WireAre
  <2>2. CASE \E i \in 1..Len(down') : down'[i].kind = "command" /\ down'[i].cmd = c
    <3>1. PICK i \in 1..Len(down') : down'[i].kind = "command" /\ down'[i].cmd = c
      BY <2>2
    <3>2. i + 1 \in 1..Len(down) /\ down'[i] = down[i + 1]
      BY <1>1, <3>1
    <3> QED BY <3>1, <3>2, WireAre
  <2> QED BY <2>1, <2>2 DEF Wire, InTransit
<1>4. ASSUME NEW c \in Wire
      PROVE  c \in Wire' \/ (down[1].kind = "command" /\ down[1].cmd = c)
  <2>1. CASE \E f \in outbound : f.kind = "command" /\ f.cmd = c
    BY <2>1 DEF Wire, InTransit
  <2>2. CASE \E i \in 1..Len(down) : down[i].kind = "command" /\ down[i].cmd = c
    <3>1. PICK i \in 1..Len(down) : down[i].kind = "command" /\ down[i].cmd = c
      BY <2>2
    <3>2. CASE i # 1
      <4>1. i - 1 \in 1..Len(down') /\ (i - 1) + 1 = i
        BY <1>1, <3>1, <3>2
      <4>2. down'[i - 1] = down[i]
        BY <1>1, <4>1
      <4> QED BY <3>1, <4>1, <4>2 DEF Wire, InTransit
    <3> QED BY <3>1, <3>2
  <2> QED BY <2>1, <2>2, WireAre
<1>5. ASSUME NEW c, InUp(c) PROVE InUp(c)'
  <2>1. PICK i \in 1..Len(up) : up[i].kind = "result" /\ up[i].cmd = c
    BY <1>5 DEF InUp
  <2>2. i \in 1..Len(up') /\ up'[i] = up[i]
    BY <1>2, <2>1
  <2> QED BY <2>1, <2>2 DEF InUp
<1>6. ASSUME NEW c, InUp(c)'
      PROVE  InUp(c) \/ \E i \in 1..Len(rs) : rs[i].kind = "result" /\ rs[i].cmd = c
  <2>1. PICK i \in 1..Len(up') : up'[i].kind = "result" /\ up'[i].cmd = c
    BY <1>6 DEF InUp
  <2>2. CASE i \in 1..Len(up)
    BY <1>2, <2>1, <2>2 DEF InUp
  <2> QED BY <1>2, <2>1, <2>2
<1> QED BY <1>3, <1>4, <1>5, <1>6

LEMMA ReadCommandRefines ==
  ASSUME PromiseInv, ReadCommand PROVE [Stream!Next]_Promised
<1>0. TypeOK /\ SendingOK /\ LinkOK /\ RemoteOK
  BY DEF PromiseInv, DeliveryInv, TypeOK
<1> DEFINE c == down[1].cmd
<1>1. PICK v \in Verdicts : Read("command", <<Report("result", conn.seq + 1, c, v)>>)
  BY DEF ReadCommand
<1> DEFINE r == Report("result", conn.seq + 1, c, v)
<1>2. /\ down[1] \in Frames /\ down[1].kind = "command" /\ down # <<>> /\ linked
      /\ down' = Tail(down) /\ up' = up \o <<r>>
  BY <1>0, <1>1, TailType DEF Read, LinkOK
<1>3. r \in Reports /\ r.kind = "result" /\ r.cmd = c /\ c \in Commands
  BY <1>0, <1>2 DEF Report, Reports, Frames, RemoteOK
<1>4. UNCHANGED <<record, outbound, session>>
  BY DEF ReadCommand, durable, registry, handler
<1> HIDE DEF r
<1>5. <<r>> \in Seq(Reports) /\ Len(<<r>>) = 1 /\ \A i \in 1..Len(<<r>>) : <<r>>[i] = r
  BY <1>3
<1>6. /\ Wire' \subseteq Wire /\ \A d \in Wire : d \in Wire' \/ d = c
      /\ \A d : InUp(d) => InUp(d)'
      /\ \A d : InUp(d)' => InUp(d) \/ d = c
  <2>1. /\ Wire' \subseteq Wire
        /\ \A d \in Wire : d \in Wire' \/ (down[1].kind = "command" /\ down[1].cmd = d)
        /\ \A d : InUp(d) => InUp(d)'
        /\ \A d : InUp(d)' => \/ InUp(d)
                             \/ \E i \in 1..Len(<<r>>) : <<r>>[i].kind = "result" /\ <<r>>[i].cmd = d
    BY ONLY <1>0, <1>2, <1>4, <1>5, ReadWire
  <2> QED BY ONLY <1>3, <1>5, <2>1
<1>7. 1 \in 1..Len(down) /\ c \in Wire
  BY <1>0, <1>2, TailItems, WireAre DEF LinkOK
<1>8. FlightOK
  BY <1>2 DEF PromiseInv, UpOK
<1>9. c \notin Wire'
  <2>1. handed[c] # 0
    BY <1>2, <1>7, <1>8 DEF FlightOK, DownMarked
  <2>2. ~\E f \in outbound' : f.kind = "command" /\ f.cmd = c
    BY <1>0, <1>4, <2>1 DEF SendingOK
  <2>3. ASSUME NEW i \in 1..Len(down'), down'[i].kind = "command", down'[i].cmd = c
        PROVE  FALSE
    <3>1. down'[i] = down[i + 1] /\ i + 1 \in 1..Len(down) /\ i + 1 # 1
      BY <1>0, <1>2, TailItems DEF LinkOK
    <3> QED BY <1>2, <1>7, <1>8, <2>3, <3>1 DEF FlightOK, DownOnce
  <2> QED BY <2>2, <2>3 DEF Wire, InTransit
<1>10. Wire' = Wire \ {c}
  BY <1>6, <1>9
<1>11. Answers' \in {Answers, Answers \cup {c}}
  <2>1. Answers' = {d \in Commands : record[d] = "SENT" /\ InUp(d)'}
    BY <1>4 DEF Answers, InUp
  <2> QED BY <1>3, <1>6, <2>1, AnswersAre
<1>12. \E d \in Commands : Stream!Act(d)
  <2>1. PICK d \in Commands : d = c
    BY <1>3
  <2>2. Stream!Act(d)
    BY <1>4, <1>7, <1>10, <1>11, <2>1 DEF Stream!Act, Wire, StreamSession
  <2> QED BY <2>2
<1> QED BY <1>12 DEF Stream!Next

LEMMA ConnectorRefines ==
  ASSUME PromiseInv, Connector PROVE [Stream!Next]_Promised
<1>0. TypeOK /\ LinkOK /\ RemoteOK
  BY DEF PromiseInv, DeliveryInv, TypeOK
<1>1. ASSUME NEW rs \in Seq(Reports), down # <<>>, down' = Tail(down), up' = up \o rs,
             UNCHANGED <<record, outbound, session>>,
             \A i \in 1..Len(rs) : rs[i].kind # "result"
      PROVE  [Stream!Next]_Promised
  <2>1. Wire' \subseteq Wire /\ \A c : InUp(c)' => InUp(c)
    BY <1>0, <1>1, ReadWire
  <2>2. Answers' \subseteq Answers
    BY <1>1, <2>1, AnswersAre DEF Answers, InUp
  <2> QED BY <1>1, <2>1, <2>2, DropRefines DEF StreamSession
<1>2. CASE ReadSnapshot \/ ReadControl
  <2>1. /\ down # <<>> /\ down' = Tail(down) /\ up' = up \o <<>>
        /\ UNCHANGED <<record, outbound, session>>
    BY <1>2 DEF ReadSnapshot, ReadControl, Read, durable, registry, handler
  <2>2. <<>> \in Seq(Reports) /\ 1..Len(<<>>) = {}
    OBVIOUS
  <2> QED BY <1>1, <2>1, <2>2
<1>3. CASE ReadRequired
  <2> DEFINE r == Report("snapshot", conn.seq + 1, NoCommand, "none")
             t == Report("observation", conn.seq + 2, NoCommand, "none")
  <2>1. /\ down # <<>> /\ down' = Tail(down) /\ up' = up \o <<r, t>>
        /\ UNCHANGED <<record, outbound, session>>
    BY <1>3 DEF ReadRequired, Read, durable, registry, handler
  <2>2. r \in Reports /\ r.kind # "result" /\ t \in Reports /\ t.kind # "result"
    BY <1>0 DEF Report, Reports, RemoteOK
  <2> HIDE DEF r, t
  <2>3. <<r, t>> \in Seq(Reports) /\ \A i \in 1..Len(<<r, t>>) : <<r, t>>[i].kind # "result"
    BY <2>2
  <2> QED BY <1>1, <2>1, <2>3
<1>4. CASE RefuseSnapshot
  <2>1. UNCHANGED <<record, session, outbound>> /\ down' = <<>> /\ up' = <<>>
    BY <1>4 DEF RefuseSnapshot, durable, registry, handler
  <2>2. Wire' \subseteq Wire /\ Answers' = {}
    BY <2>1 DEF Wire, InTransit, Answers
  <2> QED BY <2>1, <2>2, DropRefines DEF StreamSession
<1> QED BY <1>2, <1>3, <1>4, ReadCommandRefines DEF Connector

\* A report is taken: what waits in the outbound frames are the same commands, and
\* what is answered is what was answered but for the command of the report.
LEMMA TakenWire ==
  ASSUME TypeOK, up # <<>>, up' = Tail(up), down' = down,
         outbound' \in {outbound, Control("control", outbound)}
  PROVE  /\ Wire' = Wire
         /\ \A c : InUp(c)' => InUp(c)
         /\ \A c : InUp(c) => InUp(c)' \/ (up[1].kind = "result" /\ up[1].cmd = c)
<1>1. /\ Len(up') = Len(up) - 1 /\ Len(up) \in Nat
      /\ \A i \in 1..Len(up') : up'[i] = up[i + 1] /\ i + 1 \in 2..Len(up)
  BY TailItems DEF TypeOK, LinkOK
<1>2. Wire' = Wire
  <2>1. \A f : f.kind = "command" => (f \in outbound' <=> f \in outbound)
    BY DEF Control, Frame
  <2> QED BY <2>1 DEF Wire, InTransit
<1>3. ASSUME NEW c, InUp(c)' PROVE InUp(c)
  <2>1. PICK i \in 1..Len(up') : up'[i].kind = "result" /\ up'[i].cmd = c
    BY <1>3 DEF InUp
  <2>2. i + 1 \in 1..Len(up) /\ up'[i] = up[i + 1]
    BY <1>1, <2>1
  <2> QED BY <2>1, <2>2 DEF InUp
<1>4. ASSUME NEW c, InUp(c) PROVE InUp(c)' \/ (up[1].kind = "result" /\ up[1].cmd = c)
  <2>1. PICK i \in 1..Len(up) : up[i].kind = "result" /\ up[i].cmd = c
    BY <1>4 DEF InUp
  <2>2. CASE i # 1
    <3>1. i - 1 \in 1..Len(up') /\ (i - 1) + 1 = i
      BY <1>1, <2>1, <2>2
    <3>2. up'[i - 1] = up[i]
      BY <1>1, <3>1
    <3> QED BY <2>1, <3>1, <3>2 DEF InUp
  <2> QED BY <2>1, <2>2
<1> QED BY <1>2, <1>3, <1>4

LEMMA ReceptionRefines ==
  ASSUME PromiseInv, Reception PROVE [Stream!Next]_Promised
<1>0. TypeOK /\ LinkOK /\ DurableOK /\ HandlerOK /\ RegistryOK
  BY DEF PromiseInv, DeliveryInv, TypeOK
<1>1. /\ up # <<>> /\ up' = Tail(up) /\ down' = down /\ linked /\ stage = "running"
      /\ outbound' \in {outbound, Control("control", outbound)}
  BY DEF Reception, RefuseReport, ReceiveSnapshot, ObserveInDoubt, Replay, Acknowledge,
     Receive, handler
<1>2. /\ Wire' = Wire /\ \A c : InUp(c)' => InUp(c)
      /\ \A c : InUp(c) => InUp(c)' \/ (up[1].kind = "result" /\ up[1].cmd = c)
  BY <1>0, <1>1, TakenWire
<1>3. CASE RefuseReport \/ ReceiveSnapshot \/ ObserveInDoubt
  <2>1. UNCHANGED <<record, session>>
    BY <1>3 DEF RefuseReport, ReceiveSnapshot, ObserveInDoubt, durable
  <2>2. Answers' \subseteq Answers
    BY <1>2, <2>1, AnswersAre DEF Answers, InUp
  <2> QED BY <1>2, <2>1, <2>2, DropRefines DEF StreamSession
<1>4. CASE Replay
  <2>1. /\ record' = record /\ up[1].kind # "result"
        /\ session' = [session EXCEPT !.reconciled = TRUE]
        /\ \A c \in Commands : record[c] # "UNKNOWN"
    BY <1>4 DEF Replay, durable, Receive
  <2>2. Answers' = Answers
    <3>1. \A c : InUp(c)' <=> InUp(c)
      BY <1>2, <2>1
    <3>2. Answers' = {c \in Commands : record[c] = "SENT" /\ InUp(c)'}
      BY <2>1 DEF Answers, InUp
    <3> QED BY <3>1, <3>2, AnswersAre
  <2>3. session.active /\ session'.active /\ session'.reconciled
    BY <1>0, <1>1, <2>1 DEF HandlerOK, RegistryOK
  <2>4. StreamSession' = "ready" /\ StreamSession \in {"open", "ready"}
    BY <2>3 DEF StreamSession
  <2>5. CASE StreamSession = "ready"
    BY <1>2, <2>1, <2>2, <2>4, <2>5, DropRefines
  <2>6. CASE StreamSession = "open"
    <3>1. Stream!Ready
      BY <1>2, <2>1, <2>2, <2>4, <2>6 DEF Stream!Ready, Wire
    <3> QED BY <3>1 DEF Stream!Next
  <2> QED BY <2>4, <2>5, <2>6
<1>5. CASE Acknowledge
  <2> DEFINE c == up[1].cmd
  <2>0. PICK v \in Recorded(up[1]) : record' = [record EXCEPT ![c] = v]
    BY <1>5 DEF Acknowledge
  <2>1. up[1].kind = "result" /\ record' = [record EXCEPT ![c] = v] /\ session' = session
    BY <1>5, <2>0 DEF Acknowledge, Receive
  <2>2. 1 \in 1..Len(up) /\ up[1] \in Reports
    BY <1>0, <1>1, TailItems, TailType DEF LinkOK
  <2>3. c \in Commands /\ v \in Verdicts
    BY <2>1, <2>2 DEF Reports, Recorded, Verdicts
  <2>4. record[c] = "SENT"
    BY <1>1, <2>1, <2>2 DEF PromiseInv, UpOK, FlightOK, UpMarked, Marked
  <2>5. InUp(c)
    BY <2>1, <2>2 DEF InUp
  <2>6. StreamSession # "closed" /\ StreamSession' = StreamSession
    BY <1>0, <1>1, <2>1 DEF StreamSession, HandlerOK
  <2>7. Answers' = Answers \ {c}
    <3>1. /\ \A d \in Commands \ {c} : record'[d] = record[d]
          /\ record'[c] # "SENT"
      BY <1>0, <2>1, <2>3 DEF DurableOK, Verdicts
    <3>2. \A d \in Commands \ {c} : InUp(d)' <=> InUp(d)
      BY <1>2
    <3> QED BY <3>1, <3>2, AnswersAre DEF Answers, InUp
  <2>8. Stream!Settle(c, v)
    BY <1>2, <2>1, <2>3, <2>4, <2>5, <2>6, <2>7, AnswersAre DEF Stream!Settle, Wire
  <2>9. v \in Stream!Verdicts
    BY <2>3 DEF Verdicts, Stream!Verdicts
  <2> QED BY <2>3, <2>8, <2>9 DEF Stream!Next
<1> QED BY <1>3, <1>4, <1>5 DEF Reception

LEMMA RestartRefines ==
  ASSUME PromiseInv, Restart PROVE [Stream!Next]_Promised
<1>1. CASE RestartBackend
  <2>1. StreamSession' = "closed" /\ record' = record /\ Wire' = {} /\ Answers' = {}
    BY <1>1 DEF RestartBackend, NoSession, StreamSession, durable, Wire, InTransit, Answers
  <2>2. Stream!Crash
    BY <2>1 DEF Stream!Crash, Wire
  <2> QED BY <2>2 DEF Stream!Next
<1>2. CASE RestartConnector
  <2>1. UNCHANGED <<record, session, outbound>> /\ down' = <<>> /\ up' = <<>>
    BY <1>2 DEF RestartConnector, durable, registry, handler
  <2>2. Wire' \subseteq Wire /\ Answers' = {}
    BY <2>1 DEF Wire, InTransit, Answers
  <2> QED BY <2>1, <2>2, DropRefines DEF StreamSession
<1> QED BY <1>1, <1>2 DEF Restart

LEMMA UpHolds == Spec => []UpOK
<1>1. Init => UpOK
  BY DEF Init, UpOK
<1>2. DeliveryInv /\ DeliveryInv' /\ UpOK /\ [Next]_vars => UpOK'
  BY UpStep DEF DeliveryInv
<1> QED BY <1>1, <1>2, DeliveryInvariant, PTL DEF Spec

\* What the coordinator takes the stream for is what registry, bridge, tasks and
\* handler make of it, over any number of sessions, lost connections, failed writers
\* and restarts of both sides: each step of the delivery is a step of StreamPromise
\* or none (connector_delivery.py; main.py, connector_stream).
THEOREM DeliveryKeepsPromise == Spec => StreamSpec
<1>1. Init => Stream!Init
  <2> SUFFICES ASSUME Init PROVE Stream!Init
    OBVIOUS
  <2>1. StreamSession = "closed" /\ Wire = {} /\ Answers = {}
    BY DEF Init, NoSession, StreamSession, Wire, InTransit, Answers
  <2> QED BY <2>1 DEF Init, Stream!Init, Wire
<1>2. PromiseInv /\ [Next]_vars => [Stream!Next]_Promised
  BY Steps, RequestRefines, ConnectionRefines, TaskRefines, ConnectorRefines,
     ReceptionRefines, RestartRefines
<1>3. Spec => []PromiseInv
  BY DeliveryInvariant, UpHolds, SessionHolds, PTL DEF PromiseInv
<1>4. StreamSpec <=> Stream!Init /\ [][Stream!Next]_Promised
  BY DEF StreamSpec, Stream!Spec, Stream!vars, Promised, Wire
<1> QED BY <1>1, <1>2, <1>3, <1>4, PTL DEF Spec

=============================================================================
