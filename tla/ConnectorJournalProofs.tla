------------------------ MODULE ConnectorJournalProofs ------------------------
(***************************************************************************)
(* Proofs about ConnectorJournal, for any sets of commands and keys and    *)
(* any bounds.  Type correctness, the write-ahead facts and the finality   *)
(* of verdicts hold with failed journal writes; at-most-once, the fence    *)
(* and the verdicts hold until the first one (faults = 0).                 *)
(***************************************************************************)
EXTENDS ConnectorJournal, TLAPS

USE DEF Terminal, Matches, JournalStates, Phases, DispatchSteps

LEMMA NoRowType == NoRow \in Row
  BY ConstantsAssumption DEF NoRow, Row

LEMMA MovedType ==
  ASSUME NEW r \in Row, NEW state \in JournalStates, NEW phase \in Phases,
         NEW invoked \in BOOLEAN
  PROVE  /\ Moved(r, state, phase, invoked) \in Row
         /\ Moved(r, state, phase, invoked).state = state
         /\ Moved(r, state, phase, invoked).phase = phase
         /\ Moved(r, state, phase, invoked).invoked <=> (r.invoked \/ invoked)
         /\ Moved(r, state, phase, invoked).key = r.key
         /\ Moved(r, state, phase, invoked).seq = r.seq
         /\ Moved(r, state, phase, invoked).match = r.match
  BY DEF Moved, Row

LEMMA ResolvedType ==
  ASSUME NEW r \in Row, NEW evidence \in {"EXECUTED", "CANCELLED", "NO_EFFECT"}
  PROVE  /\ Resolved(r, evidence) \in Row
         /\ Resolved(r, evidence).state =
                IF evidence = "EXECUTED" THEN "ACCEPTED" ELSE "REJECTED"
         /\ Resolved(r, evidence).phase = "RESOLVED"
         /\ Resolved(r, evidence).invoked <=> r.invoked
         /\ Resolved(r, evidence).key = r.key
         /\ Resolved(r, evidence).seq = r.seq
         /\ Resolved(r, evidence).match =
                IF evidence = "NO_EFFECT" THEN "NO_EFFECT" ELSE "UNIQUE_MATCH"
<1> DEFINE state == IF evidence = "EXECUTED" THEN "ACCEPTED" ELSE "REJECTED"
           match == IF evidence = "NO_EFFECT" THEN "NO_EFFECT" ELSE "UNIQUE_MATCH"
           moved == Moved(r, state, "RESOLVED", FALSE)
<1>1. Resolved(r, evidence) = [moved EXCEPT !.match = match]
  BY DEF Resolved
<1>2. state \in JournalStates /\ match \in Matches
  OBVIOUS
<1> HIDE DEF state, match
<1>3. /\ moved \in Row /\ moved.state = state /\ moved.phase = "RESOLVED"
      /\ (moved.invoked <=> r.invoked) /\ moved.key = r.key /\ moved.seq = r.seq
  <2>1. moved \in Row
    BY <1>2 DEF Moved, Row
  <2>2. moved.state = state /\ moved.phase = "RESOLVED" /\ moved.key = r.key
        /\ moved.seq = r.seq
    BY <1>2 DEF Moved, Row
  <2>3. moved.invoked <=> r.invoked
    BY <1>2 DEF Moved, Row
  <2> QED BY <2>1, <2>2, <2>3
<1> HIDE DEF moved
<1>4. /\ Resolved(r, evidence) \in Row
      /\ Resolved(r, evidence).state = moved.state
      /\ Resolved(r, evidence).phase = moved.phase
      /\ Resolved(r, evidence).invoked = moved.invoked
      /\ Resolved(r, evidence).key = moved.key
      /\ Resolved(r, evidence).seq = moved.seq
      /\ Resolved(r, evidence).match = match
  BY <1>1, <1>2, <1>3 DEF Row
<1> QED BY <1>3, <1>4 DEF state, match

LEMMA RecoverRowType ==
  ASSUME NEW r \in Row PROVE RecoverRow(r) \in Row
  BY MovedType DEF RecoverRow

\* TypeOK holds initially.
LEMMA TypeInit == Init => TypeOK
<1>1. Init => journal \in [Commands -> Row]
  BY NoRowType DEF Init
<1>2. Init => effect \in [Commands -> BOOLEAN]
  BY DEF Init
<1>3. Init => calls \in [Commands -> Nat]
  BY DEF Init
<1>4. Init => enabled \in BOOLEAN
  BY DEF Init
<1>5. Init => lastSeq \in 0..MaxSeq /\ faults \in 0..MaxFaults /\ crashes \in 0..MaxCrashes
  BY ConstantsAssumption DEF Init
<1>6. Init => compacted \subseteq Commands
  BY DEF Init
<1>7. Init => cur \in Commands \cup {NoCommand} /\ pc \in DispatchSteps \cup {"idle", "down"}
  BY DEF Init
<1>8. Init => outcome \in {"none", "ACCEPTED", "REJECTED", "UNKNOWN"}
  BY DEF Init
<1> QED BY <1>1, <1>2, <1>3, <1>4, <1>5, <1>6, <1>7, <1>8 DEF TypeOK

LEMMA FinishType ==
  ASSUME TypeOK, cur \in Commands,
         NEW state \in {"ACCEPTED", "REJECTED", "UNKNOWN"}, Finish(state)
  PROVE  TypeOK'
<1> DEFINE phase == IF state = "UNKNOWN" THEN "RECONCILING" ELSE "RESOLVED"
<1>1. journal[cur] \in Row
  BY DEF TypeOK
<1>2. Moved(journal[cur], state, phase, FALSE) \in Row
  BY <1>1, MovedType
<1>3. journal' = [journal EXCEPT ![cur] = Moved(journal[cur], state, phase, FALSE)]
  BY DEF Finish, Transition
<1>4. journal' \in [Commands -> Row]
  BY <1>2, <1>3 DEF TypeOK
<1> QED
  BY <1>4 DEF TypeOK, Finish

\* In every reachable state a dispatch has a command, and its outcome is known
\* once the broker call has returned.
CurOK ==
    /\ pc \in {"idle", "down"} => cur = NoCommand /\ outcome = "none"
    /\ pc \in DispatchSteps => cur \in Commands
    /\ pc = "returned" => outcome \in {"ACCEPTED", "REJECTED", "UNKNOWN"}

LEMMA TypeStep == TypeOK /\ CurOK /\ [Next]_vars => TypeOK' /\ CurOK'
<1> SUFFICES ASSUME TypeOK, CurOK, [Next]_vars PROVE TypeOK' /\ CurOK'
  OBVIOUS
<1> USE ConstantsAssumption
<1>1. CASE Start
  <2>1. journal' \in [Commands -> Row]
    BY <1>1, RecoverRowType DEF Start, TypeOK
  <2>2. lastSeq' \in 0..MaxSeq
    BY <1>1 DEF Start
  <2> QED BY <1>1, <2>1, <2>2 DEF Start, TypeOK, CurOK
<1>2. CASE Crash
  <2>1. crashes' \in 0..MaxCrashes /\ lastSeq' \in 0..MaxSeq
    BY <1>2 DEF Crash, TypeOK
  <2>2. enabled' \in BOOLEAN
    BY <1>2 DEF Crash
  <2> QED BY <1>2, <2>1, <2>2 DEF Crash, TypeOK, CurOK
<1>3. CASE Approve \/ SessionBoundary
  BY <1>3 DEF Approve, SessionBoundary, TypeOK, CurOK
<1>4. CASE Receive
  <2>1. ASSUME NEW c \in Commands, NEW k \in Keys, NEW s \in 1..MaxSeq,
               ReceiveNew(c, k, s)
        PROVE  TypeOK' /\ CurOK'
    <3> DEFINE row == [state |-> "RECEIVED", phase |-> "RECEIVED",
                       invoked |-> FALSE, key |-> k, seq |-> s, match |-> "NONE"]
    <3>1. row \in Row
      BY DEF Row
    <3>2. journal' = [journal EXCEPT ![c] = row]
      BY <2>1 DEF ReceiveNew
    <3> HIDE DEF row
    <3>3. journal' \in [Commands -> Row]
      BY <3>1, <3>2 DEF TypeOK
    <3> QED BY <2>1, <3>3 DEF ReceiveNew, TypeOK, CurOK
  <2>2. ASSUME NEW c \in Commands, ReceiveAgain(c) PROVE TypeOK' /\ CurOK'
    BY <2>2 DEF ReceiveAgain, TypeOK, CurOK
  <2> QED BY <1>4, <2>1, <2>2 DEF Receive
<1>5. CASE Refuse \/ CheckFails
  <2>1. cur \in Commands /\ Finish("REJECTED")
    BY <1>5 DEF Refuse, CheckFails, CurOK
  <2>2. TypeOK'
    BY <2>1, FinishType
  <2> QED BY <2>1, <2>2 DEF Finish, CurOK
<1>6. CASE BeginCheck \/ CheckPasses \/ CommitInvoking
  <2>1. cur \in Commands
    BY <1>6 DEF BeginCheck, CheckPasses, CommitInvoking, CurOK
  <2>2. journal' \in [Commands -> Row]
    <3>1. PICK state \in {"RECEIVED", "INVOKING"} \cup JournalStates \cup {"ABSENT"},
               phase \in Phases, invoked \in BOOLEAN :
               Transition(state, phase, invoked)
      BY <1>6, <2>1 DEF BeginCheck, CheckPasses, CommitInvoking, TypeOK, Row
    <3>2. Moved(journal[cur], state, phase, invoked) \in Row
      BY <2>1 DEF Moved, Row, TypeOK
    <3> QED BY <2>1, <3>1, <3>2 DEF Transition, TypeOK
  <2>3. pc' \in {"checking", "checked", "invoking"} /\ cur' = cur
    BY <1>6 DEF BeginCheck, CheckPasses, CommitInvoking
  <2> QED BY <1>6, <2>1, <2>2, <2>3
          DEF BeginCheck, CheckPasses, CommitInvoking, TypeOK, CurOK
<1>7. CASE CallBroker
  <2> PICK result \in {"ACCEPTED", "REJECTED", "UNKNOWN"}, took \in BOOLEAN :
           Invoke(result, took)
    BY <1>7 DEF CallBroker
  <2> QED BY DEF Invoke, TypeOK, CurOK
<1>8. CASE RecordOutcome
  <2>1. cur \in Commands /\ outcome \in {"ACCEPTED", "REJECTED", "UNKNOWN"}
        /\ Finish(outcome)
    BY <1>8 DEF RecordOutcome, CurOK
  <2>2. TypeOK'
    BY <2>1, FinishType
  <2> QED BY <2>1, <2>2 DEF Finish, CurOK
<1>9. CASE WriteFails
  <2>1. faults' \in 0..MaxFaults
    BY <1>9 DEF WriteFails, TypeOK
  <2>2. enabled' \in BOOLEAN
    BY <1>9 DEF WriteFails, TypeOK
  <2>3. /\ pc' \in {"refusing", "idle"}
        /\ pc' = "refusing" => cur' = cur /\ outcome' = outcome /\ pc = "received"
        /\ pc' = "idle" => cur' = NoCommand /\ outcome' = "none"
    BY <1>9 DEF WriteFails
  <2>4. UNCHANGED <<journal, lastSeq, calls, effect, compacted, crashes>>
    BY <1>9 DEF WriteFails
  <2> QED BY <2>1, <2>2, <2>3, <2>4 DEF TypeOK, CurOK
<1>10. CASE ReconcileSome
  <2> PICK c \in Commands, evidence \in {"EXECUTED", "CANCELLED", "NO_EFFECT"} :
           Reconcile(c, evidence)
    BY <1>10 DEF ReconcileSome
  <2>0. Resolved(journal[c], evidence) \in Row
    BY ResolvedType DEF TypeOK
  <2>1. journal' \in [Commands -> Row]
    BY <2>0 DEF Reconcile, TypeOK
  <2> QED BY <2>1 DEF Reconcile, TypeOK, CurOK
<1>11. ASSUME NEW old \in SUBSET Commands, Compact(old) PROVE TypeOK' /\ CurOK'
  <2>1. journal' \in [Commands -> Row]
    BY <1>11, NoRowType DEF Compact, TypeOK
  <2> QED BY <1>11, <2>1 DEF Compact, TypeOK, CurOK
<1>12. CASE UNCHANGED vars
  BY <1>12 DEF vars, TypeOK, CurOK
<1> QED
  BY <1>1, <1>2, <1>3, <1>4, <1>5, <1>6, <1>7, <1>8, <1>9, <1>10, <1>11, <1>12
  DEF Next, DispatchStep

\* Every reachable state of the connector is well typed, whatever fails.
THEOREM TypeCorrect == Spec => []TypeOK
<1>1. Init => TypeOK /\ CurOK
  BY TypeInit DEF Init, CurOK
<1> QED BY <1>1, TypeStep, PTL DEF Spec

-----------------------------------------------------------------------------
(* The write-ahead facts, which failed journal writes do not disturb.      *)

\* What the journal knows of the broker: an uncompacted call is on record; a row
\* restart recovery rejected was never invoked; the row being dispatched is not
\* settled, and it is marked before the adapter is called.
RecordInv ==
    /\ \A c \in Commands \ compacted : calls[c] > 0 => Present(c) /\ journal[c].invoked
    /\ \A c \in Commands : journal[c].phase = "RECOVERED" =>
           journal[c].state = "REJECTED" /\ ~journal[c].invoked
    /\ pc \in DispatchSteps => journal[cur].state \in {"RECEIVED", "INVOKING"}
    /\ pc = "invoking" => journal[cur].invoked

\* SQLiteJournal.transition touches the row of the command in progress only.
LEMMA TransitionRow ==
  ASSUME TypeOK, cur \in Commands, NEW state \in JournalStates,
         NEW phase \in Phases, NEW invoked \in BOOLEAN,
         Transition(state, phase, invoked)
  PROVE  /\ \A c \in Commands \ {cur} : journal'[c] = journal[c]
         /\ journal'[cur].state = state
         /\ journal'[cur].phase = phase
         /\ journal'[cur].invoked <=> (journal[cur].invoked \/ invoked)
         /\ journal'[cur].key = journal[cur].key
         /\ journal'[cur].seq = journal[cur].seq
         /\ journal'[cur].match = journal[cur].match
<1>1. journal[cur] \in Row /\ DOMAIN journal = Commands
  BY DEF TypeOK
<1>2. journal' = [journal EXCEPT ![cur] = Moved(journal[cur], state, phase, invoked)]
  BY DEF Transition
<1>3. /\ journal'[cur] = Moved(journal[cur], state, phase, invoked)
      /\ \A c \in Commands \ {cur} : journal'[c] = journal[c]
  BY <1>1, <1>2
<1> DEFINE r == journal[cur]
<1>4. /\ Moved(r, state, phase, invoked).state = state
      /\ Moved(r, state, phase, invoked).phase = phase
      /\ Moved(r, state, phase, invoked).invoked <=> (r.invoked \/ invoked)
      /\ Moved(r, state, phase, invoked).key = r.key
      /\ Moved(r, state, phase, invoked).seq = r.seq
      /\ Moved(r, state, phase, invoked).match = r.match
  <2>1. r \in Row
    BY <1>1
  <2> HIDE DEF r
  <2> QED BY <2>1 DEF Moved, Row
<1> QED BY <1>3, <1>4

\* RecoverRow settles a row or leaves it; it keeps what the row says of the call.
LEMMA RecoverRowFacts ==
  ASSUME NEW r \in Row
  PROVE  /\ RecoverRow(r).invoked <=> r.invoked
         /\ RecoverRow(r).key = r.key
         /\ RecoverRow(r).seq = r.seq
         /\ RecoverRow(r).state \notin {"RECEIVED", "INVOKING"}
         /\ RecoverRow(r).state = "ABSENT" <=> r.state = "ABSENT"
         /\ r.state \in Terminal => RecoverRow(r) = r
         /\ RecoverRow(r).phase = "RECOVERED" =>
                \/ RecoverRow(r) = r
                \/ RecoverRow(r).state = "REJECTED" /\ ~r.invoked
<1>1. CASE r.state \notin {"RECEIVED", "INVOKING"}
  BY <1>1 DEF RecoverRow
<1>2. CASE r.state \in {"RECEIVED", "INVOKING"} /\ r.invoked
  BY <1>2 DEF RecoverRow, Moved, Row
<1>3. CASE r.state \in {"RECEIVED", "INVOKING"} /\ ~r.invoked
  BY <1>3 DEF RecoverRow, Moved, Row
<1> QED BY <1>1, <1>2, <1>3

LEMMA RecordInit == Init => RecordInv
  BY DEF Init, RecordInv, NoRow

LEMMA FinishRecord ==
  ASSUME TypeOK, RecordInv, cur \in Commands, pc \in DispatchSteps,
         NEW state \in {"ACCEPTED", "REJECTED", "UNKNOWN"}, Finish(state)
  PROVE  RecordInv'
<1> DEFINE phase == IF state = "UNKNOWN" THEN "RECONCILING" ELSE "RESOLVED"
<1>1. phase \in Phases \ {"RECOVERED"} /\ Transition(state, phase, FALSE)
  BY DEF Finish
<1> HIDE DEF phase
<1>2. /\ \A c \in Commands \ {cur} : journal'[c] = journal[c]
      /\ journal'[cur].state = state /\ journal'[cur].phase # "RECOVERED"
      /\ (journal'[cur].invoked <=> journal[cur].invoked)
  BY <1>1, TransitionRow
<1>3. pc' = "idle" /\ calls' = calls /\ compacted' = compacted
  BY DEF Finish
<1>4. \A c \in Commands \ compacted : calls[c] > 0 => Present(c)' /\ journal'[c].invoked
  BY <1>2 DEF RecordInv, Present
<1>5. \A c \in Commands : journal'[c].phase = "RECOVERED" =>
           journal'[c].state = "REJECTED" /\ ~journal'[c].invoked
  BY <1>2 DEF RecordInv
<1> QED BY <1>3, <1>4, <1>5 DEF RecordInv

LEMMA RecordStep == TypeOK /\ CurOK /\ RecordInv /\ [Next]_vars => RecordInv'
<1> SUFFICES ASSUME TypeOK, CurOK, RecordInv, [Next]_vars PROVE RecordInv'
  OBVIOUS
<1>1. CASE Start
  <2>1. \A c \in Commands : journal[c] \in Row /\ journal'[c] = RecoverRow(journal[c])
    BY <1>1 DEF Start, TypeOK
  <2>2. pc' = "idle" /\ calls' = calls /\ compacted' = compacted
    BY <1>1 DEF Start
  <2>3. \A c \in Commands \ compacted : calls[c] > 0 => Present(c)' /\ journal'[c].invoked
    BY <2>1, RecoverRowFacts DEF RecordInv, Present
  <2>4. \A c \in Commands : journal'[c].phase = "RECOVERED" =>
             journal'[c].state = "REJECTED" /\ ~journal'[c].invoked
    BY <2>1, RecoverRowFacts DEF RecordInv
  <2> QED BY <2>2, <2>3, <2>4 DEF RecordInv
<1>2. CASE Crash \/ Approve \/ SessionBoundary
  BY <1>2 DEF Crash, Approve, SessionBoundary, RecordInv, Present
<1>3. ASSUME NEW c \in Commands, NEW k \in Keys, NEW s \in 1..MaxSeq,
             ReceiveNew(c, k, s)
      PROVE  RecordInv'
  <2>1. ~Present(c)
    BY <1>3 DEF ReceiveNew, Prior
  <2>2. /\ journal'[c].state = "RECEIVED" /\ journal'[c].phase = "RECEIVED"
        /\ \A d \in Commands \ {c} : journal'[d] = journal[d]
    BY <1>3 DEF ReceiveNew, TypeOK
  <2>3. pc' = "received" /\ cur' = c /\ calls' = calls /\ compacted' = compacted
    BY <1>3 DEF ReceiveNew
  <2>4. \A d \in Commands \ compacted : calls[d] > 0 => Present(d)' /\ journal'[d].invoked
    BY <2>1, <2>2 DEF RecordInv, Present
  <2>5. \A d \in Commands : journal'[d].phase = "RECOVERED" =>
             journal'[d].state = "REJECTED" /\ ~journal'[d].invoked
    BY <2>2 DEF RecordInv
  <2> QED BY <2>2, <2>3, <2>4, <2>5 DEF RecordInv
<1>4. ASSUME NEW c \in Commands, ReceiveAgain(c) PROVE RecordInv'
  BY <1>4 DEF ReceiveAgain, RecordInv, Present
<1>5. CASE Refuse \/ CheckFails
  <2>1. cur \in Commands /\ pc \in DispatchSteps /\ Finish("REJECTED")
    BY <1>5 DEF Refuse, CheckFails, CurOK
  <2> QED BY <2>1, FinishRecord
<1>6. CASE BeginCheck \/ CheckPasses \/ CommitInvoking
  <2>1. cur \in Commands /\ pc \in DispatchSteps
    BY <1>6 DEF BeginCheck, CheckPasses, CommitInvoking, CurOK
  <2>2. journal[cur].state \in {"RECEIVED", "INVOKING"}
    BY <2>1 DEF RecordInv
  <2>3. PICK state \in {"RECEIVED", "INVOKING"}, phase \in Phases \ {"RECOVERED"},
             invoked \in BOOLEAN :
               /\ Transition(state, phase, invoked)
               /\ pc' = "invoking" => invoked
    BY <1>6, <2>2 DEF BeginCheck, CheckPasses, CommitInvoking
  <2>4. /\ \A c \in Commands \ {cur} : journal'[c] = journal[c]
        /\ journal'[cur].state = state /\ journal'[cur].phase = phase
        /\ journal'[cur].invoked <=> (journal[cur].invoked \/ invoked)
    BY <2>1, <2>3, TransitionRow
  <2>5. cur' = cur /\ calls' = calls /\ compacted' = compacted
    BY <1>6 DEF BeginCheck, CheckPasses, CommitInvoking
  <2>6. \A c \in Commands \ compacted : calls[c] > 0 => Present(c)' /\ journal'[c].invoked
    BY <2>3, <2>4 DEF RecordInv, Present
  <2>7. \A c \in Commands : journal'[c].phase = "RECOVERED" =>
             journal'[c].state = "REJECTED" /\ ~journal'[c].invoked
    BY <2>3, <2>4 DEF RecordInv
  <2>8. pc' = "invoking" => journal'[cur].invoked
    BY <2>3, <2>4
  <2> QED BY <2>3, <2>4, <2>5, <2>6, <2>7, <2>8 DEF RecordInv
<1>7. CASE CallBroker
  <2> PICK result \in {"ACCEPTED", "REJECTED", "UNKNOWN"}, took \in BOOLEAN :
           Invoke(result, took)
    BY <1>7 DEF CallBroker
  <2>1. cur \in Commands /\ journal[cur].state \in {"RECEIVED", "INVOKING"}
        /\ journal[cur].invoked
    BY DEF Invoke, CurOK, RecordInv
  <2>2. \A c \in Commands \ compacted : calls'[c] > 0 => Present(c) /\ journal[c].invoked
    BY <2>1 DEF Invoke, RecordInv, Present, TypeOK
  <2> QED BY <2>1, <2>2 DEF Invoke, RecordInv, Present
<1>8. CASE RecordOutcome
  <2>1. cur \in Commands /\ pc \in DispatchSteps /\ Finish(outcome)
        /\ outcome \in {"ACCEPTED", "REJECTED", "UNKNOWN"}
    BY <1>8 DEF RecordOutcome, CurOK
  <2> QED BY <2>1, FinishRecord
<1>9. CASE WriteFails
  <2>1. /\ pc' \in {"refusing", "idle"}
        /\ pc' = "refusing" => cur' = cur /\ pc = "received"
    BY <1>9 DEF WriteFails
  <2>2. UNCHANGED <<journal, calls, compacted>>
    BY <1>9 DEF WriteFails
  <2> QED BY <2>1, <2>2 DEF RecordInv, Present
<1>10. CASE ReconcileSome
  <2> PICK c \in Commands, evidence \in {"EXECUTED", "CANCELLED", "NO_EFFECT"} :
           Reconcile(c, evidence)
    BY <1>10 DEF ReconcileSome
  <2> DEFINE row == Resolved(journal[c], evidence)
  <2>1. journal[c] \in Row
    BY DEF TypeOK
  <2>2. journal' = [journal EXCEPT ![c] = row]
    BY DEF Reconcile
  <2>3. journal'[c] = row /\ \A d \in Commands \ {c} : journal'[d] = journal[d]
    BY <2>2 DEF TypeOK
  <2>4. row.state \in {"ACCEPTED", "REJECTED"} /\ row.phase = "RESOLVED"
        /\ (row.invoked <=> journal[c].invoked)
    BY <2>1, ResolvedType
  <2> HIDE DEF row
  <2>5. pc' = "idle" /\ calls' = calls /\ compacted' = compacted
    BY DEF Reconcile
  <2>6. \A d \in Commands \ compacted : calls[d] > 0 => Present(d)' /\ journal'[d].invoked
    BY <2>1, <2>3, <2>4 DEF RecordInv, Present
  <2>7. \A d \in Commands : journal'[d].phase = "RECOVERED" =>
             journal'[d].state = "REJECTED" /\ ~journal'[d].invoked
    BY <2>3, <2>4 DEF RecordInv
  <2> QED BY <2>5, <2>6, <2>7 DEF RecordInv
<1>11. ASSUME NEW old \in SUBSET Commands, Compact(old) PROVE RecordInv'
  <2>1. \A c \in Commands : journal'[c] = IF c \in old THEN NoRow ELSE journal[c]
    BY <1>11 DEF Compact
  <2>2. pc' = "idle" /\ calls' = calls /\ compacted' = compacted \cup old
    BY <1>11 DEF Compact
  <2> QED BY <2>1, <2>2 DEF RecordInv, Present, NoRow
<1>12. CASE UNCHANGED vars
  BY <1>12 DEF vars, RecordInv, Present
<1> QED
  BY <1>1, <1>2, <1>3, <1>4, <1>5, <1>6, <1>7, <1>8, <1>9, <1>10, <1>11, <1>12
  DEF Next, Receive, DispatchStep

LEMMA RecordHolds == Spec => [](TypeOK /\ CurOK /\ RecordInv)
<1>1. Init => TypeOK /\ CurOK /\ RecordInv
  BY TypeInit, RecordInit DEF Init, CurOK
<1> QED BY <1>1, TypeStep, RecordStep, PTL DEF Spec

\* Every broker call is on durable record, whatever write fails and wherever
\* the process dies.
THEOREM CallsAreOnRecord == Spec => []EveryCallOnRecord
<1>1. RecordInv => EveryCallOnRecord
  BY DEF RecordInv, EveryCallOnRecord
<1> QED BY <1>1, RecordHolds, PTL

\* NOT_INVOKED_AFTER_RESTART is never said of a command that reached the broker.
THEOREM NotInvokedVerdicts == Spec => []NotInvokedIsTrue
<1>1. TypeOK /\ RecordInv => NotInvokedIsTrue
  BY DEF TypeOK, RecordInv, NotInvokedIsTrue
<1> QED BY <1>1, RecordHolds, PTL

-----------------------------------------------------------------------------
(* Verdicts are final.                                                     *)

\* A settled row is changed by no step but compaction.
LEMMA SettledRow ==
  ASSUME TypeOK, CurOK, RecordInv, Next,
         NEW c \in Commands, journal[c].state \in Terminal
  PROVE  journal'[c] = journal[c] \/ c \in compacted'
<1>1. CASE Start
  <2>1. journal[c] \in Row /\ journal'[c] = RecoverRow(journal[c])
    BY <1>1 DEF Start, TypeOK
  <2> QED BY <2>1 DEF RecoverRow
<1>2. CASE Crash \/ Approve \/ SessionBoundary \/ WriteFails \/ CallBroker
  BY <1>2 DEF Crash, Approve, SessionBoundary, WriteFails, CallBroker, Invoke
<1>3. ASSUME NEW d \in Commands, NEW k \in Keys, NEW s \in 1..MaxSeq,
             ReceiveNew(d, k, s)
      PROVE  journal'[c] = journal[c]
  <2>1. d # c
    BY <1>3 DEF ReceiveNew, Prior, Present
  <2> QED BY <1>3, <2>1 DEF ReceiveNew, TypeOK
<1>4. ASSUME NEW d \in Commands, ReceiveAgain(d) PROVE journal'[c] = journal[c]
  BY <1>4 DEF ReceiveAgain
<1>5. CASE \/ Refuse \/ CheckFails \/ RecordOutcome
           \/ BeginCheck \/ CheckPasses \/ CommitInvoking
  <2>1. c # cur
    BY <1>5 DEF Refuse, CheckFails, RecordOutcome, BeginCheck, CheckPasses,
                CommitInvoking, RecordInv
  <2>2. \E row : journal' = [journal EXCEPT ![cur] = row]
    BY <1>5 DEF Refuse, CheckFails, RecordOutcome, BeginCheck, CheckPasses,
                CommitInvoking, Finish, Transition
  <2> QED BY <2>1, <2>2 DEF TypeOK
<1>6. ASSUME NEW d \in Commands, NEW evidence \in {"EXECUTED", "CANCELLED", "NO_EFFECT"},
             Reconcile(d, evidence)
      PROVE  journal'[c] = journal[c]
  <2>1. d # c
    BY <1>6 DEF Reconcile
  <2>2. \E row : journal' = [journal EXCEPT ![d] = row]
    BY <1>6 DEF Reconcile
  <2> QED BY <2>1, <2>2 DEF TypeOK
<1>7. ASSUME NEW old \in SUBSET Commands, Compact(old)
      PROVE  journal'[c] = journal[c] \/ c \in compacted'
  BY <1>7 DEF Compact
<1> QED
  BY <1>1, <1>2, <1>3, <1>4, <1>5, <1>6, <1>7
  DEF Next, Receive, DispatchStep, ReconcileSome

\* A verdict given is never revised, whatever is redelivered, fails or restarts.
THEOREM VerdictsAreFinal == Spec => VerdictStands
<1> DEFINE Stands == \A c \in Commands : journal[c].state \in Terminal =>
                         journal'[c].state = journal[c].state \/ c \in compacted'
<1>1. TypeOK /\ CurOK /\ RecordInv /\ [Next]_vars => [Stands]_vars
  <2>1. TypeOK /\ CurOK /\ RecordInv /\ Next => Stands
    BY SettledRow
  <2> QED BY <2>1
<1>2. VerdictStands <=> [][Stands]_vars
  BY DEF VerdictStands
<1> QED BY <1>1, <1>2, RecordHolds, PTL DEF Spec

-----------------------------------------------------------------------------
(* The invariant behind at-most-once, the fence and the truth of verdicts,  *)
(* for any sets of commands and keys and any number of crashes.  All of it  *)
(* holds until a journal write fails: a failed write leaves a row RECEIVED  *)
(* or INVOKING in a process that lives on, and a redelivery then dispatches *)
(* it again.                                                               *)

Busy == {"RECEIVED", "INVOKING"}

USE DEF Busy

\* One dispatch at a time: a row that is neither settled nor in doubt belongs to
\* the dispatch in progress, unless the process is down; that row is unmarked
\* until INVOKING is committed, and nothing is in doubt once the check began.
OneDispatch ==
    /\ pc # "refusing"
    /\ \A c \in Commands : journal[c].state \in Busy =>
           pc = "down" \/ (pc \in DispatchSteps /\ c = cur)
    /\ \A c \in Commands : ~Present(c) => ~journal[c].invoked
    /\ pc \in {"received", "checking", "checked"} => ~journal[cur].invoked
    /\ pc \in {"checking", "checked", "invoking", "returned"} => ~HasUnknown

\* Rows have different keys, and sequences that a live dispatcher knows of; the
\* dispatch in progress has the last one.
Ordered ==
    /\ \A c, d \in Commands : c # d /\ Present(c) /\ Present(d) =>
           journal[c].key # journal[d].key
    /\ \A c \in Commands : Present(c) => journal[c].seq >= 1
    /\ pc # "down" => \A c \in Commands : Present(c) => journal[c].seq <= lastSeq
    /\ pc \in DispatchSteps => \A c \in Commands \ {cur} : Present(c) =>
           journal[c].seq < journal[cur].seq

\* One call for each command, and none before the adapter is called.
OneCall ==
    /\ \A c \in Commands \ compacted : calls[c] <= 1
    /\ pc = "invoking" /\ cur \notin compacted => calls[cur] = 0

\* Verdicts and the outcome in hand are true of the broker.
Truthful ==
    /\ \A c \in Commands \ compacted : effect[c] => calls[c] > 0
    /\ \A c \in Commands \ compacted :
           /\ journal[c].state = "ACCEPTED" => effect[c]
           /\ journal[c].state = "REJECTED" /\ journal[c].match # "NO_EFFECT" =>
                  ~effect[c]
    /\ pc = "returned" /\ cur \notin compacted =>
           /\ outcome = "ACCEPTED" => effect[cur]
           /\ outcome = "REJECTED" => ~effect[cur]

Good == TypeOK /\ CurOK /\ RecordInv

-----------------------------------------------------------------------------
(* How the steps move rows.                                                *)

\* _finish gives the row of the dispatch in progress its verdict.
LEMMA FinishRow ==
  ASSUME TypeOK, cur \in Commands,
         NEW state \in {"ACCEPTED", "REJECTED", "UNKNOWN"}, Finish(state)
  PROVE  /\ \A c \in Commands \ {cur} : journal'[c] = journal[c]
         /\ journal'[cur].state = state
         /\ journal'[cur].invoked <=> journal[cur].invoked
         /\ journal'[cur].key = journal[cur].key
         /\ journal'[cur].seq = journal[cur].seq
<1> DEFINE phase == IF state = "UNKNOWN" THEN "RECONCILING" ELSE "RESOLVED"
<1>1. phase \in Phases /\ Transition(state, phase, FALSE)
  BY DEF Finish
<1> HIDE DEF phase
<1> QED BY <1>1, TransitionRow

\* The steps of a dispatch that do not finish it keep its row busy.
LEMMA BusyRow ==
  ASSUME Good, cur \in Commands, BeginCheck \/ CheckPasses \/ CommitInvoking
  PROVE  /\ \A c \in Commands \ {cur} : journal'[c] = journal[c]
         /\ journal'[cur].state \in Busy
         /\ ~CommitInvoking => (journal'[cur].invoked <=> journal[cur].invoked)
         /\ journal'[cur].key = journal[cur].key
         /\ journal'[cur].seq = journal[cur].seq
         /\ pc \in DispatchSteps /\ cur' = cur /\ lastSeq' = lastSeq
         /\ pc' = IF BeginCheck THEN "checking"
                  ELSE IF CheckPasses THEN "checked" ELSE "invoking"
<1>1. journal[cur].state \in Busy
  BY DEF Good, RecordInv, BeginCheck, CheckPasses, CommitInvoking
<1>2. CASE BeginCheck
  <2>1. Transition(journal[cur].state, "CHECKING", FALSE)
    BY <1>2 DEF BeginCheck
  <2>2. pc = "received" /\ pc' = "checking" /\ cur' = cur /\ lastSeq' = lastSeq
    BY <1>2 DEF BeginCheck
  <2> QED BY <1>1, <1>2, <2>1, <2>2, TransitionRow DEF Good
<1>3. CASE CheckPasses
  <2>1. Transition(journal[cur].state, "CHECKED", FALSE) /\ ~BeginCheck
    BY <1>3 DEF CheckPasses, BeginCheck
  <2>2. pc = "checking" /\ pc' = "checked" /\ cur' = cur /\ lastSeq' = lastSeq
    BY <1>3 DEF CheckPasses
  <2> QED BY <1>1, <1>3, <2>1, <2>2, TransitionRow DEF Good
<1>4. CASE CommitInvoking
  <2>1. Transition("INVOKING", "DISPATCHING", TRUE) /\ ~BeginCheck /\ ~CheckPasses
    BY <1>4 DEF CheckPasses, BeginCheck, CommitInvoking
  <2>2. pc = "checked" /\ pc' = "invoking" /\ cur' = cur /\ lastSeq' = lastSeq
    BY <1>4 DEF CommitInvoking
  <2> QED BY <1>4, <2>1, <2>2, TransitionRow DEF Good
<1> QED BY <1>2, <1>3, <1>4

\* Reconciliation settles one row in doubt, with the verdict of the evidence.
LEMMA ReconcileRow ==
  ASSUME TypeOK, NEW c \in Commands,
         NEW evidence \in {"EXECUTED", "CANCELLED", "NO_EFFECT"},
         Reconcile(c, evidence)
  PROVE  /\ \A d \in Commands \ {c} : journal'[d] = journal[d]
         /\ journal'[c].state = IF evidence = "EXECUTED" THEN "ACCEPTED" ELSE "REJECTED"
         /\ journal'[c].invoked <=> journal[c].invoked
         /\ journal'[c].key = journal[c].key
         /\ journal'[c].seq = journal[c].seq
         /\ journal'[c].match = IF evidence = "NO_EFFECT" THEN "NO_EFFECT" ELSE "UNIQUE_MATCH"
<1> DEFINE row == Resolved(journal[c], evidence)
<1>1. journal[c] \in Row
  BY DEF TypeOK
<1>2. journal' = [journal EXCEPT ![c] = row]
  BY DEF Reconcile
<1>3. journal'[c] = row /\ \A d \in Commands \ {c} : journal'[d] = journal[d]
  BY <1>2 DEF TypeOK
<1> QED BY <1>1, <1>3, ResolvedType

-----------------------------------------------------------------------------
(* One dispatch at a time.                                                 *)

LEMMA OneDispatchStep ==
  ASSUME faults' = 0, Good, OneDispatch, [Next]_vars PROVE OneDispatch'
<1> USE DEF Good
<1>1. CASE Start
  <2>1. \A c \in Commands : journal[c] \in Row /\ journal'[c] = RecoverRow(journal[c])
    BY <1>1 DEF Start, TypeOK
  <2>2. pc' = "idle"
    BY <1>1 DEF Start
  <2>3. \A c \in Commands : journal'[c].state \notin Busy
    BY <2>1, RecoverRowFacts
  <2>4. \A c \in Commands : ~Present(c)' => ~journal'[c].invoked
    BY <2>1, RecoverRowFacts DEF OneDispatch, Present
  <2> QED BY <2>2, <2>3, <2>4 DEF OneDispatch
<1>2. CASE Crash
  BY <1>2 DEF Crash, OneDispatch, Present
<1>3. CASE Approve \/ SessionBoundary
  BY <1>3 DEF Approve, SessionBoundary, OneDispatch, Present, HasUnknown
<1>4. ASSUME NEW c \in Commands, NEW k \in Keys, NEW s \in 1..MaxSeq,
             ReceiveNew(c, k, s)
      PROVE  OneDispatch'
  <2>1. /\ journal'[c].state = "RECEIVED" /\ ~journal'[c].invoked
        /\ \A d \in Commands \ {c} : journal'[d] = journal[d]
    BY <1>4 DEF ReceiveNew, TypeOK
  <2>2. pc = "idle" /\ pc' = "received" /\ cur' = c
    BY <1>4 DEF ReceiveNew
  <2> QED BY <2>1, <2>2 DEF OneDispatch, Present
<1>5. ASSUME NEW c \in Commands, ReceiveAgain(c) PROVE FALSE
  BY <1>5 DEF ReceiveAgain, OneDispatch
<1>6. CASE Refuse \/ CheckFails \/ RecordOutcome
  <2>1. PICK state \in {"ACCEPTED", "REJECTED", "UNKNOWN"} : Finish(state)
    BY <1>6 DEF Refuse, CheckFails, RecordOutcome, CurOK
  <2>2. pc \in DispatchSteps /\ cur \in Commands
    BY <1>6 DEF Refuse, CheckFails, RecordOutcome, CurOK
  <2>3. /\ \A c \in Commands \ {cur} : journal'[c] = journal[c]
        /\ journal'[cur].state = state
    BY <2>1, <2>2, FinishRow
  <2>4. pc' = "idle"
    BY <2>1 DEF Finish
  <2> QED BY <2>2, <2>3, <2>4 DEF OneDispatch, Present
<1>7. CASE BeginCheck \/ CheckPasses \/ CommitInvoking
  <2>1. cur \in Commands
    BY <1>7 DEF BeginCheck, CheckPasses, CommitInvoking, CurOK
  <2>2. /\ \A c \in Commands \ {cur} : journal'[c] = journal[c]
        /\ journal'[cur].state \in Busy
        /\ ~CommitInvoking => (journal'[cur].invoked <=> journal[cur].invoked)
        /\ pc \in DispatchSteps /\ cur' = cur
        /\ pc' = IF BeginCheck THEN "checking"
                 ELSE IF CheckPasses THEN "checked" ELSE "invoking"
    BY <1>7, <2>1, BusyRow
  <2>3. ~HasUnknown /\ pc \in {"received", "checking", "checked"}
    BY <1>7 DEF OneDispatch, BeginCheck, CheckPasses, CommitInvoking
  <2>4. ~HasUnknown'
    BY <2>2, <2>3 DEF HasUnknown
  <2>5. pc' \in {"received", "checking", "checked"} => ~journal'[cur'].invoked
    <3>1. ~journal[cur].invoked
      BY <2>3 DEF OneDispatch
    <3>2. CommitInvoking => pc' = "invoking"
      BY DEF CommitInvoking
    <3> QED BY <3>1, <3>2, <2>2
  <2>6. \A c \in Commands : journal'[c].state \in Busy => c = cur'
    BY <2>2, <2>1 DEF OneDispatch
  <2>7. \A c \in Commands : ~Present(c)' => ~journal'[c].invoked
    BY <2>2 DEF OneDispatch, Present
  <2>8. pc' \in DispatchSteps \ {"refusing"}
    BY <2>2
  <2> QED BY <2>4, <2>5, <2>6, <2>7, <2>8 DEF OneDispatch
<1>8. CASE CallBroker
  BY <1>8 DEF CallBroker, Invoke, OneDispatch, Present, HasUnknown
<1>9. CASE WriteFails
  BY <1>9 DEF WriteFails, TypeOK
<1>10. ASSUME NEW c \in Commands, NEW evidence \in {"EXECUTED", "CANCELLED", "NO_EFFECT"},
              Reconcile(c, evidence)
       PROVE  OneDispatch'
  <2>1. /\ \A d \in Commands \ {c} : journal'[d] = journal[d]
        /\ journal'[c].state \in {"ACCEPTED", "REJECTED"}
    BY <1>10, ReconcileRow
  <2>2. pc = "idle" /\ pc' = "idle"
    BY <1>10 DEF Reconcile
  <2> QED BY <2>1, <2>2 DEF OneDispatch, Present
<1>11. ASSUME NEW old \in SUBSET Commands, Compact(old) PROVE OneDispatch'
  <2>1. \A c \in Commands : journal'[c] = IF c \in old THEN NoRow ELSE journal[c]
    BY <1>11 DEF Compact
  <2>2. pc = "idle" /\ pc' = "idle"
    BY <1>11 DEF Compact
  <2>3. NoRow.state = "ABSENT" /\ ~NoRow.invoked
    BY DEF NoRow
  <2> QED BY <2>1, <2>2, <2>3 DEF OneDispatch, Present
<1>12. CASE UNCHANGED vars
  BY <1>12 DEF vars, OneDispatch, Present, HasUnknown
<1> QED
  BY <1>1, <1>2, <1>3, <1>4, <1>5, <1>6, <1>7, <1>8, <1>9, <1>10, <1>11, <1>12
  DEF Next, Receive, DispatchStep, ReconcileSome

-----------------------------------------------------------------------------
(* Keys and sequences.                                                     *)

\* Every row of the next state is a row of this state with the same key and
\* sequence, or the one a new command was received with.
LEMMA RowsKept ==
  ASSUME Good, Next
  PROVE  \A c \in Commands : Present(c)' =>
            \/ /\ Present(c) /\ journal'[c].key = journal[c].key
               /\ journal'[c].seq = journal[c].seq
            \/ \E k \in Keys, s \in 1..MaxSeq : ReceiveNew(c, k, s)
<1> USE DEF Good
<1> DEFINE Kept(c) == Present(c)' => /\ Present(c) /\ journal'[c].key = journal[c].key
                                     /\ journal'[c].seq = journal[c].seq
<1>1. CASE Start
  <2>1. \A c \in Commands : journal[c] \in Row /\ journal'[c] = RecoverRow(journal[c])
    BY <1>1 DEF Start, TypeOK
  <2> QED BY <2>1, RecoverRowFacts DEF Present
<1>2. CASE Crash \/ Approve \/ SessionBoundary \/ WriteFails \/ CallBroker
  BY <1>2 DEF Crash, Approve, SessionBoundary, WriteFails, CallBroker, Invoke, Present
<1>3. ASSUME NEW d \in Commands, NEW k \in Keys, NEW s \in 1..MaxSeq,
             ReceiveNew(d, k, s)
      PROVE  \A c \in Commands \ {d} : Kept(c)
  <2>1. \A c \in Commands \ {d} : journal'[c] = journal[c]
    BY <1>3 DEF ReceiveNew, TypeOK
  <2> QED BY <2>1 DEF Present
<1>4. ASSUME NEW d \in Commands, ReceiveAgain(d) PROVE \A c \in Commands : Kept(c)
  BY <1>4 DEF ReceiveAgain, Present
<1>5. CASE Refuse \/ CheckFails \/ RecordOutcome
  <2>1. PICK state \in {"ACCEPTED", "REJECTED", "UNKNOWN"} : Finish(state)
    BY <1>5 DEF Refuse, CheckFails, RecordOutcome, CurOK
  <2>2. pc \in DispatchSteps /\ cur \in Commands
    BY <1>5 DEF Refuse, CheckFails, RecordOutcome, CurOK
  <2>3. journal[cur].state \in Busy
    BY <2>2 DEF RecordInv
  <2> QED BY <2>1, <2>2, <2>3, FinishRow DEF Present
<1>6. CASE BeginCheck \/ CheckPasses \/ CommitInvoking
  <2>1. cur \in Commands /\ pc \in DispatchSteps
    BY <1>6 DEF BeginCheck, CheckPasses, CommitInvoking, CurOK
  <2>2. journal[cur].state \in Busy
    BY <2>1 DEF RecordInv
  <2>3. /\ \A c \in Commands \ {cur} : journal'[c] = journal[c]
        /\ journal'[cur].key = journal[cur].key
        /\ journal'[cur].seq = journal[cur].seq
    BY <1>6, <2>1, BusyRow
  <2> QED BY <2>2, <2>3 DEF Present
<1>7. ASSUME NEW d \in Commands, NEW evidence \in {"EXECUTED", "CANCELLED", "NO_EFFECT"},
             Reconcile(d, evidence)
      PROVE  \A c \in Commands : Kept(c)
  <2>1. journal[d].state = "UNKNOWN"
    BY <1>7 DEF Reconcile
  <2>2. /\ \A c \in Commands \ {d} : journal'[c] = journal[c]
        /\ journal'[d].key = journal[d].key
        /\ journal'[d].seq = journal[d].seq
    BY <1>7, ReconcileRow
  <2> QED BY <2>1, <2>2 DEF Present
<1>8. ASSUME NEW old \in SUBSET Commands, Compact(old) PROVE \A c \in Commands : Kept(c)
  <2>1. \A c \in Commands : journal'[c] = IF c \in old THEN NoRow ELSE journal[c]
    BY <1>8 DEF Compact
  <2>2. NoRow.state = "ABSENT"
    BY DEF NoRow
  <2> QED BY <2>1, <2>2 DEF Present
<1> QED
  BY <1>1, <1>2, <1>3, <1>4, <1>5, <1>6, <1>7, <1>8
  DEF Next, Receive, DispatchStep, ReconcileSome

LEMMA ReceivedRow ==
  ASSUME TypeOK, NEW c \in Commands, NEW k \in Keys, NEW s \in 1..MaxSeq,
         ReceiveNew(c, k, s)
  PROVE  /\ journal'[c].key = k /\ journal'[c].seq = s
         /\ \A d \in Commands \ {c} : journal'[d] = journal[d]
         /\ ~Present(c) /\ \A d \in Commands : Present(d) => journal[d].key # k
         /\ pc = "idle" /\ pc' = "received" /\ cur' = c
         /\ lastSeq' = IF s > lastSeq THEN s ELSE lastSeq
         /\ lastSeq = 0 \/ s = lastSeq + 1
  BY DEF ReceiveNew, TypeOK, Prior, InOrder

LEMMA KeysDiffer ==
  ASSUME Good, Ordered, Next
  PROVE  \A c, d \in Commands : c # d /\ Present(c)' /\ Present(d)' =>
             journal'[c].key # journal'[d].key
<1> SUFFICES ASSUME NEW c \in Commands, NEW d \in Commands, c # d,
                    Present(c)', Present(d)'
             PROVE  journal'[c].key # journal'[d].key
  OBVIOUS
<1>1. ASSUME NEW k \in Keys, NEW s \in 1..MaxSeq, ReceiveNew(c, k, s)
      PROVE  journal'[c].key # journal'[d].key
  BY <1>1, ReceivedRow DEF Good, Present
<1>2. ASSUME NEW k \in Keys, NEW s \in 1..MaxSeq, ReceiveNew(d, k, s)
      PROVE  journal'[c].key # journal'[d].key
  BY <1>2, ReceivedRow DEF Good, Present
<1>3. CASE /\ Present(c) /\ journal'[c].key = journal[c].key
           /\ Present(d) /\ journal'[d].key = journal[d].key
  BY <1>3 DEF Ordered
<1> QED BY <1>1, <1>2, <1>3, RowsKept

LEMMA SeqPositive ==
  ASSUME Good, Ordered, Next
  PROVE  \A c \in Commands : Present(c)' => journal'[c].seq >= 1
<1> SUFFICES ASSUME NEW c \in Commands, Present(c)' PROVE journal'[c].seq >= 1
  OBVIOUS
<1>1. ASSUME NEW k \in Keys, NEW s \in 1..MaxSeq, ReceiveNew(c, k, s)
      PROVE  journal'[c].seq >= 1
  BY <1>1, ReceivedRow DEF Good
<1>2. CASE Present(c) /\ journal'[c].seq = journal[c].seq
  BY <1>2 DEF Ordered
<1> QED BY <1>1, <1>2, RowsKept

\* Receiving a new command gives it the last sequence.
LEMMA ReceivedLast ==
  ASSUME Good, Ordered, NEW c \in Commands, NEW k \in Keys, NEW s \in 1..MaxSeq,
         ReceiveNew(c, k, s)
  PROVE  /\ \A d \in Commands : Present(d)' => journal'[d].seq <= lastSeq'
         /\ \A d \in Commands \ {cur'} : Present(d)' => journal'[d].seq < journal'[cur'].seq
<1>1. /\ journal'[c].seq = s /\ cur' = c
      /\ \A d \in Commands \ {c} : journal'[d] = journal[d]
      /\ lastSeq' = IF s > lastSeq THEN s ELSE lastSeq
      /\ lastSeq = 0 \/ s = lastSeq + 1
      /\ pc = "idle"
  BY ReceivedRow DEF Good
<1>2. lastSeq \in Nat /\ s \in Nat /\ s >= 1 /\ \A d \in Commands : journal[d].seq \in Nat
  BY ConstantsAssumption DEF Good, TypeOK, Row
<1>3. \A d \in Commands : Present(d) => 1 <= journal[d].seq /\ journal[d].seq <= lastSeq
  BY <1>1 DEF Ordered
<1>4. s > lastSeq
  BY <1>1, <1>2
<1>5. lastSeq' = s
  BY <1>1, <1>4
<1>6. ASSUME NEW d \in Commands \ {c}, Present(d)' PROVE journal'[d].seq < s
  <2>1. Present(d) /\ journal'[d] = journal[d]
    BY <1>1, <1>6 DEF Present
  <2> QED BY <2>1, <1>2, <1>3, <1>4
<1> QED BY <1>1, <1>2, <1>5, <1>6

LEMMA OrderedStep ==
  ASSUME faults' = 0, Good, OneDispatch, Ordered, [Next]_vars PROVE Ordered'
<1>1. CASE UNCHANGED vars
  BY <1>1 DEF vars, Ordered, Present
<1>2. CASE Next
  <2> DEFINE Known == pc' # "down" => \A c \in Commands : Present(c)' => journal'[c].seq <= lastSeq'
             Last == pc' \in DispatchSteps => \A c \in Commands \ {cur'} : Present(c)' =>
                         journal'[c].seq < journal'[cur'].seq
  <2>1. ASSUME NEW d \in Commands, NEW k \in Keys, NEW s \in 1..MaxSeq, ReceiveNew(d, k, s)
        PROVE  Known /\ Last
    BY <2>1, ReceivedLast
  <2>2. ASSUME Start PROVE Known /\ Last
    <3>1. LastDispatchSequence(lastSeq', journal') /\ pc' = "idle"
      BY <2>2 DEF Start
    <3> QED BY <3>1 DEF LastDispatchSequence, Present
  <2>3. ASSUME Crash PROVE Known /\ Last
    BY <2>3 DEF Crash
  <2>4. ASSUME \A d \in Commands, k \in Keys, s \in 1..MaxSeq : ~ReceiveNew(d, k, s),
               ~Start, ~Crash
        PROVE  Known /\ Last
    <3>1. \A c \in Commands : Present(c)' => /\ Present(c)
                                             /\ journal'[c].seq = journal[c].seq
      BY <1>2, <2>4, RowsKept
    <3>2. lastSeq' = lastSeq /\ pc # "down"
      BY <1>2, <2>4 DEF Next, Receive, DispatchStep, ReconcileSome, Approve,
           SessionBoundary, ReceiveAgain, Refuse, BeginCheck, CheckFails, CheckPasses,
           CommitInvoking, CallBroker, Invoke, RecordOutcome, WriteFails, Reconcile,
           Compact, Finish
    <3>3. pc' \in DispatchSteps => pc \in DispatchSteps /\ cur' = cur
      BY <1>2, <2>4 DEF Next, Receive, DispatchStep, ReconcileSome, Approve,
           SessionBoundary, ReceiveAgain, Refuse, BeginCheck, CheckFails, CheckPasses,
           CommitInvoking, CallBroker, Invoke, RecordOutcome, WriteFails, Reconcile,
           Compact, Finish, OneDispatch
    <3>4. pc' \in DispatchSteps => journal'[cur].seq = journal[cur].seq
      <4> SUFFICES ASSUME pc' \in DispatchSteps
                   PROVE  journal'[cur].state # "ABSENT" /\ cur \in Commands
        BY <3>1 DEF Present
      <4>1. pc \in DispatchSteps /\ cur' = cur /\ cur \in Commands
        BY <3>3 DEF Good, CurOK
      <4>2. RecordInv'
        BY <1>2, RecordStep DEF Good
      <4> QED BY <4>1, <4>2 DEF RecordInv
    <3> QED BY <3>1, <3>2, <3>3, <3>4 DEF Ordered
  <2>5. Known /\ Last
    BY <2>1, <2>2, <2>3, <2>4
  <2> QED BY <1>2, <2>5, KeysDiffer, SeqPositive DEF Ordered
<1> QED BY <1>1, <1>2

-----------------------------------------------------------------------------
(* Calls.                                                                  *)

\* A command whose row is not marked has not been called.
LEMMA UnmarkedUncalled ==
  ASSUME Good, NEW c \in Commands \ compacted, ~journal[c].invoked
  PROVE  calls[c] = 0
<1>1. calls[c] \in Nat /\ ~(calls[c] > 0)
  BY DEF Good, TypeOK, RecordInv
<1> QED BY <1>1

\* Calls are made by the dispatch in progress only, at its adapter call.
LEMMA CallsFrame ==
  ASSUME [Next]_vars
  PROVE  /\ CallBroker \/ (calls' = calls /\ effect' = effect)
         /\ compacted \subseteq compacted'
         /\ pc' = "invoking" => UNCHANGED vars \/ CommitInvoking
         /\ pc' = "returned" => UNCHANGED vars \/ CallBroker
<1>1. CASE UNCHANGED vars
  BY <1>1 DEF vars
<1>2. CASE Start \/ Crash \/ Approve \/ SessionBoundary \/ Receive \/ WriteFails
           \/ ReconcileSome \/ \E old \in SUBSET Commands : Compact(old)
  BY <1>2 DEF Start, Crash, Approve, SessionBoundary, Receive, ReceiveNew, ReceiveAgain,
              WriteFails, ReconcileSome, Reconcile, Compact
<1>3. CASE DispatchStep
  BY <1>3 DEF DispatchStep, Refuse, BeginCheck, CheckFails, CheckPasses, CommitInvoking,
              CallBroker, Invoke, RecordOutcome, Finish
<1> QED BY <1>1, <1>2, <1>3 DEF Next

LEMMA OneCallStep ==
  ASSUME Good, OneDispatch, OneCall, [Next]_vars PROVE OneCall'
<1>1. \A c \in Commands \ compacted' : calls'[c] <= 1
  <2>1. CASE CallBroker
    <3> PICK result \in {"ACCEPTED", "REJECTED", "UNKNOWN"}, took \in BOOLEAN :
             Invoke(result, took)
      BY <2>1 DEF CallBroker
    <3>1. /\ calls' = [calls EXCEPT ![cur] = calls[cur] + 1]
          /\ compacted' = compacted /\ cur \in Commands /\ pc = "invoking"
      BY DEF Invoke, Good, CurOK
    <3>2. cur \notin compacted => calls[cur] = 0
      BY <3>1 DEF OneCall
    <3> QED BY <3>1, <3>2 DEF OneCall, Good, TypeOK
  <2>2. CASE calls' = calls
    BY <2>2, CallsFrame DEF OneCall
  <2> QED BY <2>1, <2>2, CallsFrame
<1>2. ASSUME pc' = "invoking", cur' \notin compacted' PROVE calls'[cur'] = 0
  <2>1. CASE UNCHANGED vars
    BY <1>2, <2>1 DEF vars, OneCall
  <2>2. CASE CommitInvoking
    <3>1. /\ pc = "checked" /\ cur' = cur /\ calls' = calls /\ compacted' = compacted
          /\ cur \in Commands
      BY <2>2 DEF CommitInvoking, Good, CurOK
    <3>2. ~journal[cur].invoked
      BY <3>1 DEF OneDispatch
    <3> QED BY <1>2, <3>1, <3>2, UnmarkedUncalled
  <2> QED BY <1>2, <2>1, <2>2, CallsFrame
<1> QED BY <1>1, <1>2 DEF OneCall

-----------------------------------------------------------------------------
(* Verdicts.                                                               *)

\* Before the adapter is called nothing has taken effect.
LEMMA UncalledUntrue ==
  ASSUME Good, Truthful, NEW c \in Commands \ compacted, calls[c] = 0
  PROVE  ~effect[c]
  BY DEF Truthful

LEMMA RecoverVerdict ==
  ASSUME NEW r \in Row
  PROVE  \/ RecoverRow(r) = r
         \/ RecoverRow(r).state = "UNKNOWN"
         \/ RecoverRow(r).state = "REJECTED" /\ ~r.invoked
<1>1. CASE r.state \notin Busy
  BY <1>1 DEF RecoverRow
<1>2. CASE r.state \in Busy /\ r.invoked
  BY <1>2 DEF RecoverRow, Moved, Row
<1>3. CASE r.state \in Busy /\ ~r.invoked
  BY <1>3 DEF RecoverRow, Moved, Row
<1> QED BY <1>1, <1>2, <1>3

\* The verdict a row has is true, unless it was given for want of a broker row.
True(c) == /\ journal[c].state = "ACCEPTED" => effect[c]
           /\ journal[c].state = "REJECTED" /\ journal[c].match # "NO_EFFECT" =>
                  ~effect[c]

LEMMA VerdictsTrue ==
  ASSUME Good, OneDispatch, Truthful, Next PROVE \A c \in Commands \ compacted' : True(c)'
<1> SUFFICES ASSUME NEW c \in Commands \ compacted' PROVE True(c)'
  OBVIOUS
<1>0. c \in Commands \ compacted
  BY CallsFrame
<1>1. True(c)
  BY <1>0 DEF Truthful, True
<1>2. CASE Start
  <2>1. journal[c] \in Row /\ journal'[c] = RecoverRow(journal[c]) /\ effect' = effect
    BY <1>2 DEF Start, Good, TypeOK
  <2>2. ~journal[c].invoked => ~effect[c]
    BY <1>0, UnmarkedUncalled, UncalledUntrue
  <2> QED BY <1>1, <2>1, <2>2, RecoverVerdict DEF True
<1>3. CASE Crash \/ Approve \/ SessionBoundary \/ WriteFails
  BY <1>1, <1>3 DEF Crash, Approve, SessionBoundary, WriteFails, True
<1>4. ASSUME NEW d \in Commands, NEW k \in Keys, NEW s \in 1..MaxSeq, ReceiveNew(d, k, s)
      PROVE  True(c)'
  <2>1. /\ journal'[d].state = "RECEIVED" /\ effect' = effect
        /\ \A b \in Commands \ {d} : journal'[b] = journal[b]
    BY <1>4 DEF ReceiveNew, Good, TypeOK
  <2> QED BY <1>1, <2>1 DEF True
<1>5. ASSUME NEW d \in Commands, ReceiveAgain(d) PROVE True(c)'
  BY <1>1, <1>5 DEF ReceiveAgain, True
<1>6. CASE Refuse \/ CheckFails
  <2>1. /\ cur \in Commands /\ Finish("REJECTED") /\ effect' = effect
        /\ pc \in {"received", "checking"}
    BY <1>6 DEF Refuse, CheckFails, Finish, Good, CurOK, OneDispatch
  <2>2. ~journal[cur].invoked
    BY <2>1 DEF OneDispatch
  <2>3. cur = c => ~effect[c]
    BY <1>0, <2>2, UnmarkedUncalled, UncalledUntrue
  <2>4. /\ \A b \in Commands \ {cur} : journal'[b] = journal[b]
        /\ journal'[cur].state = "REJECTED"
    BY <2>1, FinishRow DEF Good
  <2> QED BY <1>0, <1>1, <2>1, <2>3, <2>4 DEF True
<1>7. CASE BeginCheck \/ CheckPasses \/ CommitInvoking
  <2>1. cur \in Commands /\ effect' = effect
    BY <1>7 DEF BeginCheck, CheckPasses, CommitInvoking, Good, CurOK
  <2>2. /\ \A b \in Commands \ {cur} : journal'[b] = journal[b]
        /\ journal'[cur].state \in Busy
    BY <1>7, <2>1, BusyRow
  <2> QED BY <1>0, <1>1, <2>1, <2>2 DEF True
<1>8. CASE CallBroker
  <2> PICK result \in {"ACCEPTED", "REJECTED", "UNKNOWN"}, took \in BOOLEAN :
           Invoke(result, took)
    BY <1>8 DEF CallBroker
  <2>1. /\ cur \in Commands /\ journal' = journal
        /\ journal[cur].state \in Busy
        /\ \A b \in Commands \ {cur} : effect'[b] = effect[b]
    BY DEF Invoke, Good, CurOK, RecordInv, TypeOK
  <2> QED BY <1>0, <1>1, <2>1 DEF True
<1>9. CASE RecordOutcome
  <2>1. /\ cur \in Commands /\ Finish(outcome) /\ effect' = effect /\ pc = "returned"
        /\ outcome \in {"ACCEPTED", "REJECTED", "UNKNOWN"}
    BY <1>9 DEF RecordOutcome, Finish, Good, CurOK
  <2>2. /\ \A b \in Commands \ {cur} : journal'[b] = journal[b]
        /\ journal'[cur].state = outcome
    BY <2>1, FinishRow DEF Good
  <2>3. cur = c => /\ outcome = "ACCEPTED" => effect[c]
                   /\ outcome = "REJECTED" => ~effect[c]
    BY <1>0, <2>1 DEF Truthful
  <2> QED BY <1>0, <1>1, <2>1, <2>2, <2>3 DEF True
<1>10. ASSUME NEW d \in Commands, NEW evidence \in {"EXECUTED", "CANCELLED", "NO_EFFECT"},
              Reconcile(d, evidence)
       PROVE  True(c)'
  <2>1. /\ \A b \in Commands \ {d} : journal'[b] = journal[b]
        /\ journal'[d].state = IF evidence = "EXECUTED" THEN "ACCEPTED" ELSE "REJECTED"
    BY <1>10, ReconcileRow DEF Good
  <2>2. effect' = effect /\ evidence \in Evidence(d) \ {"MULTIPLE"}
    BY <1>10 DEF Reconcile
  <2>3. /\ evidence = "EXECUTED" => effect[d]
        /\ evidence = "CANCELLED" => ~effect[d]
    BY <2>2 DEF Evidence
  <2>4. journal'[d].match = IF evidence = "NO_EFFECT" THEN "NO_EFFECT" ELSE "UNIQUE_MATCH"
    BY <1>10, ReconcileRow DEF Good
  <2> QED BY <1>1, <2>1, <2>2, <2>3, <2>4 DEF True
<1>11. ASSUME NEW old \in SUBSET Commands, Compact(old) PROVE True(c)'
  <2>1. c \notin old /\ effect' = effect
    BY <1>11 DEF Compact
  <2>2. journal'[c] = journal[c]
    BY <1>11, <2>1 DEF Compact
  <2> QED BY <1>1, <2>1, <2>2 DEF True
<1> QED
  BY <1>2, <1>3, <1>4, <1>5, <1>6, <1>7, <1>8, <1>9, <1>10, <1>11
  DEF Next, Receive, DispatchStep, ReconcileSome

\* The adapter's answer in hand is true.
LEMMA OutcomeTrue ==
  ASSUME Good, OneCall, Truthful, CallBroker, cur' \notin compacted'
  PROVE  /\ outcome' = "ACCEPTED" => effect'[cur']
         /\ outcome' = "REJECTED" => ~effect'[cur']
<1> PICK result \in {"ACCEPTED", "REJECTED", "UNKNOWN"}, took \in BOOLEAN :
         Invoke(result, took)
  BY DEF CallBroker
<1>1. /\ cur \in Commands /\ cur' = cur /\ compacted' = compacted /\ pc = "invoking"
      /\ outcome' = result
      /\ (result = "ACCEPTED" => took) /\ (result = "REJECTED" => ~took)
      /\ effect'[cur] <=> (effect[cur] \/ took)
  BY DEF Invoke, Good, CurOK, TypeOK
<1>2. ~effect[cur]
  BY <1>1, UncalledUntrue DEF OneCall
<1> QED BY <1>1, <1>2

LEMMA TruthfulStep ==
  ASSUME Good, OneDispatch, OneCall, Truthful, [Next]_vars
  PROVE  Truthful'
<1>1. CASE UNCHANGED vars
  BY <1>1 DEF vars, Truthful
<1>2. CASE Next
  <2>1. \A c \in Commands \ compacted' : effect'[c] => calls'[c] > 0
    <3>1. CASE CallBroker
      BY <3>1 DEF CallBroker, Invoke, Truthful, Good, TypeOK
    <3>2. CASE calls' = calls /\ effect' = effect
      BY <3>2, CallsFrame DEF Truthful
    <3> QED BY <3>1, <3>2, CallsFrame
  <2>2. ASSUME pc' = "returned", cur' \notin compacted'
        PROVE  /\ outcome' = "ACCEPTED" => effect'[cur']
               /\ outcome' = "REJECTED" => ~effect'[cur']
    <3>1. CASE UNCHANGED vars
      BY <2>2, <3>1 DEF vars, Truthful
    <3> QED BY <2>2, <3>1, CallsFrame, OutcomeTrue
  <2> QED BY <1>2, <2>1, <2>2, VerdictsTrue DEF Truthful, True
<1> QED BY <1>1, <1>2

-----------------------------------------------------------------------------
(* The theorems.                                                           *)

SafetyInv == Good /\ OneDispatch /\ Ordered /\ OneCall

LEMMA SafetyInit == Init => SafetyInv
<1> SUFFICES ASSUME Init PROVE SafetyInv
  OBVIOUS
<1>1. Good
  BY TypeInit, RecordInit DEF Init, CurOK, Good
<1>2. \A c \in Commands : journal[c] = NoRow /\ ~Present(c)
  BY DEF Init, Present, NoRow
<1> QED BY <1>1, <1>2 DEF SafetyInv, OneDispatch, Ordered, OneCall, Init, NoRow

LEMMA GoodStep == Good /\ [Next]_vars => Good'
  BY TypeStep, RecordStep DEF Good

\* A step after which no write has failed is one in which none fails.
LEMMA NoFaultYet ==
  ASSUME TypeOK, [Next]_vars, faults' = 0 PROVE faults = 0
<1>1. CASE WriteFails
  BY <1>1 DEF WriteFails, TypeOK
<1>2. CASE faults' = faults
  BY <1>2
<1> QED
  BY <1>1, <1>2 DEF vars, Next, Receive, DispatchStep, ReconcileSome, Start, Crash,
     Approve, SessionBoundary, ReceiveNew, ReceiveAgain, Refuse, BeginCheck, CheckFails,
     CheckPasses, CommitInvoking, CallBroker, Invoke, RecordOutcome, Finish, Reconcile,
     Compact

\* What holds of every reachable state until a journal write fails.
JournalInv == Good /\ (faults = 0 => SafetyInv /\ Truthful)

LEMMA JournalHolds == Spec => []JournalInv
<1>1. Init => JournalInv
  BY SafetyInit DEF SafetyInv, JournalInv, Init, Truthful, NoRow
<1>2. JournalInv /\ [Next]_vars => JournalInv'
  <2> SUFFICES ASSUME JournalInv, [Next]_vars PROVE JournalInv'
    OBVIOUS
  <2>1. Good'
    BY GoodStep DEF JournalInv
  <2>2. ASSUME faults' = 0 PROVE SafetyInv' /\ Truthful'
    <3>1. SafetyInv /\ Truthful
      BY <2>2, NoFaultYet DEF JournalInv, Good
    <3> QED
      BY <2>1, <2>2, <3>1, OneDispatchStep, OrderedStep, OneCallStep, TruthfulStep
      DEF SafetyInv
  <2> QED BY <2>1, <2>2 DEF JournalInv
<1> QED BY <1>1, <1>2, PTL DEF Spec

\* Until a journal write fails, a command calls the broker at most once, and so
\* do all commands of one idempotency key, over any redeliveries and crashes.
THEOREM CalledAtMostOnce == Spec => []AtMostOnce
<1>1. JournalInv => AtMostOnce
  BY DEF JournalInv, SafetyInv, OneCall, Ordered, Good, RecordInv, AtMostOnce
<1> QED BY <1>1, JournalHolds, PTL

\* Until a journal write fails, no call is made while the outcome of another
\* command is in doubt.
THEOREM DoubtFencesCalls == Spec => AmbiguityFences
<1> DEFINE Fenced == faults = 0 /\ calls' # calls =>
               \A c \in Commands \ {cur} :
                   ~(journal[c].invoked /\ journal[c].state \notin Terminal)
<1>1. JournalInv /\ [Next]_vars => [Fenced]_vars
  <2> SUFFICES ASSUME JournalInv, [Next]_vars, faults = 0, calls' # calls,
                      NEW c \in Commands \ {cur}, journal[c].invoked
               PROVE  journal[c].state \in Terminal
    OBVIOUS
  <2>0. SafetyInv
    BY DEF JournalInv
  <2>1. pc = "invoking"
    BY CallsFrame DEF CallBroker, Invoke
  <2>2. Present(c) /\ journal[c].state \notin Busy /\ ~HasUnknown
    BY <2>0, <2>1 DEF SafetyInv, OneDispatch
  <2>3. journal[c] \in Row
    BY <2>0 DEF SafetyInv, Good, TypeOK
  <2> QED BY <2>2, <2>3 DEF HasUnknown, Present, Row
<1>2. AmbiguityFences <=> [][Fenced]_vars
  BY DEF AmbiguityFences
<1> QED BY <1>1, <1>2, JournalHolds, PTL DEF Spec

\* Until a journal write fails, calls follow the backend's dispatch sequence,
\* across restarts and compaction.
THEOREM CallsFollowSequence == Spec => CallsInSequence
<1> DEFINE InSequence == faults = 0 /\ calls' # calls =>
               \A c \in Commands \ (compacted \cup {cur}) :
                   calls[c] > 0 => journal[c].seq < journal[cur].seq
<1>1. JournalInv /\ [Next]_vars => [InSequence]_vars
  <2> SUFFICES ASSUME JournalInv, [Next]_vars, faults = 0, calls' # calls,
                      NEW c \in Commands \ (compacted \cup {cur}), calls[c] > 0
               PROVE  journal[c].seq < journal[cur].seq
    OBVIOUS
  <2>0. SafetyInv
    BY DEF JournalInv
  <2>1. pc \in DispatchSteps
    BY CallsFrame DEF CallBroker, Invoke
  <2>2. Present(c)
    BY <2>0 DEF SafetyInv, Good, RecordInv
  <2> QED BY <2>0, <2>1, <2>2 DEF SafetyInv, Ordered
<1>2. CallsInSequence <=> [][InSequence]_vars
  BY DEF CallsInSequence
<1> QED BY <1>1, <1>2, JournalHolds, PTL DEF Spec

\* Until a journal write fails, whatever the adapter's rows name, an ACCEPTED
\* command took effect, and a REJECTED one did not unless an observation that
\* found no row of it rejected it.
THEOREM VerdictsAreTrue == Spec => []JournalTruth
<1>1. JournalInv => JournalTruth
  BY DEF JournalInv, Truthful, JournalTruth
<1> QED BY <1>1, JournalHolds, PTL

-----------------------------------------------------------------------------
(* ConnectorJournal implements CommandPromise, for any sets of commands and *)
(* keys and whatever the broker's rows name, until a journal write fails:   *)
(* each step of the journal is a step of the promise or leaves it alone.    *)

AbstractInv == SafetyInv /\ Truthful

Promised == <<Verdict, Attempted, Done>>

\* The words of the promise, row by row.
LEMMA RowWords ==
  ASSUME NEW r \in Row
  PROVE  /\ RowVerdict(r) \in {"none", "open", "doubt", "ACCEPTED", "REJECTED"}
         /\ RowVerdict(r) = "none" <=> r.state = "ABSENT"
         /\ RowVerdict(r) = "open" <=> r.state \in Busy
         /\ RowVerdict(r) = "doubt" <=> r.state = "UNKNOWN"
         /\ r.state \in Terminal => RowVerdict(r) = r.state
<1>1. CASE r.state = "ABSENT"
  BY <1>1 DEF RowVerdict
<1>2. CASE r.state \in Busy
  BY <1>2 DEF RowVerdict
<1>3. CASE r.state = "UNKNOWN"
  BY <1>3 DEF RowVerdict
<1>4. CASE r.state \in Terminal
  BY <1>4 DEF RowVerdict
<1> QED BY <1>1, <1>2, <1>3, <1>4 DEF Row

LEMMA Words ==
  ASSUME Good
  PROVE  \A c \in Commands :
            /\ c \in compacted => Verdict[c] = "forgotten"
            /\ c \notin compacted => Verdict[c] = RowVerdict(journal[c])
            /\ Attempted[c] <=> (c \notin compacted /\ calls[c] > 0)
            /\ Done[c] <=> (c \notin compacted /\ effect[c])
            /\ journal[c] \in Row
  BY DEF Verdict, Attempted, Done, Good, TypeOK

\* A step that leaves calls, effects and compaction alone leaves Attempted and
\* Done alone.
LEMMA Untried ==
  ASSUME calls' = calls, effect' = effect, compacted' = compacted
  PROVE  Attempted' = Attempted /\ Done' = Done
  BY DEF Attempted, Done

\* The verdict of one command moves with its row.
LEMMA OneVerdict ==
  ASSUME Good, NEW c \in Commands, compacted' = compacted,
         \A d \in Commands \ {c} : journal'[d] = journal[d]
  PROVE  /\ c \in compacted => Verdict' = Verdict
         /\ c \notin compacted =>
                Verdict' = [Verdict EXCEPT ![c] = RowVerdict(journal'[c])]
         /\ RowVerdict(journal'[c]) = RowVerdict(journal[c]) => Verdict' = Verdict
<1> DEFINE v(d) == IF d \in compacted THEN "forgotten" ELSE RowVerdict(journal[d])
           w(d) == IF d \in compacted THEN "forgotten" ELSE RowVerdict(journal'[d])
<1>1. Verdict = [d \in Commands |-> v(d)] /\ Verdict' = [d \in Commands |-> w(d)]
  BY DEF Verdict
<1>2. /\ \A d \in Commands \ {c} : w(d) = v(d)
      /\ c \in compacted => w(c) = v(c)
      /\ c \notin compacted => w(c) = RowVerdict(journal'[c])
      /\ RowVerdict(journal'[c]) = RowVerdict(journal[c]) => w(c) = v(c)
  OBVIOUS
<1> HIDE DEF v, w
<1> QED BY <1>1, <1>2

\* A verdict given to one open or doubtful command is a step of the promise.
LEMMA SettleOne ==
  ASSUME Good, Good', NEW c \in Commands, UNCHANGED <<calls, effect, compacted>>,
         \A d \in Commands \ {c} : journal'[d] = journal[d],
         journal[c].state \in Busy \cup {"UNKNOWN"},
         journal'[c].state \in Terminal \cup {"UNKNOWN"},
         c \notin compacted =>
             /\ journal'[c].state = "ACCEPTED" => effect[c]
             /\ journal'[c].state = "REJECTED" => ~effect[c] \/ journal[c].state = "UNKNOWN"
  PROVE  [Promise!Next]_Promised
<1>1. Attempted' = Attempted /\ Done' = Done
  BY Untried
<1>2. CASE c \in compacted
  BY <1>1, <1>2, OneVerdict DEF Promised
<1>3. CASE c \notin compacted
  <2> DEFINE new == RowVerdict(journal'[c])
  <2>1. Verdict' = [Verdict EXCEPT ![c] = new]
    BY <1>3, OneVerdict
  <2>2. journal[c] \in Row /\ journal'[c] \in Row
    BY DEF Good, TypeOK
  <2>3. Verdict[c] \in {"open", "doubt"}
    BY <1>3, <2>2, Words, RowWords
  <2>4. \/ new = "doubt" \/ new = Promise!Truth(c)
        \/ new = "REJECTED" /\ Verdict[c] = "doubt"
    BY <1>3, <2>2, RowWords, Words DEF Promise!Truth
  <2> HIDE DEF new
  <2>5. Verdict' = [d \in Commands |-> IF d \notin {c} THEN Verdict[d] ELSE new]
    BY <2>1 DEF Verdict
  <2>6. ASSUME new = "doubt" \/ new = Promise!Truth(c)
        PROVE  \E settled \in SUBSET {c} :
                   Verdict' = [d \in Commands |->
                       IF d \notin {c} THEN Verdict[d]
                       ELSE IF d \in settled THEN Promise!Truth(d) ELSE "doubt"]
    <3>1. CASE new = "doubt"
      <4>1. {} \in SUBSET {c}
        OBVIOUS
      <4>2. Verdict' = [d \in Commands |->
                IF d \notin {c} THEN Verdict[d]
                ELSE IF d \in {} THEN Promise!Truth(d) ELSE "doubt"]
        BY <2>5, <3>1
      <4> QED BY <4>1, <4>2
    <3>2. CASE new = Promise!Truth(c)
      <4>1. {c} \in SUBSET {c}
        OBVIOUS
      <4>2. Verdict' = [d \in Commands |->
                IF d \notin {c} THEN Verdict[d]
                ELSE IF d \in {c} THEN Promise!Truth(d) ELSE "doubt"]
        BY <2>5, <3>2
      <4> QED BY <4>1, <4>2
    <3> QED BY <2>6, <3>1, <3>2
  <2>7. CASE new = "doubt" \/ new = Promise!Truth(c)
    <3>1. Promise!Settle({c})
      BY <1>1, <2>3, <2>6, <2>7 DEF Promise!Settle
    <3> QED BY <3>1 DEF Promise!Next
  <2>8. CASE new = "REJECTED" /\ Verdict[c] = "doubt"
    <3>1. Promise!Deny(c)
      BY <1>1, <2>1, <2>8 DEF Promise!Deny
    <3> QED BY <3>1 DEF Promise!Next
  <2> QED BY <2>4, <2>7, <2>8
<1> QED BY <1>2, <1>3

-----------------------------------------------------------------------------
(* Step by step.                                                           *)

LEMMA InitRefines == Init => Promise!Init
<1> SUFFICES ASSUME Init PROVE Promise!Init
  OBVIOUS
<1>1. NoRow.state = "ABSENT"
  BY DEF NoRow
<1>2. \A c \in Commands : c \notin compacted /\ RowVerdict(journal[c]) = "none"
  BY <1>1 DEF Init, RowVerdict
<1>3. Verdict = [c \in Commands |-> "none"]
  BY <1>2 DEF Verdict
<1>4. Attempted = [c \in Commands |-> FALSE]
  <2>1. \A c \in Commands : ~(calls[c] > 0)
    BY DEF Init
  <2> QED BY <2>1 DEF Attempted
<1>5. Done = [c \in Commands |-> FALSE]
  BY DEF Done, Init
<1> QED BY <1>3, <1>4, <1>5 DEF Promise!Init

\* RecoverRow gives a busy row its verdict and leaves the others alone.
LEMMA RecoverRowState ==
  ASSUME NEW r \in Row
  PROVE  /\ r.state \notin Busy => RecoverRow(r) = r
         /\ r.state \in Busy /\ r.invoked => RecoverRow(r).state = "UNKNOWN"
         /\ r.state \in Busy /\ ~r.invoked => RecoverRow(r).state = "REJECTED"
<1>1. CASE r.state \notin Busy
  BY <1>1 DEF RecoverRow
<1>2. CASE r.state \in Busy /\ r.invoked
  BY <1>2 DEF RecoverRow, Moved, Row
<1>3. CASE r.state \in Busy /\ ~r.invoked
  BY <1>3 DEF RecoverRow, Moved, Row
<1> QED BY <1>1, <1>2, <1>3

\* A restart settles all busy rows at once: the unmarked with the truth, which
\* is that they did nothing, and the marked as doubt.
LEMMA StartRefines ==
  ASSUME AbstractInv, AbstractInv', Start PROVE [Promise!Next]_Promised
<1> DEFINE who == {c \in Commands \ compacted : journal[c].state \in Busy}
           settled == {c \in who : ~journal[c].invoked}
           w(c) == IF c \in compacted THEN "forgotten" ELSE RowVerdict(journal'[c])
<1>0. Good /\ Good'
  BY DEF AbstractInv, SafetyInv
<1>1. Attempted' = Attempted /\ Done' = Done
  BY Untried DEF Start
<1>2. \A c \in Commands : /\ journal[c] \in Row /\ journal'[c] \in Row
                          /\ journal'[c] = RecoverRow(journal[c])
  BY <1>0 DEF Start, Good, TypeOK
<1>3. Verdict' = [c \in Commands |-> w(c)]
  BY DEF Verdict, Start
<1>4. \A c \in Commands \ who : w(c) = Verdict[c]
  BY <1>0, <1>2, RecoverRowState, Words
<1>5. \A c \in who \ settled : w(c) = "doubt"
  BY <1>2, RecoverRowState, RowWords
<1>6. \A c \in settled : w(c) = Promise!Truth(c)
  <2> TAKE c \in settled
  <2>1. c \in Commands \ compacted /\ ~journal[c].invoked /\ journal[c].state \in Busy
    OBVIOUS
  <2>2. w(c) = "REJECTED"
    BY <1>2, <2>1, RecoverRowState, RowWords
  <2>3. ~Done[c]
    BY <1>0, <2>1, UnmarkedUncalled, UncalledUntrue, Words DEF AbstractInv
  <2> QED BY <2>2, <2>3 DEF Promise!Truth
<1>7. \A c \in who : Verdict[c] = "open"
  BY <1>0, <1>2, Words, RowWords
<1>8. who \subseteq Commands /\ settled \subseteq who
  OBVIOUS
<1> HIDE DEF who, settled, w
<1>9. CASE who = {}
  <2>1. Verdict' = Verdict
    BY <1>3, <1>4, <1>9 DEF Verdict
  <2> QED BY <1>1, <2>1 DEF Promised
<1>10. CASE who # {}
  <2>1. Verdict' = [c \in Commands |->
            IF c \notin who THEN Verdict[c]
            ELSE IF c \in settled THEN Promise!Truth(c) ELSE "doubt"]
    BY <1>3, <1>4, <1>5, <1>6
  <2>2. Promise!Settle(who)
    BY <1>1, <1>7, <1>8, <1>10, <2>1 DEF Promise!Settle
  <2> QED BY <1>8, <2>2 DEF Promise!Next
<1> QED BY <1>9, <1>10

LEMMA ReceiveRefines ==
  ASSUME Good, NEW c \in Commands, NEW k \in Keys, NEW s \in 1..MaxSeq,
         ReceiveNew(c, k, s)
  PROVE  [Promise!Next]_Promised
<1>1. Attempted' = Attempted /\ Done' = Done /\ compacted' = compacted
  BY Untried DEF ReceiveNew
<1>2. /\ ~Present(c)
      /\ \A d \in Commands \ {c} : journal'[d] = journal[d]
  BY ReceivedRow DEF Good
<1>3. journal'[c].state = "RECEIVED"
  BY DEF ReceiveNew, Good, TypeOK
<1>4. RowVerdict(journal'[c]) = "open"
  BY <1>3 DEF RowVerdict
<1>5. CASE c \in compacted
  BY <1>1, <1>2, <1>5, OneVerdict DEF Promised
<1>6. CASE c \notin compacted
  <2>1. Verdict' = [Verdict EXCEPT ![c] = "open"]
    BY <1>1, <1>2, <1>4, <1>6, OneVerdict
  <2>2. Verdict[c] = "none"
    BY <1>2, <1>6, Words, RowWords DEF Present
  <2>3. Promise!TakeOn(c)
    BY <1>1, <2>1, <2>2 DEF Promise!TakeOn
  <2> QED BY <2>3 DEF Promise!Next
<1> QED BY <1>5, <1>6

\* The one call of a command is the attempt the promise allows.
LEMMA InvokeRefines ==
  ASSUME AbstractInv, NEW result \in {"ACCEPTED", "REJECTED", "UNKNOWN"},
         NEW took \in BOOLEAN, Invoke(result, took)
  PROVE  [Promise!Next]_Promised
<1>0. Good
  BY DEF AbstractInv, SafetyInv
<1>1. /\ cur \in Commands /\ pc = "invoking" /\ journal' = journal
      /\ compacted' = compacted
      /\ \A c \in Commands : calls'[c] = IF c = cur THEN calls[c] + 1 ELSE calls[c]
      /\ \A c \in Commands \ {cur} : effect'[c] <=> effect[c]
      /\ effect'[cur] <=> (effect[cur] \/ took)
      /\ calls[cur] \in Nat
  BY <1>0 DEF Invoke, Good, CurOK, TypeOK
<1>2. Verdict' = Verdict
  BY <1>1 DEF Verdict
<1>3. CASE cur \in compacted
  <2>1. Attempted' = Attempted
    BY <1>1, <1>3 DEF Attempted
  <2>2. Done' = Done
    <3>1. \A c \in Commands : (c \notin compacted /\ effect'[c]) <=> (c \notin compacted /\ effect[c])
      BY <1>1, <1>3
    <3> QED BY <1>1, <3>1, Zenon DEF Done
  <2> QED BY <1>2, <2>1, <2>2 DEF Promised
<1>4. CASE cur \notin compacted
  <2>1. calls[cur] = 0 /\ ~effect[cur]
    BY <1>1, <1>4, UncalledUntrue DEF AbstractInv, SafetyInv, OneCall
  <2>2. Attempted' = [Attempted EXCEPT ![cur] = TRUE]
    <3>1. \A c \in Commands \ {cur} : calls'[c] = calls[c]
      BY <1>1
    <3>2. calls'[cur] > 0
      BY <1>1
    <3> QED BY <1>1, <1>4, <3>1, <3>2 DEF Attempted
  <2>3. Done' = [Done EXCEPT ![cur] = took]
    <3>1. \A c \in Commands \ {cur} : (c \notin compacted /\ effect'[c]) <=> (c \notin compacted /\ effect[c])
      BY <1>1
    <3>2. (cur \notin compacted /\ effect'[cur]) <=> took
      BY <1>1, <1>4, <2>1
    <3> QED BY <1>1, <3>1, <3>2 DEF Done
  <2>4. Verdict[cur] = "open" /\ ~Attempted[cur]
    <3>1. journal[cur].state \in Busy
      BY <1>1 DEF AbstractInv, SafetyInv, Good, RecordInv
    <3> QED BY <1>0, <1>1, <1>4, <2>1, <3>1, Words, RowWords
  <2>5. \A d \in Commands \ {cur} : Verdict[d] # "doubt"
    <3>1. ~HasUnknown
      BY <1>1 DEF AbstractInv, SafetyInv, OneDispatch
    <3> QED BY <1>0, <3>1, Words, RowWords DEF HasUnknown
  <2>6. Promise!Attempt(cur, took)
    BY <1>2, <2>2, <2>3, <2>4, <2>5 DEF Promise!Attempt
  <2> QED BY <1>1, <2>6 DEF Promise!Next
<1> QED BY <1>3, <1>4

LEMMA CompactRefines ==
  ASSUME Good, NEW old \in SUBSET Commands, Compact(old)
  PROVE  [Promise!Next]_Promised
<1>1. /\ compacted' = compacted \cup old /\ calls' = calls /\ effect' = effect
      /\ \A c \in Commands \ old : journal'[c] = journal[c]
      /\ \A c \in old : journal[c].state \in Terminal
      /\ old # {}
  BY DEF Compact
<1>2. Verdict' = [c \in Commands |-> IF c \in old THEN "forgotten" ELSE Verdict[c]]
  BY <1>1 DEF Verdict
<1>3. Attempted' = [c \in Commands |-> c \notin old /\ Attempted[c]]
  BY <1>1 DEF Attempted
<1>4. Done' = [c \in Commands |-> c \notin old /\ Done[c]]
  BY <1>1 DEF Done
<1>5. \A c \in old : Verdict[c] \in {"ACCEPTED", "REJECTED", "forgotten"}
  BY <1>1, Words, RowWords
<1>6. Promise!Forget(old)
  BY <1>1, <1>2, <1>3, <1>4, <1>5 DEF Promise!Forget
<1> QED BY <1>6 DEF Promise!Next

-----------------------------------------------------------------------------
(* The refinement.                                                         *)

\* The verdict _finish records is true of the broker.
LEMMA FinishTruth ==
  ASSUME Good, OneDispatch, Truthful, Refuse \/ CheckFails \/ RecordOutcome,
         NEW state \in {"ACCEPTED", "REJECTED", "UNKNOWN"}, Finish(state),
         cur \notin compacted
  PROVE  /\ state = "ACCEPTED" => effect[cur]
         /\ state = "REJECTED" => ~effect[cur]
<1>0. /\ cur \in Commands /\ pc \in DispatchSteps
      /\ journal'[cur].state = state
  BY FinishRow DEF Refuse, CheckFails, RecordOutcome, Good, CurOK
<1>1. CASE Refuse \/ CheckFails
  <2>1. Finish("REJECTED") /\ pc \in {"received", "checking"}
    BY <1>1 DEF Refuse, CheckFails, OneDispatch
  <2>2. state = "REJECTED"
    BY <1>0, <2>1, FinishRow DEF Good
  <2>3. ~journal[cur].invoked
    BY <2>1 DEF OneDispatch
  <2> QED BY <1>0, <2>2, <2>3, UnmarkedUncalled, UncalledUntrue
<1>2. CASE RecordOutcome
  <2>1. /\ Finish(outcome) /\ pc = "returned"
        /\ outcome \in {"ACCEPTED", "REJECTED", "UNKNOWN"}
    BY <1>2 DEF RecordOutcome, Good, CurOK
  <2>2. state = outcome
    BY <1>0, <2>1, FinishRow DEF Good
  <2> QED BY <2>1, <2>2 DEF Truthful
<1> QED BY <1>1, <1>2

\* _finish and reconcile settle the row of one command.
LEMMA FinishRefines ==
  ASSUME AbstractInv, AbstractInv', Refuse \/ CheckFails \/ RecordOutcome
  PROVE  [Promise!Next]_Promised
<1>0. Good /\ Good'
  BY DEF AbstractInv, SafetyInv
<1>1. PICK state \in {"ACCEPTED", "REJECTED", "UNKNOWN"} : Finish(state)
  BY <1>0 DEF Refuse, CheckFails, RecordOutcome, Good, CurOK
<1>2. /\ cur \in Commands /\ pc \in DispatchSteps
      /\ UNCHANGED <<calls, effect, compacted>>
  BY <1>0, <1>1 DEF Refuse, CheckFails, RecordOutcome, Good, CurOK, Finish
<1>3. /\ \A c \in Commands \ {cur} : journal'[c] = journal[c]
      /\ journal'[cur].state = state
  BY <1>0, <1>1, <1>2, FinishRow DEF Good
<1>4. journal[cur].state \in Busy
  BY <1>0, <1>2 DEF Good, RecordInv
<1>5. cur \notin compacted => /\ state = "ACCEPTED" => effect[cur]
                              /\ state = "REJECTED" => ~effect[cur]
  BY <1>0, <1>1, <1>2, FinishTruth DEF AbstractInv, SafetyInv
<1> QED BY <1>0, <1>2, <1>3, <1>4, <1>5, SettleOne

LEMMA ReconcileRefines ==
  ASSUME AbstractInv, AbstractInv', NEW c \in Commands,
         NEW evidence \in {"EXECUTED", "CANCELLED", "NO_EFFECT"}, Reconcile(c, evidence)
  PROVE  [Promise!Next]_Promised
<1>0. Good /\ Good'
  BY DEF AbstractInv, SafetyInv
<1>1. UNCHANGED <<calls, effect, compacted>> /\ journal[c].state = "UNKNOWN"
  BY DEF Reconcile
<1>2. /\ \A d \in Commands \ {c} : journal'[d] = journal[d]
      /\ journal'[c].state = IF evidence = "EXECUTED" THEN "ACCEPTED" ELSE "REJECTED"
  BY <1>0, ReconcileRow DEF Good
<1>3. journal'[c].state = "ACCEPTED" => effect[c]
  BY <1>2 DEF Reconcile, Evidence
<1> QED BY <1>0, <1>1, <1>2, <1>3, SettleOne

\* A step that keeps the broker's part, and each row's part in the promise, is
\* a stutter of the promise.
LEMMA StepRefines ==
  ASSUME AbstractInv, AbstractInv', [Next]_vars
  PROVE  [Promise!Next]_Promised
<1>0. Good
  BY DEF AbstractInv, SafetyInv
<1>1. CASE Crash \/ Approve \/ SessionBoundary \/ WriteFails \/ UNCHANGED vars
           \/ \E c \in Commands : ReceiveAgain(c)
  <2>1. UNCHANGED <<journal, calls, effect, compacted>>
    BY <1>1 DEF Crash, Approve, SessionBoundary, WriteFails, vars, ReceiveAgain
  <2>2. Verdict' = Verdict /\ Attempted' = Attempted /\ Done' = Done
    BY <2>1, Untried DEF Verdict
  <2> QED BY <2>2 DEF Promised
<1>2. CASE BeginCheck \/ CheckPasses \/ CommitInvoking
  <2>1. cur \in Commands /\ UNCHANGED <<calls, effect, compacted>>
    BY <1>0, <1>2 DEF BeginCheck, CheckPasses, CommitInvoking, Good, CurOK
  <2>2. /\ \A c \in Commands \ {cur} : journal'[c] = journal[c]
        /\ journal'[cur].state \in Busy /\ pc \in DispatchSteps
    BY <1>0, <1>2, <2>1, BusyRow
  <2>3. journal[cur].state \in Busy
    BY <1>0, <2>2 DEF Good, RecordInv
  <2>4. RowVerdict(journal'[cur]) = RowVerdict(journal[cur])
    BY <2>2, <2>3 DEF RowVerdict
  <2>5. Verdict' = Verdict
    BY <1>0, <2>1, <2>2, <2>4, OneVerdict
  <2> QED BY <2>1, <2>5, Untried DEF Promised
<1>3. CASE CallBroker
  BY <1>3, InvokeRefines DEF CallBroker
<1> QED
  BY <1>0, <1>1, <1>2, <1>3, StartRefines, ReceiveRefines, FinishRefines,
     ReconcileRefines, CompactRefines
  DEF Next, Receive, DispatchStep, ReconcileSome

\* Until a journal write fails, and whatever the broker's rows name, the
\* connector keeps the promise: each command is attempted at most once, never
\* while another is in doubt, ACCEPTED only if it was done, and REJECTED though
\* it was done only when it was in doubt and no row of it was found.
THEOREM PromiseIsKept == Spec => PromiseSpec
<1> DEFINE Kept == faults' = 0 => Promise!Next
<1>1. Init => Promise!Init
  BY InitRefines
<1>2. JournalInv /\ JournalInv' /\ [Next]_vars => [Kept]_Promised
  <2> SUFFICES ASSUME JournalInv, JournalInv', [Next]_vars, faults' = 0
               PROVE  [Promise!Next]_Promised
    OBVIOUS
  <2>1. faults = 0
    BY NoFaultYet DEF JournalInv, Good
  <2> QED BY <2>1, StepRefines DEF JournalInv, AbstractInv
<1>3. PromiseSpec <=> Promise!Init /\ [][Kept]_Promised
  BY DEF PromiseSpec, Promised
<1> QED BY <1>1, <1>2, <1>3, JournalHolds, PTL DEF Spec
=============================================================================
