------------------------ MODULE PositionLifecycleProofs ------------------------
(***************************************************************************)
(* Theorems about PositionLifecycle, for any commands, deals, volumes and   *)
(* stops, both transports and any number of restarts.                       *)
(***************************************************************************)
EXTENDS PositionLifecycle, TLAPS

USE PositionAssumption

Statuses == {"RECEIVED", "DISPATCHING", "CONFIRMED", "UNKNOWN", "REJECTED"}
RecordStates == {"NONE", "QUEUED", "SENT", "ACCEPTED", "REJECTED", "UNKNOWN"}
Protections == {"CONFIRMED", "UNCONFIRMED", "QUARANTINED"}
Positions == [remaining : 0..Lots, stage : Stages, stop : 1..MaxStop,
              native : 1..MaxStop, prot : Protections]
CommandRows == [kind : Kinds, volume : 0..Lots, stop : 0..MaxStop, status : Statuses]
RecordRows == [volume : 0..Lots, state : RecordStates]

USE DEF Statuses, RecordStates, Protections, Kinds, Stages, WorkStates

-----------------------------------------------------------------------------
(* The helpers of the account and the updates of a row keep the types.      *)

LEMMA GateTypes ==
  ASSUME NEW a \in Account, NEW rs \in SUBSET Reasons, NEW p \in BOOLEAN,
         NEW x \in BOOLEAN, NEW y \in BOOLEAN, NEW z \in BOOLEAN
  PROVE  /\ SetInterlock(a, rs, p) \in Account
         /\ Fence(a) \in Account
         /\ [a EXCEPT !.gate = "QUARANTINED"] \in Account
         /\ RestoreIfSafe(a, x, z) \in Account
         /\ RemoveReasons(a, rs, x, z) \in Account
         /\ RestoreTemporary(a, x, y, z) \in Account
         /\ BeginRestart(a) \in Account
         /\ CompleteRestart(a, x) \in Account
<1>1. /\ a.gate \in Gates /\ a.lock \in Locks /\ a.reasons \in SUBSET Reasons
      /\ a.custody \in BOOLEAN /\ a.recovering \in BOOLEAN /\ a.before \in Gates
  BY DEF Account
<1>2. /\ {"OPEN", "FENCE_PENDING", "QUARANTINED"} = Gates
      /\ {"ELIGIBLE", "BLOCKED", "QUARANTINED"} = Locks
  BY DEF Gates, Locks
<1>3. SetInterlock(a, rs, p) \in Account
  BY <1>1, <1>2 DEF SetInterlock, Account
<1>4. Fence(a) \in Account
  BY <1>1, <1>2 DEF Fence, Account
<1>5. [a EXCEPT !.gate = "QUARANTINED"] \in Account
  BY <1>1, <1>2 DEF Account
<1>6. \A b \in Account : RestoreIfSafe(b, x, z) \in Account
  BY <1>2 DEF RestoreIfSafe, Account
<1>7. RemoveReasons(a, rs, x, z) \in Account
  <2>1. [a EXCEPT !.reasons = @ \ rs] \in Account
    BY <1>1 DEF Account
  <2> QED BY <1>6, <2>1 DEF RemoveReasons
<1>8. RestoreTemporary(a, x, y, z) \in Account
  BY <1>1, <1>2 DEF RestoreTemporary, Account
<1>9. BeginRestart(a) \in Account
  BY <1>1, <1>2 DEF BeginRestart, Account
<1>10. CompleteRestart(a, x) \in Account
  BY <1>1, <1>2 DEF CompleteRestart, Account
<1> QED BY <1>3, <1>4, <1>5, <1>6, <1>7, <1>8, <1>9, <1>10

LEMMA SomeReasons ==
  /\ ProtectionReasons \in SUBSET Reasons /\ ConnectorReasons \in SUBSET Reasons
  /\ {"RECONCILIATION_PENDING"} \in SUBSET Reasons
  /\ {"NATIVE_PROTECTION_UNVERIFIED"} \in SUBSET Reasons
  BY DEF Reasons, RuntimeHealthReasons, ConnectorReasons, ProtectionReasons

LEMMA DoubtTypes ==
  ASSUME NEW a \in Account
  PROVE  Quarantine(a) \in Account /\ DoubtAccount(a) \in Account
<1>1. Fence([a EXCEPT !.gate = "QUARANTINED"]) \in Account
  <2>1. [a EXCEPT !.gate = "QUARANTINED"] \in Account
    BY GateTypes, SomeReasons
  <2> QED BY <2>1, GateTypes, SomeReasons
<1> QED BY <1>1, GateTypes, SomeReasons DEF Quarantine, DoubtAccount

\* The status of a command is set, or the state of its record.
LEMMA RowSet ==
  ASSUME NEW r \in CommandRows, NEW st \in Statuses, NEW q, q = [r EXCEPT !.status = st]
  PROVE  /\ q \in CommandRows /\ q.status = st
         /\ q.kind = r.kind /\ q.volume = r.volume /\ q.stop = r.stop
  BY DEF CommandRows

LEMMA StatusSet ==
  ASSUME NEW f \in [Commands -> CommandRows], NEW c \in Commands, NEW st \in Statuses,
         NEW g, g = [f EXCEPT ![c].status = st]
  PROVE  /\ g \in [Commands -> CommandRows]
         /\ g[c].status = st
         /\ \A d \in Commands \ {c} : g[d] = f[d]
         /\ g[c].kind = f[c].kind /\ g[c].volume = f[c].volume /\ g[c].stop = f[c].stop
  BY DEF CommandRows

LEMMA StateSet ==
  ASSUME NEW f \in [Commands -> RecordRows], NEW c \in Commands, NEW st \in RecordStates,
         NEW g, g = [f EXCEPT ![c].state = st]
  PROVE  /\ g \in [Commands -> RecordRows]
         /\ g[c].state = st
         /\ \A d \in Commands \ {c} : g[d] = f[d]
         /\ g[c].volume = f[c].volume
  BY DEF RecordRows

-----------------------------------------------------------------------------
(* Types.                                                                  *)

PositionOK == transport \in {"direct", "stream"} /\ pos \in Positions
RowsOK ==
    /\ cmd \in [Commands -> CommandRows] /\ record \in [Commands -> RecordRows]
    /\ prepared \in Seq(Commands) /\ wire \subseteq Commands /\ orphans \subseteq Commands
AccountOK ==
    acct \in Account /\ work \in [Commands -> WorkStates] /\ underFence \in BOOLEAN
BrokerOK ==
    /\ real \in [volume : 0..Lots, stop : 1..MaxStop]
    /\ deal \in [Commands \cup ExitDeals -> 0..Lots]
    /\ did \in [Commands -> {"nothing", "done", "refused"}]
RestOK ==
    /\ known \subseteq Commands \cup ExitDeals /\ inflight \in Commands \cup {NoCommand}
    /\ session \in {"closed", "open", "seen", "ready"}
    /\ overtaken \in BOOLEAN /\ denied \subseteq Commands /\ restarts \in 0..MaxRestarts

\* What the kind of a command says: a command that was not asked for has done
\* nothing, only closes and changes of protection have records, and a stop is a level.
KindsOK ==
    /\ \A c \in Commands : cmd[c].kind = "NONE" =>
           cmd[c].status = "RECEIVED" /\ did[c] = "nothing"
    /\ \A c \in Commands : cmd[c].kind \in {"PROTECTION", "TRAIL"} => cmd[c].stop # 0
    /\ \A c \in Commands : record[c].state # "NONE" => cmd[c].kind \in {"CLOSE", "PROTECTION"}
    /\ \A c \in wire : record[c].state # "NONE"
    /\ inflight # NoCommand => cmd[inflight].kind # "NONE"

TypeInv ==
    PositionOK /\ RowsOK /\ AccountOK /\ BrokerOK /\ RestOK /\ KindsOK

LEMMA TypeInvIsEnough == TypeInv => TypeOK
  BY DEF TypeInv, PositionOK, RowsOK, AccountOK, BrokerOK, RestOK, TypeOK, Positions,
         CommandRows, RecordRows

LEMMA TypeInit == Init => TypeInv
<1> SUFFICES ASSUME Init PROVE TypeInv
  OBVIOUS
<1>1. PositionOK
  <2>1. PICK start \in Starts :
            /\ transport = start[1]
            /\ pos = [remaining |-> Lots, stage |-> start[2], prot |-> "CONFIRMED",
                      stop |-> 1, native |-> 1]
    BY DEF Init
  <2>2. start[1] \in {"direct", "stream"} /\ start[2] \in Stages
    OBVIOUS
  <2> QED BY <2>1, <2>2 DEF PositionOK, Positions
<1>2. RowsOK
  <2>1. NoCommandRow \in CommandRows /\ NoRecord \in RecordRows
    BY DEF NoCommandRow, CommandRows, NoRecord, RecordRows
  <2> QED BY <2>1 DEF Init, RowsOK
<1>3. AccountOK
  BY DEF Init, AccountOK, FreshAccount, Account, Gates, Locks
<1>4. BrokerOK /\ RestOK
  <2>1. real \in [volume : 0..Lots, stop : 1..MaxStop]
    BY DEF Init
  <2>2. /\ deal \in [Commands \cup ExitDeals -> 0..Lots]
        /\ did \in [Commands -> {"nothing", "done", "refused"}]
    BY DEF Init
  <2>3. /\ known = {} /\ inflight = NoCommand /\ session = "closed"
        /\ overtaken = FALSE /\ denied = {} /\ restarts = 0
    BY DEF Init
  <2>4. MaxRestarts \in Nat
    OBVIOUS
  <2>5. restarts \in 0..MaxRestarts
    BY <2>3, <2>4
  <2>6. RestOK
    BY <2>3, <2>5 DEF RestOK
  <2> QED BY <2>1, <2>2, <2>6 DEF BrokerOK
<1>5. KindsOK
  BY DEF Init, KindsOK, NoCommandRow, NoRecord
<1> QED BY <1>1, <1>2, <1>3, <1>4, <1>5 DEF TypeInv

LEMMA ClosesTypes ==
  ASSUME BrokerOK, NEW c \in Commands, NEW v, BrokerCloses(c, v)
  PROVE  /\ BrokerOK' /\ did'[c] # "nothing" /\ real'.stop = real.stop
         /\ \A d \in Commands \ {c} : did'[d] = did[d]
<1>1. CASE v \in 1..real.volume
  <2>1. real.volume \in 0..Lots /\ real.volume - v \in 0..Lots /\ v \in 0..Lots
    BY <1>1 DEF BrokerOK
  <2> QED BY <1>1, <2>1 DEF BrokerCloses, BrokerOK
<1>2. CASE v \notin 1..real.volume
  BY <1>2 DEF BrokerCloses, BrokerOK
<1> QED BY <1>1, <1>2

LEMMA MovesTypes ==
  ASSUME BrokerOK, NEW c \in Commands, NEW s \in 1..MaxStop, BrokerMovesStop(c, s)
  PROVE  /\ BrokerOK' /\ did'[c] # "nothing" /\ real'.volume = real.volume
         /\ \A d \in Commands \ {c} : did'[d] = did[d]
  BY DEF BrokerMovesStop, BrokerOK

LEMMA TrailTypes ==
  ASSUME NEW p \in Positions, RowsOK, KindsOK, NEW c \in Commands
  PROVE  TrailTo(p, c) \in Positions
<1>1. cmd[c].kind = "TRAIL" => cmd[c].stop \in 1..MaxStop
  BY DEF RowsOK, KindsOK, CommandRows
<1> QED BY <1>1 DEF TrailTo, Positions

LEMMA AcceptedTypes ==
  ASSUME PositionOK, RowsOK, KindsOK, BrokerOK, NEW c \in Commands
  PROVE  Accepted(pos, c) \in Positions
<1>1. CASE cmd[c].kind = "PROTECTION"
  <2>1. cmd[c].stop \in 1..MaxStop
    BY <1>1 DEF RowsOK, KindsOK, CommandRows
  <2> QED BY <1>1, <2>1 DEF Accepted, PositionOK, Positions
<1>2. CASE cmd[c].kind # "PROTECTION"
  <2> DEFINE left == IF deal[c] >= pos.remaining THEN 0 ELSE pos.remaining - deal[c]
  <2>1. left \in 0..Lots
    BY DEF PositionOK, Positions, BrokerOK
  <2> HIDE DEF left
  <2>2. [pos EXCEPT !.remaining = left, !.stage = IF left = 0 THEN "CLOSED" ELSE @]
            \in Positions
    BY <2>1 DEF PositionOK, Positions
  <2> QED BY <1>2, <2>2 DEF Accepted, left
<1> QED BY <1>1, <1>2

LEMMA ProjectTypes ==
  ASSUME NEW p \in Positions, BrokerOK
  PROVE  Project(p) \in Positions
  BY DEF Project, Positions, BrokerOK

LEMMA UnknownTypes ==
  ASSUME AccountOK, NEW S, NEW a \in Account, RecordUnknown(S, a)
  PROVE  AccountOK'
<1>1. Quarantine(a) \in Account
  BY DoubtTypes
<1> QED BY <1>1 DEF RecordUnknown, AccountOK

LEMMA DoubtfulTypes ==
  ASSUME PositionOK, RowsOK, AccountOK, NEW S, Doubtful(S)
  PROVE  /\ cmd' \in [Commands -> CommandRows] /\ record' \in [Commands -> RecordRows]
         /\ pos' \in Positions /\ AccountOK'
         /\ \A c \in Commands :
                /\ cmd'[c].kind = cmd[c].kind /\ cmd'[c].volume = cmd[c].volume
                /\ cmd'[c].stop = cmd[c].stop
                /\ c \notin S => cmd'[c] = cmd[c] /\ record'[c] = record[c]
                /\ c \in S => cmd'[c].status = "UNKNOWN" /\ record'[c].state = "UNKNOWN"
<1>1. /\ Quarantine(acct) \in Account /\ DoubtAccount(acct) \in Account
      /\ DoubtAccount(Quarantine(acct)) \in Account
  BY DoubtTypes DEF AccountOK
<1>2. /\ \A c \in Commands :
             /\ cmd'[c] = IF c \in S THEN [cmd[c] EXCEPT !.status = "UNKNOWN"] ELSE cmd[c]
             /\ record'[c] = IF c \in S THEN [record[c] EXCEPT !.state = "UNKNOWN"]
                                        ELSE record[c]
      /\ DOMAIN cmd' = Commands /\ DOMAIN record' = Commands
      /\ cmd' = [c \in Commands |-> cmd'[c]] /\ record' = [c \in Commands |-> record'[c]]
  BY DEF Doubtful
<1>3. \A c \in Commands : cmd'[c] \in CommandRows /\ record'[c] \in RecordRows
  <2> TAKE c \in Commands
  <2>1. cmd[c] \in CommandRows /\ record[c] \in RecordRows
    BY DEF RowsOK
  <2>2. [cmd[c] EXCEPT !.status = "UNKNOWN"] \in CommandRows
    BY <2>1 DEF CommandRows
  <2>3. [record[c] EXCEPT !.state = "UNKNOWN"] \in RecordRows
    BY <2>1 DEF RecordRows
  <2> QED BY <1>2, <2>1, <2>2, <2>3
<1>4. \A c \in Commands :
          /\ cmd'[c].kind = cmd[c].kind /\ cmd'[c].volume = cmd[c].volume
          /\ cmd'[c].stop = cmd[c].stop
          /\ c \notin S => cmd'[c] = cmd[c] /\ record'[c] = record[c]
          /\ c \in S => cmd'[c].status = "UNKNOWN" /\ record'[c].state = "UNKNOWN"
  BY <1>2 DEF RowsOK, CommandRows, RecordRows
<1>5. pos' \in Positions
  BY DEF Doubtful, DoubtPosition, PositionOK, Positions
<1>6. AccountOK'
  BY <1>1 DEF Doubtful, AccountOK
<1>7. cmd' \in [Commands -> CommandRows] /\ record' \in [Commands -> RecordRows]
  BY <1>2, <1>3
<1> QED BY <1>4, <1>5, <1>6, <1>7

LEMMA CompleteTypes ==
  ASSUME AccountOK, NEW S, NEW cs, NEW a \in Account, NEW p \in Positions
  PROVE  CompleteWork(S, a, cs, p) \in Account /\ WorkAfter(S, cs) \in [Commands -> WorkStates]
<1>1. WorkAfter(S, cs) \in [Commands -> WorkStates]
  BY DEF WorkAfter, AccountOK
<1>2. Exposed(p) \in BOOLEAN /\ Unconfirmed(p) \in BOOLEAN /\ underFence \in BOOLEAN
  BY DEF Exposed, Unconfirmed, AccountOK
<1>3. RemoveReasons(a, {"RECONCILIATION_PENDING"}, Exposed(p), underFence) \in Account
  BY <1>2, GateTypes, SomeReasons
<1>4. RestoreTemporary(
          RemoveReasons(a, {"RECONCILIATION_PENDING"}, Exposed(p), underFence),
          Unresolved(work) \ Converged(S, cs) # {}, Unconfirmed(p), underFence) \in Account
  BY <1>2, <1>3, GateTypes
<1> QED BY <1>1, <1>4 DEF CompleteWork

\* The kinds stay right when only the status of rows, their records and what is on
\* the wire change.
LEMMA KindsKept ==
  ASSUME KindsOK, RowsOK,
         \A c \in Commands : cmd'[c].kind = cmd[c].kind /\ cmd'[c].stop = cmd[c].stop,
         \A c \in Commands :
             \/ cmd[c].kind # "NONE"
             \/ cmd'[c].status = cmd[c].status /\ did'[c] = did[c],
         \A c \in Commands :
             record'[c].state # "NONE" =>
                 record[c].state # "NONE" \/ cmd[c].kind \in {"CLOSE", "PROTECTION"},
         \A c \in wire' : c \in Commands /\ record'[c].state # "NONE",
         inflight' \in {NoCommand, inflight} \/ cmd[inflight'].kind # "NONE",
         inflight' \in Commands \cup {NoCommand}
  PROVE  KindsOK'
<1>1. /\ \A c \in Commands : cmd'[c].kind = "NONE" =>
             cmd'[c].status = "RECEIVED" /\ did'[c] = "nothing"
      /\ \A c \in Commands : cmd'[c].kind \in {"PROTECTION", "TRAIL"} => cmd'[c].stop # 0
      /\ \A c \in Commands :
             record'[c].state # "NONE" => cmd'[c].kind \in {"CLOSE", "PROTECTION"}
  BY DEF KindsOK
<1>2. inflight' # NoCommand => cmd'[inflight'].kind # "NONE"
  BY DEF KindsOK
<1> QED BY <1>1, <1>2 DEF KindsOK

\* A request adds a command; nothing is on record about it.
LEMMA RequestTypes ==
  ASSUME TypeInv, NEW c \in Commands, NEW r \in CommandRows,
         r.kind # "NONE", r.status = "RECEIVED", r.kind # "CLOSE" => r.stop # 0,
         cmd[c].kind = "NONE", cmd' = [cmd EXCEPT ![c] = r], pos' \in Positions,
         UNCHANGED <<transport, record, prepared, known, doubt, inflight, stream,
                     broker, history, restarts>>
  PROVE  TypeInv'
<1>1. cmd' \in [Commands -> CommandRows]
  BY DEF TypeInv, RowsOK
<1>2. cmd'[c] = r /\ \A d \in Commands \ {c} : cmd'[d] = cmd[d]
  BY DEF TypeInv, RowsOK
<1>3. record[c].state = "NONE" /\ inflight # c
  BY DEF TypeInv, KindsOK
<1>4. KindsOK'
  BY <1>2, <1>3 DEF TypeInv, KindsOK, stream, broker, RowsOK, RestOK
<1> QED BY <1>1, <1>4 DEF TypeInv, PositionOK, RowsOK, AccountOK, BrokerOK, RestOK,
           doubt, stream, broker, history

LEMMA AskedVolume ==
  ASSUME NEW v \in 0..Lots
  PROVE  LET r == [NoCommandRow EXCEPT !.kind = "CLOSE", !.volume = v]
         IN  r \in CommandRows /\ r.kind = "CLOSE" /\ r.status = "RECEIVED"
<1>1. NoCommandRow \in CommandRows /\ NoCommandRow.status = "RECEIVED"
  BY DEF NoCommandRow, CommandRows
<1> QED BY <1>1 DEF CommandRows

LEMMA AskedStop ==
  ASSUME NEW s \in 0..MaxStop, NEW k \in Kinds
  PROVE  LET r == [NoCommandRow EXCEPT !.kind = k, !.stop = s]
         IN  r \in CommandRows /\ r.kind = k /\ r.status = "RECEIVED" /\ r.stop = s
<1>1. NoCommandRow \in CommandRows /\ NoCommandRow.status = "RECEIVED"
  BY DEF NoCommandRow, CommandRows
<1> QED BY <1>1 DEF CommandRows

\* What a request does: a command is added, the position may be CLOSING.
RequestDone(c, r) ==
    /\ cmd[c].kind = "NONE" /\ cmd' = [cmd EXCEPT ![c] = r]
    /\ r.kind # "NONE" /\ r.status = "RECEIVED" /\ (r.kind # "CLOSE" => r.stop # 0)
    /\ pos' \in Positions /\ pos'.remaining = pos.remaining
    /\ pos'.prot = pos.prot /\ pos'.stop = pos.stop
    /\ pos'.stage \in {pos.stage, "CLOSING"}
    /\ UNCHANGED <<transport, record, prepared, known, doubt, inflight, stream,
                   broker, history, restarts>>

LEMMA RequestEffect ==
  ASSUME TypeInv, Requests
  PROVE  \E c \in Commands, r \in CommandRows : RequestDone(c, r)
<1>1. PICK c \in Commands :
          \/ \E v \in Volumes : RequestClose(c, v)
          \/ \E s \in 1..MaxStop : RequestProtection(c, s) \/ RequestTrailing(c, s)
  BY DEF Requests
<1>0. /\ \A s \in 1..MaxStop : s \in 0..MaxStop /\ s # 0
      /\ 0 \in 0..MaxStop /\ 0 \in 0..Lots /\ Volumes \subseteq 0..Lots
      /\ pos \in Positions
  BY DEF TypeInv, PositionOK
<1>2. ASSUME NEW v \in Volumes, RequestClose(c, v)
      PROVE  \E r \in CommandRows : RequestDone(c, r)
  <2>1. /\ pos' \in Positions /\ pos'.remaining = pos.remaining
        /\ pos'.prot = pos.prot /\ pos'.stop = pos.stop /\ pos'.stage = "CLOSING"
    BY <1>2 DEF RequestClose, TypeInv, PositionOK, Positions
  <2> DEFINE r == [NoCommandRow EXCEPT !.kind = "CLOSE", !.volume = v]
  <2>2. r \in CommandRows /\ r.kind = "CLOSE" /\ r.status = "RECEIVED"
    BY <1>0, AskedVolume
  <2>3. cmd' = [cmd EXCEPT ![c] = r]
    BY <1>2 DEF RequestClose
  <2> HIDE DEF r
  <2>4. RequestDone(c, r)
    BY <1>2, <2>1, <2>2, <2>3 DEF RequestClose, RequestDone
  <2> QED BY <2>2, <2>4
<1>3. ASSUME NEW s \in 1..MaxStop, RequestProtection(c, s)
      PROVE  \E r \in CommandRows : RequestDone(c, r)
  <2> DEFINE r == [NoCommandRow EXCEPT !.kind = "PROTECTION", !.stop = s]
  <2>1. r \in CommandRows /\ r.kind = "PROTECTION" /\ r.status = "RECEIVED" /\ r.stop = s
    BY <1>0, AskedStop
  <2>2. cmd' = [cmd EXCEPT ![c] = r]
    BY <1>3 DEF RequestProtection
  <2> HIDE DEF r
  <2>3. RequestDone(c, r)
    BY <1>0, <1>3, <2>1, <2>2 DEF RequestProtection, RequestDone
  <2> QED BY <2>1, <2>3
<1>4. ASSUME NEW s \in 1..MaxStop, RequestTrailing(c, s)
      PROVE  \E r \in CommandRows : RequestDone(c, r)
  <2> DEFINE r == [NoCommandRow EXCEPT !.kind = "TRAIL", !.stop = s]
  <2>1. r \in CommandRows /\ r.kind = "TRAIL" /\ r.status = "RECEIVED" /\ r.stop = s
    BY <1>0, AskedStop
  <2>2. cmd' = [cmd EXCEPT ![c] = r]
    BY <1>4 DEF RequestTrailing
  <2> HIDE DEF r
  <2>3. RequestDone(c, r)
    BY <1>0, <1>4, <2>1, <2>2 DEF RequestTrailing, RequestDone
  <2> QED BY <2>1, <2>3
<1> QED BY <1>1, <1>2, <1>3, <1>4

LEMMA TypeRequests == TypeInv /\ Requests => TypeInv'
<1> SUFFICES ASSUME TypeInv, Requests PROVE TypeInv'
  OBVIOUS
<1>1. PICK c \in Commands, r \in CommandRows : RequestDone(c, r)
  BY RequestEffect
<1> QED BY <1>1, RequestTypes DEF RequestDone

\* The status of one command is set; its record, the account and the position keep
\* their types.
LEMMA OneStatus ==
  ASSUME TypeInv, NEW c \in Commands, NEW st \in Statuses, cmd[c].kind # "NONE",
         cmd' = [cmd EXCEPT ![c].status = st], pos' \in Positions, AccountOK',
         record' \in [Commands -> RecordRows],
         \A d \in Commands : record'[d].state # "NONE" => record[d].state # "NONE",
         \A d \in wire : record'[d].state # "NONE",
         inflight' \in {NoCommand, inflight, c},
         overtaken' \in BOOLEAN, denied' = denied, known' \subseteq Commands \cup ExitDeals,
         UNCHANGED <<transport, prepared, stream, broker, restarts>>
  PROVE  TypeInv'
<1>1. /\ cmd' \in [Commands -> CommandRows]
      /\ \A d \in Commands : /\ cmd'[d].kind = cmd[d].kind /\ cmd'[d].stop = cmd[d].stop
                             /\ cmd[d].kind # "NONE" \/ cmd'[d].status = cmd[d].status
  <2>1. cmd \in [Commands -> CommandRows]
    BY DEF TypeInv, RowsOK
  <2>2. /\ cmd' \in [Commands -> CommandRows]
        /\ \A d \in Commands \ {c} : cmd'[d] = cmd[d]
        /\ cmd'[c].kind = cmd[c].kind /\ cmd'[c].stop = cmd[c].stop
    <3>1. cmd' = [cmd EXCEPT ![c].status = st]
      OBVIOUS
    <3> QED BY ONLY <2>1, <3>1, StatusSet, c \in Commands, st \in Statuses
  <2> QED BY <2>2
<1>2. KindsOK'
  <2>1. /\ KindsOK /\ RowsOK /\ did' = did /\ wire' = wire /\ wire \subseteq Commands
        /\ inflight' \in {NoCommand, inflight} \/ cmd[inflight'].kind # "NONE"
        /\ inflight' \in Commands \cup {NoCommand}
    BY DEF TypeInv, stream, broker, RowsOK, RestOK
  <2> QED BY <1>1, <2>1, KindsKept
<1> QED BY <1>1, <1>2 DEF TypeInv, PositionOK, RowsOK, BrokerOK, RestOK, stream, broker

LEMMA TypeDispatch == TypeInv /\ DirectDispatch => TypeInv'
<1> SUFFICES ASSUME TypeInv PROVE DirectDispatch => TypeInv'
  OBVIOUS
<1> USE DEF TypeInv
<1>0. /\ inflight # NoCommand =>
             inflight \in Commands /\ cmd[inflight].kind # "NONE"
      /\ pos \in Positions
  BY DEF KindsOK, RestOK, PositionOK
<1>1. ASSUME CallActs PROVE TypeInv'
  <2>1. inflight \in Commands /\ cmd[inflight].kind # "NONE"
    BY <1>0, <1>1 DEF CallActs
  <2>2. cmd[inflight].kind = "TRAIL" => cmd[inflight].stop \in 1..MaxStop
    BY <2>1 DEF KindsOK, RowsOK, CommandRows
  <2>3. BrokerOK' /\ \A d \in Commands \ {inflight} : did'[d] = did[d]
    BY <1>1, <2>1, <2>2, ClosesTypes, MovesTypes DEF CallActs
  <2>4. KindsOK'
    BY <1>1, <2>1, <2>3 DEF CallActs, KindsOK, projection, stream
  <2> QED BY <1>1, <2>3, <2>4
          DEF CallActs, PositionOK, RowsOK, AccountOK, RestOK, projection, doubt, stream,
             history
<1>2. ASSUME AnswerClear PROVE TypeInv'
  <2>1. inflight \in Commands /\ cmd[inflight].kind # "NONE"
    BY <1>0, <1>2 DEF AnswerClear
  <2>2. TrailTo(pos, inflight) \in Positions
    BY <1>0, <2>1, TrailTypes
  <2>3. /\ pos' \in Positions
        /\ \E st \in Statuses : cmd' = [cmd EXCEPT ![inflight].status = st]
    BY <1>0, <1>2, <2>2 DEF AnswerClear
  <2> QED BY <1>2, <2>1, <2>3, OneStatus
          DEF AnswerClear, AccountOK, RowsOK, RestOK, KindsOK, doubt, history
<1>3. ASSUME AnswerAmbiguous PROVE TypeInv'
  <2>1. inflight \in Commands /\ cmd[inflight].kind # "NONE"
    BY <1>0, <1>3 DEF AnswerAmbiguous
  <2>2. AccountOK'
    BY <1>3, UnknownTypes DEF AnswerAmbiguous, AccountOK
  <2> QED BY <1>0, <1>3, <2>1, <2>2, OneStatus
          DEF AnswerAmbiguous, RowsOK, RestOK, KindsOK, history
<1>4. ASSUME NEW c \in Commands, BeginCall(c) PROVE TypeInv'
  <2>1. Overtakes \in BOOLEAN
    BY DEF Overtakes, RestOK
  <2> QED BY <1>0, <1>4, <2>1, OneStatus
          DEF BeginCall, AccountOK, RowsOK, RestOK, KindsOK, doubt
<1>5. ASSUME NEW c \in Commands, Incapable(c) PROVE TypeInv'
  BY <1>0, <1>5, OneStatus DEF Incapable, AccountOK, RowsOK, RestOK, KindsOK, doubt, history
<1>6. ASSUME NEW c \in Commands, DispatchSettled(c) PROVE TypeInv'
  <2>1. AccountOK'
    BY <1>0, <1>6, CompleteTypes DEF DispatchSettled, AccountOK
  <2> QED BY <1>6, <2>1 DEF DispatchSettled, PositionOK, RowsOK, BrokerOK, RestOK,
                            KindsOK, projection, stream, broker, history
<1> QED BY <1>1, <1>2, <1>3, <1>4, <1>5, <1>6 DEF DirectDispatch

LEMMA TypeStream == TypeInv /\ StreamStep => TypeInv'
<1> SUFFICES ASSUME TypeInv PROVE StreamStep => TypeInv'
  OBVIOUS
<1> USE DEF TypeInv
<1>0. Healthy(acct) \in Account
  BY GateTypes, SomeReasons DEF Healthy, AccountOK, Exposed
<1>1. ASSUME OpenSession PROVE TypeInv'
  BY <1>0, <1>1 DEF OpenSession, PositionOK, RowsOK, AccountOK, BrokerOK, RestOK, KindsOK,
                    projection, broker, history
<1>2. ASSUME LoseSession PROVE TypeInv'
  <2> DEFINE S == {c \in Commands : record[c].state = "SENT"}
  <2>1. Doubtful(S)
    BY <1>2 DEF LoseSession
  <2> HIDE DEF S
  <2>2. /\ cmd' \in [Commands -> CommandRows] /\ record' \in [Commands -> RecordRows]
        /\ pos' \in Positions /\ AccountOK'
        /\ \A c \in Commands :
               /\ cmd'[c].kind = cmd[c].kind /\ cmd'[c].stop = cmd[c].stop
               /\ c \notin S => cmd'[c] = cmd[c] /\ record'[c] = record[c]
               /\ c \in S => cmd'[c].status = "UNKNOWN" /\ record'[c].state = "UNKNOWN"
    BY <2>1, DoubtfulTypes
  <2>3. \A c \in S : record[c].state # "NONE" /\ cmd[c].kind # "NONE"
    BY DEF S, KindsOK
  <2>4. KindsOK'
    <3>1. \A c \in wire : c \in Commands /\ record'[c].state # "NONE"
      BY <2>2 DEF KindsOK, RowsOK
    <3>2. \A c \in Commands : record'[c].state # "NONE" => record[c].state # "NONE"
      BY <2>2, <2>3
    <3> QED BY <1>2, <2>2, <2>3, <3>1, <3>2, KindsKept DEF LoseSession, broker, RestOK
  <2> QED BY <1>2, <2>2, <2>4 DEF LoseSession, PositionOK, RowsOK, BrokerOK, RestOK, broker,
     history
<1>3. ASSUME Heartbeat PROVE TypeInv'
  BY <1>0, <1>3 DEF Heartbeat, PositionOK, RowsOK, AccountOK, BrokerOK, RestOK, KindsOK,
                    projection, stream, broker, history
<1>4. ASSUME NEW c \in Commands, Prepare(c) PROVE TypeInv'
  <2> DEFINE r == [state |-> "QUEUED",
                   volume |-> IF cmd[c].volume = 0 THEN pos.remaining ELSE cmd[c].volume]
  <2>1. r \in RecordRows /\ r.state = "QUEUED"
    BY DEF RowsOK, CommandRows, PositionOK, Positions, RecordRows
  <2>2. record' = [record EXCEPT ![c] = r] /\ prepared' = Append(prepared, c)
    BY <1>4 DEF Prepare
  <2> HIDE DEF r
  <2>3. prepared' \in Seq(Commands) /\ record' \in [Commands -> RecordRows]
    BY <2>1, <2>2 DEF RowsOK
  <2>4. KindsOK'
    BY <1>4, <2>1, <2>2 DEF Prepare, KindsOK, RowsOK, stream, broker
  <2> QED BY <1>4, <2>3, <2>4
          DEF Prepare, PositionOK, RowsOK, AccountOK, BrokerOK, RestOK, doubt, stream, broker,
             history
<1>5. ASSUME NEW c \in Commands, MarkSent(c) PROVE TypeInv'
  <2>1. /\ record[c].state = "QUEUED" /\ record' = [record EXCEPT ![c].state = "SENT"]
        /\ record \in [Commands -> RecordRows]
    BY <1>5 DEF MarkSent, FirstOf, RowsOK
  <2>2. /\ record' \in [Commands -> RecordRows] /\ record'[c].state = "SENT"
        /\ \A d \in Commands \ {c} : record'[d] = record[d]
    BY <2>1, StateSet
  <2>3. KindsOK'
    BY <1>5, <2>1, <2>2 DEF MarkSent, KindsOK, RowsOK, broker
  <2> QED BY <1>5, <2>2, <2>3 DEF MarkSent, PositionOK, RowsOK, AccountOK, BrokerOK, RestOK,
                                  doubt, broker, Overtakes
<1>6. ASSUME NEW c \in Commands, Execute(c) PROVE TypeInv'
  <2>1. c \in wire /\ cmd[c].kind \in {"CLOSE", "PROTECTION"}
    BY <1>6 DEF Execute, FirstOf, KindsOK
  <2>2. cmd[c].kind # "CLOSE" => cmd[c].stop \in 1..MaxStop
    BY <2>1 DEF KindsOK, RowsOK, CommandRows
  <2>3. BrokerOK' /\ \A d \in Commands \ {c} : did'[d] = did[d]
    BY <1>6, <2>1, <2>2, ClosesTypes, MovesTypes DEF Execute
  <2>4. KindsOK'
    BY <1>6, <2>1, <2>3 DEF Execute, KindsOK, projection, RowsOK
  <2> QED BY <1>6, <2>3, <2>4
          DEF Execute, PositionOK, RowsOK, AccountOK, RestOK, projection, doubt, history
<1>7. ASSUME NEW c \in Commands, NEW clear \in BOOLEAN, Result(c, clear) PROVE TypeInv'
  <2>1. record[c].state = "SENT" /\ cmd[c].kind # "NONE"
    BY <1>7 DEF Result, FirstOf, KindsOK
  <2>2. CASE ~clear
    <3>1. Doubtful({c})
      BY <1>7, <2>2 DEF Result
    <3>2. /\ cmd' \in [Commands -> CommandRows] /\ record' \in [Commands -> RecordRows]
          /\ pos' \in Positions /\ AccountOK'
          /\ \A d \in Commands :
                 /\ cmd'[d].kind = cmd[d].kind /\ cmd'[d].stop = cmd[d].stop
                 /\ d \notin {c} => cmd'[d] = cmd[d] /\ record'[d] = record[d]
                 /\ d \in {c} => cmd'[d].status = "UNKNOWN" /\ record'[d].state = "UNKNOWN"
      BY <3>1, DoubtfulTypes
    <3>3. KindsOK'
      <4>1. \A d \in wire : d \in Commands /\ record'[d].state # "NONE"
        BY <3>2 DEF KindsOK, RowsOK
      <4> QED BY <1>7, <2>1, <3>2, <4>1, KindsKept DEF Result, stream, broker, RestOK
    <3> QED BY <1>7, <3>2, <3>3
            DEF Result, PositionOK, RowsOK, BrokerOK, RestOK, stream, broker, history
  <2>3. CASE clear
    <3>1. Accepted(pos, c) \in Positions
      BY AcceptedTypes
    <3>2. /\ \E st \in Statuses : cmd' = [cmd EXCEPT ![c].status = st]
          /\ \E st \in RecordStates : st # "NONE" /\ record' = [record EXCEPT ![c].state = st]
      BY <1>7, <2>3 DEF Result
    <3>3. record \in [Commands -> RecordRows]
      BY DEF RowsOK
    <3>4. /\ record' \in [Commands -> RecordRows]
          /\ record'[c].state # "NONE" /\ \A d \in Commands \ {c} : record'[d] = record[d]
      <4>1. PICK st \in RecordStates :
                st # "NONE" /\ record' = [record EXCEPT ![c].state = st]
        BY <3>2
      <4>2. /\ record' \in [Commands -> RecordRows] /\ record'[c].state = st
            /\ \A d \in Commands \ {c} : record'[d] = record[d]
        BY ONLY <3>3, <4>1, StateSet, c \in Commands, st \in RecordStates
      <4> QED BY <4>1, <4>2
    <3>5. \A d \in wire : record'[d].state # "NONE"
      BY <3>4 DEF KindsOK, RowsOK
    <3>6. pos' \in Positions
      BY <1>7, <2>3, <3>1 DEF Result, PositionOK
    <3> QED BY <1>7, <2>1, <2>3, <3>2, <3>4, <3>5, <3>6, OneStatus
            DEF Result, AccountOK, RestOK, doubt, history
  <2> QED BY <2>2, <2>3
<1> QED BY <1>1, <1>2, <1>3, <1>4, <1>5, <1>6, <1>7 DEF StreamStep

LEMMA TypeExit == TypeInv /\ ExitFills => TypeInv'
<1> SUFFICES ASSUME TypeInv, NEW d \in Commands \cup ExitDeals PROVE
      /\ \A s \in {"TP1", "TP2", "RUNNER", "CLOSE"} : RecordExitFill(d, s) => TypeInv'
      /\ \A v \in 1..Lots : BrokerReduces(d, v) => TypeInv'
  BY DEF ExitFills
<1> USE DEF TypeInv
<1>1. ASSUME NEW s \in {"TP1", "TP2", "RUNNER", "CLOSE"}, RecordExitFill(d, s) PROVE TypeInv'
  <2>1. pos.remaining - deal[d] \in 0..Lots
    BY <1>1 DEF RecordExitFill, PositionOK, Positions
  <2>2. PICK st \in Stages :
            pos' = [pos EXCEPT !.remaining = pos.remaining - deal[d], !.stage = st]
    <3>1. pos.stage \in Stages
      BY DEF PositionOK, Positions
    <3> QED BY <1>1, <3>1 DEF RecordExitFill
  <2>3. pos' \in Positions
    BY <2>1, <2>2 DEF PositionOK, Positions
  <2> QED BY <1>1, <2>3 DEF RecordExitFill, PositionOK, RowsOK, AccountOK, BrokerOK,
                            RestOK, KindsOK, doubt, stream, broker, history
<1>2. ASSUME NEW v \in 1..Lots, BrokerReduces(d, v) PROVE TypeInv'
  <2>1. real.volume - v \in 0..Lots /\ v \in 0..Lots
    BY <1>2 DEF BrokerReduces, BrokerOK
  <2>2. BrokerOK'
    BY <1>2, <2>1 DEF BrokerReduces, BrokerOK
  <2> QED BY <1>2, <2>2 DEF BrokerReduces, PositionOK, RowsOK, AccountOK, RestOK, KindsOK,
                            projection, doubt, stream, history
<1> QED BY <1>1, <1>2

\* What a snapshot makes of the commands.
LEMMA ObservedTypes ==
  ASSUME RowsOK, BrokerOK, KindsOK, NEW S, NEW D,
         S \subseteq {c \in Commands : cmd[c].status = "UNKNOWN" \/ did[c] # "nothing"}
  PROVE  LET cs == ObserveCommands(S, D)
         IN  /\ cs \in [Commands -> CommandRows]
             /\ \A c \in Commands :
                    /\ cs[c].kind = cmd[c].kind /\ cs[c].volume = cmd[c].volume
                    /\ cs[c].stop = cmd[c].stop
                    /\ c \notin Heard(S, D) => cs[c] = cmd[c]
                    /\ c \in Heard(S, D) => /\ cs[c].status = Reported(c, D)
                                            /\ cs[c].status \in {"CONFIRMED", "REJECTED"}
                                            /\ cmd[c].kind # "NONE"
             /\ Heard(S, D) \subseteq S
<1> DEFINE cs == ObserveCommands(S, D)
<1>1. /\ cs = [c \in Commands |-> cs[c]]
      /\ \A c \in Commands : cs[c] = IF c \in Heard(S, D)
             THEN [cmd[c] EXCEPT !.status = Reported(c, D)] ELSE cmd[c]
  BY DEF ObserveCommands
<1> HIDE DEF cs
<1>2. \A c \in Commands : Reported(c, D) \in {"CONFIRMED", "REJECTED"} /\ cmd[c] \in CommandRows
  BY DEF Reported, Verdict, RowsOK
<1>3. ASSUME NEW c \in Commands
      PROVE  /\ cs[c] \in CommandRows
             /\ cs[c].kind = cmd[c].kind /\ cs[c].volume = cmd[c].volume
             /\ cs[c].stop = cmd[c].stop
             /\ c \in Heard(S, D) => cs[c].status = Reported(c, D)
  <2>1. CASE c \notin Heard(S, D)
    BY <1>1, <1>2, <2>1
  <2>2. CASE c \in Heard(S, D)
    <3>1. /\ cmd[c] \in CommandRows /\ Reported(c, D) \in {"CONFIRMED", "REJECTED"}
          /\ cs[c] = [cmd[c] EXCEPT !.status = Reported(c, D)]
      BY <1>1, <1>2, <2>2
    <3>2. /\ cs[c] \in CommandRows /\ cs[c].status = Reported(c, D)
          /\ cs[c].kind = cmd[c].kind /\ cs[c].volume = cmd[c].volume
          /\ cs[c].stop = cmd[c].stop
      BY ONLY <3>1, RowSet DEF Statuses
    <3> QED BY <3>2
  <2> QED BY <2>1, <2>2
<1>4. cs \in [Commands -> CommandRows]
  BY <1>1, <1>3
<1>5. \A c \in Commands : c \notin Heard(S, D) => cs[c] = cmd[c]
  BY <1>1
<1>6. Heard(S, D) \subseteq S /\ \A c \in S : cmd[c].kind # "NONE"
  BY DEF Heard, KindsOK
<1>7. \A c \in Heard(S, D) : cs[c].status \in {"CONFIRMED", "REJECTED"} /\ cmd[c].kind # "NONE"
  BY <1>2, <1>3, <1>6
<1> QED BY <1>3, <1>4, <1>5, <1>6, <1>7 DEF cs

\* What every snapshot does, cut short or not: commands are settled, and the position
\* is projected, or left behind.
Seen(S, D) ==
    /\ Snapshot(S) /\ D \subseteq Deniable(S)
    /\ cmd' = ObserveCommands(S, D) /\ work' = WorkAfter(Heard(S, D), cmd')
    /\ denied' = DeniedAfter(S, D)
    /\ \/ /\ \E p \in ObserveTrails(S, D) \cup {pos} : pos' = Project(p)
          /\ known' = known \cup Made /\ overtaken' = overtaken
       \/ /\ transport = "stream" /\ session' = "seen" /\ pos' = pos /\ known' = known
          /\ overtaken' \in BOOLEAN /\ (~overtaken' => ~overtaken /\ cmd' = cmd)
    /\ transport = "direct" => session' = session
    /\ transport = "stream" => /\ session' \in {"seen", "ready"}
                               /\ session' = "ready" => Reconciled(S, work')
    /\ UNCHANGED <<transport, record, prepared, underFence, inflight, wire, orphans,
                   broker, restarts>>

LEMMA SnapshotsSee ==
  ASSUME TypeInv, NEW S \in SUBSET Commands, NEW D \in SUBSET Deniable(S),
         \/ \E complete \in BOOLEAN : Observe(S, D, complete)
         \/ \E projected \in BOOLEAN : ObserveRaises(S, D, projected)
  PROVE  Seen(S, D)
<1>t. transport \in {"direct", "stream"} /\ overtaken \in BOOLEAN
  BY DEF TypeInv, PositionOK, RestOK
<1>1. ASSUME NEW complete \in BOOLEAN, Observe(S, D, complete) PROVE Seen(S, D)
  <2>1. /\ \E p \in ObserveTrails(S, D) : pos' = Project(p)
        /\ cmd' = ObserveCommands(S, D) /\ work' = WorkAfter(Heard(S, D), cmd')
    BY <1>1 DEF Observe
  <2> QED BY <1>1, <1>t, <2>1 DEF Observe, Seen
<1>2. ASSUME NEW projected \in BOOLEAN, ObserveRaises(S, D, projected) PROVE Seen(S, D)
  <2>1. cmd' = ObserveCommands(S, D) /\ work' = WorkAfter(Heard(S, D), cmd')
    BY <1>2 DEF ObserveRaises
  <2>2. CASE projected
    <3>1. pos' = Project(pos) /\ known' = known \cup Made /\ overtaken' = overtaken
      BY <1>2, <1>t, <2>2 DEF ObserveRaises
    <3> QED BY <1>2, <1>t, <2>1, <3>1 DEF ObserveRaises, Seen
  <2>3. CASE ~projected
    <3>1. /\ pos' = pos /\ known' = known /\ overtaken' \in BOOLEAN
          /\ ~overtaken' => ~overtaken /\ cmd' = cmd
      BY <1>2, <1>t, <2>3 DEF ObserveRaises
    <3> QED BY <1>2, <1>t, <2>1, <3>1 DEF ObserveRaises, Seen
  <2> QED BY <2>2, <2>3
<1> QED BY <1>1, <1>2

LEMMA ReconcilesBy ==
  ASSUME TypeInv, Reconciliation
  PROVE  \/ \E c \in Commands :
                RecoverCommand(c) \/ MarkUnknown(c) \/ ConfirmTrailing(c) \/ Escalate(c)
         \/ \E S, D \in SUBSET Commands : Seen(S, D)
         \/ ConfirmProtection \/ \E repaired \in BOOLEAN : RepairProtection(repaired)
<1>1. ASSUME NEW S \in SUBSET Commands, NEW D \in SUBSET Deniable(S),
             \/ \E complete \in BOOLEAN : Observe(S, D, complete)
             \/ \E projected \in BOOLEAN : ObserveRaises(S, D, projected)
      PROVE  \E E \in SUBSET Commands : Seen(S, E)
  <2>1. D \in SUBSET Commands
    BY DEF Deniable
  <2> QED BY <1>1, <2>1, SnapshotsSee
<1> QED BY <1>1 DEF Reconciliation

LEMMA SeenPosition ==
  ASSUME TypeInv, NEW S \in SUBSET Commands, NEW D, Seen(S, D)
  PROVE  /\ \A p \in ObserveTrails(S, D) \cup {pos} :
                p \in Positions /\ (p = pos \/ \E c \in Commands : p = TrailTo(pos, c))
         /\ pos' \in Positions
<1>t. pos \in Positions /\ RowsOK /\ KindsOK /\ BrokerOK
  BY DEF TypeInv, PositionOK
<1>1. \A p \in ObserveTrails(S, D) \cup {pos} :
          p = pos \/ \E c \in Commands : p = TrailTo(pos, c)
  BY DEF ObserveTrails, Heard
<1>2. \A p \in ObserveTrails(S, D) \cup {pos} : p \in Positions
  BY <1>t, <1>1, TrailTypes
<1>3. pos' \in Positions
  BY <1>t, <1>2, ProjectTypes DEF Seen
<1> QED BY <1>1, <1>2, <1>3

LEMMA ProjectedTypes ==
  ASSUME NEW a \in Account, NEW q
  PROVE  ProjectedAccount(a, q) \in Account
<1>1. [a EXCEPT !.gate = "QUARANTINED"] \in Account
  BY GateTypes, SomeReasons
<1>2. SetInterlock([a EXCEPT !.gate = "QUARANTINED"], ProtectionReasons, FALSE) \in Account
  BY <1>1, GateTypes, SomeReasons
<1> QED BY <1>2 DEF ProjectedAccount

LEMMA TypeReconciliation == TypeInv /\ Reconciliation => TypeInv'
<1> SUFFICES ASSUME TypeInv PROVE Reconciliation => TypeInv'
  OBVIOUS
<1> USE DEF TypeInv
<1>0. /\ pos \in Positions /\ acct \in Account /\ underFence \in BOOLEAN
      /\ DoubtPosition(pos) \in Positions /\ DoubtAccount(acct) \in Account
  BY DoubtTypes DEF PositionOK, AccountOK, DoubtPosition, Positions
<1>1. ASSUME NEW c \in Commands, RecoverCommand(c) PROVE TypeInv'
  <2>1. /\ cmd[c].kind # "NONE" /\ cmd \in [Commands -> CommandRows]
        /\ Verdict(c) \in Statuses
    BY <1>1 DEF RecoverCommand, RowsOK, Verdict
  <2>2. /\ work' \in [Commands -> WorkStates]
        /\ \A p \in Positions : CompleteWork({c}, acct, cmd', p) \in Account
    BY <1>0, <1>1, CompleteTypes DEF RecoverCommand
  <2>3. pos' \in Positions
    <3>1. TrailTo(pos, c) \in Positions
      BY <1>0, TrailTypes
    <3> QED BY <1>0, <1>1, <3>1 DEF RecoverCommand
  <2>4. acct' \in Account
    <3>1. CompleteWork({c}, acct, cmd', pos') \in Account
      BY <2>2, <2>3
    <3>2. acct' = CompleteRestart(CompleteWork({c}, acct, cmd', pos'),
                                  Unresolved(work') # {})
      BY <1>1 DEF RecoverCommand
    <3> QED BY <3>1, <3>2, GateTypes, SomeReasons
  <2>5. AccountOK'
    BY <1>1, <2>2, <2>4 DEF RecoverCommand, AccountOK
  <2>6. CASE cmd' = [cmd EXCEPT ![c].status = Verdict(c)]
    <3>1. /\ record' \in [Commands -> RecordRows] /\ \A d \in wire : record'[d].state # "NONE"
          /\ \A d \in Commands : record'[d].state # "NONE" => record[d].state # "NONE"
          /\ inflight' = inflight /\ overtaken' \in BOOLEAN /\ denied' = denied
          /\ known' \subseteq Commands \cup ExitDeals
          /\ UNCHANGED <<transport, prepared, stream, broker, restarts>>
      BY <1>1 DEF RecoverCommand, RowsOK, KindsOK, RestOK, history
    <3> HIDE DEF TypeInv
    <3> QED BY <2>1, <2>3, <2>5, <2>6, <3>1, OneStatus
  <2>7. CASE cmd' = cmd
    BY <1>1, <2>3, <2>5, <2>7 DEF RecoverCommand, PositionOK, RowsOK, BrokerOK, RestOK,
                                  KindsOK, stream, broker, history
  <2> QED BY <1>1, <2>6, <2>7 DEF RecoverCommand
<1>2. ASSUME NEW c \in Commands, MarkUnknown(c) PROVE TypeInv'
  <2>1. AccountOK'
    BY <1>0, <1>2, UnknownTypes DEF MarkUnknown
  <2> QED BY <1>0, <1>2, <2>1 DEF MarkUnknown, PositionOK, RowsOK, BrokerOK, RestOK, KindsOK,
                                  stream, broker, history
<1>3. ASSUME NEW c \in Commands, ConfirmTrailing(c) PROVE TypeInv'
  <2>1. cmd[c].stop \in 1..MaxStop
    BY <1>3 DEF ConfirmTrailing, KindsOK, RowsOK, CommandRows
  <2>2. pos' \in Positions
    BY <1>3, <2>1 DEF ConfirmTrailing, PositionOK, Positions
  <2> QED BY <1>3, <2>2, OneStatus DEF ConfirmTrailing, AccountOK, RowsOK, RestOK, KindsOK, doubt,
     history
<1>4. ASSUME NEW c \in Commands, Escalate(c) PROVE TypeInv'
  <2>1. work' \in [Commands -> WorkStates]
    BY <1>4 DEF Escalate, AccountOK
  <2> QED BY <1>4, <2>1 DEF Escalate, PositionOK, RowsOK, AccountOK, BrokerOK, RestOK, KindsOK,
                            projection, stream, broker, history
<1>5. ASSUME NEW S \in SUBSET Commands, NEW D \in SUBSET Deniable(S),
             \/ \E complete \in BOOLEAN : Observe(S, D, complete)
             \/ \E projected \in BOOLEAN : ObserveRaises(S, D, projected)
      PROVE  TypeInv'
  <2> DEFINE cs == ObserveCommands(S, D)
             H == Heard(S, D)
             left == Unresolved(WorkAfter(H, cs)) # {}
  <2>1. Seen(S, D)
    <3> HIDE DEF TypeInv
    <3> QED BY <1>5, SnapshotsSee
  <2>2. /\ pos' \in Positions
        /\ \A p \in ObserveTrails(S, D) \cup {pos} : p \in Positions
    <3> HIDE DEF TypeInv
    <3> QED BY <2>1, SeenPosition
  <2>3. \A p \in Positions : /\ CompleteWork(H, acct, cs, p) \in Account
                             /\ WorkAfter(H, cs) \in [Commands -> WorkStates]
    BY <1>0, CompleteTypes
  <2>4. left \in BOOLEAN /\ \A q : Unconfirmed(q) \in BOOLEAN
    BY DEF Unconfirmed
  <2> HIDE DEF left
  <2>5. ASSUME NEW a \in Account, NEW q
        PROVE  LET b == RestoreTemporary(a, left, Unconfirmed(q), underFence)
               IN  b \in Account /\ CompleteRestart(b, left) \in Account
    <3>1. RestoreTemporary(a, left, Unconfirmed(q), underFence) \in Account
      BY <1>0, <2>4, GateTypes, SomeReasons
    <3> QED BY <2>4, <3>1, GateTypes, SomeReasons
  <2>6. acct' \in Account
    <3>1. ASSUME NEW complete \in BOOLEAN, Observe(S, D, complete) PROVE acct' \in Account
      <4>1. PICK p \in ObserveTrails(S, D) :
                LET q == Project(p)
                    a == ProjectedAccount(CompleteWork(H, acct, cs, p), q)
                    b == RestoreTemporary(a, left, Unconfirmed(q), underFence)
                IN  acct' = IF complete THEN CompleteRestart(b, left) ELSE b
        BY <3>1 DEF Observe, left
      <4>2. ProjectedAccount(CompleteWork(H, acct, cs, p), Project(p)) \in Account
        BY <2>2, <2>3, ProjectedTypes
      <4> QED BY <2>5, <4>1, <4>2
    <3>2. ASSUME NEW projected \in BOOLEAN, ObserveRaises(S, D, projected)
          PROVE  acct' \in Account
      <4>1. CompleteWork(H, acct, cs, pos) \in Account
        BY <1>0, <2>3
      <4> QED BY <3>2, <4>1, ProjectedTypes DEF ObserveRaises
    <3> QED BY <1>5, <3>1, <3>2
  <2>7. /\ cs \in [Commands -> CommandRows]
        /\ \A c \in Commands :
               /\ cs[c].kind = cmd[c].kind /\ cs[c].stop = cmd[c].stop
               /\ c \notin H => cs[c] = cmd[c]
               /\ c \in H => cmd[c].kind # "NONE"
        /\ H \subseteq S
    <3>1. S \subseteq {c \in Commands : cmd[c].status = "UNKNOWN" \/ did[c] # "nothing"}
      BY <2>1 DEF Seen, Snapshot
    <3> QED BY <3>1, ObservedTypes
  <2>8. cmd' = cs /\ work' = WorkAfter(H, cs)
    BY <2>1 DEF Seen
  <2> HIDE DEF cs, H
  <2>9. KindsOK'
    BY <2>1, <2>7, <2>8, KindsKept DEF Seen, KindsOK, RowsOK, RestOK, broker
  <2>10. work' \in [Commands -> WorkStates]
    BY <1>0, <2>3, <2>8
  <2>11. /\ denied' \subseteq Commands /\ known' \subseteq Commands \cup ExitDeals
         /\ overtaken' \in BOOLEAN /\ session' \in {"closed", "open", "seen", "ready"}
    BY <2>1 DEF Seen, DeniedAfter, Heard, Made, RestOK, PositionOK
  <2> QED BY <2>1, <2>2, <2>6, <2>7, <2>8, <2>9, <2>10, <2>11
          DEF Seen, PositionOK, RowsOK, AccountOK, BrokerOK, RestOK, broker
<1>6. ASSUME ConfirmProtection PROVE TypeInv'
  <2>1. RemoveReasons(acct, ProtectionReasons, FALSE, underFence) \in Account
    BY <1>0, GateTypes, SomeReasons
  <2>2. /\ [RemoveReasons(acct, ProtectionReasons, FALSE, underFence)
              EXCEPT !.gate = "QUARANTINED"] \in Account
        /\ RestoreTemporary(RemoveReasons(acct, ProtectionReasons, FALSE, underFence),
                            FALSE, FALSE, underFence) \in Account
    BY <1>0, <2>1, GateTypes, SomeReasons
  <2>3. acct' \in Account
    BY <1>6, <2>2 DEF ConfirmProtection
  <2>4. pos' \in Positions
    BY <1>6 DEF ConfirmProtection, PositionOK, Positions
  <2> QED BY <1>6, <2>3, <2>4 DEF ConfirmProtection, PositionOK, RowsOK, AccountOK, BrokerOK,
                                  RestOK, KindsOK, stream, broker, history
<1>7. ASSUME NEW repaired \in BOOLEAN, RepairProtection(repaired) PROVE TypeInv'
  <2>1. acct' \in Account
    <3>1. /\ Fence(acct) \in Account
          /\ RemoveReasons(acct, ProtectionReasons, FALSE, underFence) \in Account
      BY <1>0, GateTypes, SomeReasons
    <3>2. SetInterlock(Fence(acct), {"NATIVE_PROTECTION_UNVERIFIED"}, TRUE) \in Account
      BY <3>1, GateTypes, SomeReasons
    <3> QED BY <1>7, <3>1, <3>2 DEF RepairProtection
  <2>2. pos' \in Positions
    <3>1. [pos EXCEPT !.prot = "CONFIRMED", !.stop = pos.native] \in Positions
      BY DEF PositionOK, Positions
    <3> QED BY <1>0, <1>7, <3>1 DEF RepairProtection
  <2>3. real' \in [volume : 0..Lots, stop : 1..MaxStop] /\ overtaken' \in BOOLEAN
    <3>1. real' = [real EXCEPT !.stop = pos.native] \/ real' = real
      BY <1>7 DEF RepairProtection
    <3>2. overtaken' \in BOOLEAN
      BY <1>7 DEF RepairProtection, Overtakes, RestOK, history
    <3> QED BY <3>1, <3>2 DEF BrokerOK, PositionOK, Positions
  <2> QED BY <1>7, <2>1, <2>2, <2>3 DEF RepairProtection, PositionOK, RowsOK, AccountOK,
                                        BrokerOK, RestOK, KindsOK, stream, history
<1> QED BY <1>1, <1>2, <1>3, <1>4, <1>5, <1>6, <1>7 DEF Reconciliation

LEMMA TypeRestart == TypeInv /\ Restart => TypeInv'
<1> SUFFICES ASSUME TypeInv, Restart PROVE TypeInv'
  OBVIOUS
<1> USE DEF TypeInv
<1> DEFINE doubtful == {c \in Commands : cmd[c].status \in {"DISPATCHING", "UNKNOWN"}}
<1>1. /\ cmd' = [c \in Commands |-> IF c \in doubtful
                     THEN [cmd[c] EXCEPT !.status = "UNKNOWN"] ELSE cmd[c]]
      /\ RecordUnknown(doubtful, BeginRestart(acct))
  BY DEF Restart
<1>2. \A c \in doubtful : c \in Commands /\ cmd[c].kind # "NONE"
  BY DEF KindsOK
<1> HIDE DEF doubtful
<1>3. BeginRestart(acct) \in Account
  BY GateTypes, SomeReasons DEF AccountOK
<1>4. AccountOK'
  BY <1>1, <1>3, UnknownTypes
<1>5. \A r \in CommandRows :
          LET q == [r EXCEPT !.status = "UNKNOWN"]
          IN  q \in CommandRows /\ q.kind = r.kind /\ q.stop = r.stop
  BY DEF CommandRows
<1>6. /\ cmd' \in [Commands -> CommandRows]
      /\ \A c \in Commands : /\ cmd'[c].kind = cmd[c].kind /\ cmd'[c].stop = cmd[c].stop
                             /\ c \notin doubtful => cmd'[c] = cmd[c]
  BY <1>1, <1>5 DEF RowsOK
<1>7. KindsOK'
  BY <1>2, <1>6, KindsKept DEF Restart, KindsOK, RowsOK, RestOK, broker
<1>8. restarts' \in 0..MaxRestarts
  <2>1. MaxRestarts \in Nat /\ restarts \in Nat
    BY DEF RestOK
  <2> QED BY <2>1 DEF Restart
<1> QED BY <1>4, <1>6, <1>7, <1>8 DEF Restart, PositionOK, RowsOK, BrokerOK, RestOK, broker,
   history

LEMMA TypeStep == TypeInv /\ [Next]_vars => TypeInv'
<1>1. TypeInv /\ UNCHANGED vars => TypeInv'
  BY DEF vars, projection, doubt, stream, broker, TypeInv, PositionOK, RowsOK, AccountOK,
         BrokerOK, RestOK, KindsOK, history
<1> QED BY <1>1, TypeRequests, TypeDispatch, TypeStream, TypeExit, TypeReconciliation,
           TypeRestart DEF Next

\* Type correctness: the position, its commands and their records, the account and
\* the broker keep their types.
THEOREM TypeCorrect == Spec => []TypeOK
<1>1. Spec => []TypeInv
  BY TypeInit, TypeStep, PTL DEF Spec
<1> QED BY <1>1, TypeInvIsEnough, PTL

-----------------------------------------------------------------------------
(* A command in doubt has work.                                            *)

\* A command is DISPATCHING only while its call is in progress.
Called == \A c \in Commands : cmd[c].status = "DISPATCHING" => inflight = c
Remembered == \A c \in Commands : cmd[c].status = "UNKNOWN" => c \in Unresolved(work)

DoubtInv == TypeInv /\ Called /\ Remembered

\* The status of one command is set; the others keep theirs, and their work.
LEMMA OneDoubt ==
  ASSUME DoubtInv, NEW c \in Commands, NEW st \in Statuses,
         cmd' = [cmd EXCEPT ![c].status = st],
         st = "DISPATCHING" => inflight' = c,
         st = "UNKNOWN" => c \in Unresolved(work'),
         inflight' = inflight \/ inflight \in {c, NoCommand},
         \A d \in Commands \ {c} : d \in Unresolved(work) => d \in Unresolved(work')
  PROVE  Called' /\ Remembered'
<1>1. /\ cmd'[c].status = st /\ \A d \in Commands \ {c} : cmd'[d] = cmd[d]
      /\ NoCommand \notin Commands
  <2>1. cmd' = [cmd EXCEPT ![c].status = st] /\ cmd \in [Commands -> CommandRows]
    BY DEF DoubtInv, TypeInv, RowsOK
  <2> QED BY ONLY <2>1, StatusSet, PositionAssumption, c \in Commands, st \in Statuses
<1>2. Called'
  BY <1>1 DEF DoubtInv, Called
<1>3. Remembered'
  BY <1>1 DEF DoubtInv, Remembered
<1> QED BY <1>2, <1>3

LEMMA UnknownWork ==
  ASSUME AccountOK, NEW S \in SUBSET Commands, NEW a, RecordUnknown(S, a)
  PROVE  \A c \in Commands :
             c \in S \/ c \in Unresolved(work) => c \in Unresolved(work')
  BY DEF RecordUnknown, Unresolved, AccountOK

LEMMA DoubtfulWork ==
  ASSUME AccountOK, NEW S \in SUBSET Commands, Doubtful(S)
  PROVE  \A c \in Commands :
             c \in S \/ c \in Unresolved(work) => c \in Unresolved(work')
  BY DEF Doubtful, Unresolved, AccountOK

LEMMA SettledWork ==
  ASSUME AccountOK, NEW S \in SUBSET Commands, NEW cs, work' = WorkAfter(S, cs)
  PROVE  \A c \in Commands :
             c \in Unresolved(work) => \/ c \in Unresolved(work')
                                       \/ c \in S /\ cs[c].status # "UNKNOWN"
  BY DEF WorkAfter, Converged, Unresolved, AccountOK

\* Commands and work as they were, a call no longer in progress only when it was none.
LEMMA StillDoubt ==
  ASSUME DoubtInv, inflight' = inflight, work' = work,
         \A c \in Commands : cmd'[c].status \in {"DISPATCHING", "UNKNOWN"} => cmd'[c] = cmd[c]
  PROVE  Called' /\ Remembered'
  BY DEF DoubtInv, Called, Remembered

LEMMA DoubtStep == DoubtInv /\ [Next]_vars => DoubtInv'
<1> SUFFICES ASSUME DoubtInv, [Next]_vars PROVE Called' /\ Remembered'
  BY TypeStep DEF DoubtInv
<1>t. TypeInv /\ RowsOK /\ AccountOK /\ RestOK /\ Called /\ Remembered
  BY DEF DoubtInv, TypeInv
<1>1. CASE Requests
  <2>1. PICK c \in Commands, r \in CommandRows : RequestDone(c, r)
    BY <1>t, <1>1, RequestEffect
  <2> QED BY <1>t, <2>1, StillDoubt DEF RequestDone, doubt, RowsOK
<1>2. CASE DirectDispatch
  <2>1. ASSUME CallActs PROVE Called' /\ Remembered'
    BY <2>1, StillDoubt DEF CallActs, projection, doubt
  <2>2. ASSUME AnswerClear PROVE Called' /\ Remembered'
    <3>1. /\ inflight \in Commands
          /\ \E st \in {"CONFIRMED", "REJECTED"} : cmd' = [cmd EXCEPT ![inflight].status = st]
          /\ work' = work
      BY <1>t, <2>2 DEF AnswerClear, RestOK, doubt
    <3> QED BY <3>1, OneDoubt
  <2>3. ASSUME AnswerAmbiguous PROVE Called' /\ Remembered'
    <3>1. inflight \in Commands /\ {inflight} \in SUBSET Commands
      BY <1>t, <2>3 DEF AnswerAmbiguous, RestOK
    <3>2. \A c \in Commands :
              c \in {inflight} \/ c \in Unresolved(work) => c \in Unresolved(work')
      BY <1>t, <2>3, <3>1, UnknownWork DEF AnswerAmbiguous
    <3> QED BY <2>3, <3>1, <3>2, OneDoubt DEF AnswerAmbiguous
  <2>4. ASSUME NEW c \in Commands, BeginCall(c) PROVE Called' /\ Remembered'
    BY <2>4, OneDoubt DEF BeginCall, Unlocked, doubt
  <2>5. ASSUME NEW c \in Commands, Incapable(c) PROVE Called' /\ Remembered'
    BY <2>5, OneDoubt DEF Incapable, doubt
  <2>6. ASSUME NEW c \in Commands, DispatchSettled(c) PROVE Called' /\ Remembered'
    <3>1. \A d \in Commands : d \in Unresolved(work) =>
              d \in Unresolved(work') \/ cmd[d].status # "UNKNOWN"
      BY <1>t, <2>6, SettledWork DEF DispatchSettled
    <3> QED BY <1>t, <2>6, <3>1 DEF DispatchSettled, projection, Called, Remembered
  <2> QED BY <1>2, <2>1, <2>2, <2>3, <2>4, <2>5, <2>6 DEF DirectDispatch
<1>3. CASE StreamStep
  <2>1. ASSUME OpenSession \/ Heartbeat \/ \E c \in Commands : Prepare(c) \/ MarkSent(c) \/ Execute(c)
        PROVE  Called' /\ Remembered'
    BY <2>1, StillDoubt
       DEF OpenSession, Heartbeat, Prepare, MarkSent, Execute, projection, doubt
  <2>2. ASSUME NEW S \in SUBSET Commands, Doubtful(S), inflight' = inflight
        PROVE  Called' /\ Remembered'
    <3>1. \A c \in Commands :
              /\ c \notin S => cmd'[c] = cmd[c]
              /\ c \in S => cmd'[c].status = "UNKNOWN"
      BY <1>t, <2>2, DoubtfulTypes DEF TypeInv
    <3>2. \A c \in Commands :
              c \in S \/ c \in Unresolved(work) => c \in Unresolved(work')
      BY <1>t, <2>2, DoubtfulWork
    <3> QED BY <1>t, <2>2, <3>1, <3>2 DEF Called, Remembered
  <2>3. ASSUME LoseSession PROVE Called' /\ Remembered'
    <3>1. {c \in Commands : record[c].state = "SENT"} \in SUBSET Commands
      OBVIOUS
    <3> QED BY <2>2, <2>3, <3>1 DEF LoseSession
  <2>4. ASSUME NEW c \in Commands, NEW clear \in BOOLEAN, Result(c, clear)
        PROVE  Called' /\ Remembered'
    <3>1. CASE ~clear
      BY <2>2, <2>4, <3>1 DEF Result
    <3>2. CASE clear
      <4>1. /\ \E st \in {"CONFIRMED", "REJECTED"} : cmd' = [cmd EXCEPT ![c].status = st]
            /\ work' = work /\ inflight' = inflight
        BY <2>4, <3>2 DEF Result, doubt
      <4> QED BY <4>1, OneDoubt
    <3> QED BY <3>1, <3>2
  <2> QED BY <1>3, <2>1, <2>3, <2>4 DEF StreamStep
<1>4. CASE ExitFills
  BY <1>4, StillDoubt DEF ExitFills, RecordExitFill, BrokerReduces, projection, doubt
<1>5. CASE Reconciliation
  <2>1. ASSUME NEW c \in Commands, RecoverCommand(c) PROVE Called' /\ Remembered'
    <3>1. \A d \in Commands : d \in Unresolved(work) =>
              \/ d \in Unresolved(work')
              \/ d \in {c} /\ cmd'[d].status # "UNKNOWN"
      BY <1>t, <2>1, SettledWork DEF RecoverCommand
    <3>2. CASE cmd[c].status = "UNKNOWN"
      <4>1. /\ Verdict(c) \in {"CONFIRMED", "REJECTED"} /\ inflight' = inflight
            /\ cmd' = [cmd EXCEPT ![c].status = Verdict(c)]
        BY <2>1, <3>2 DEF RecoverCommand, Verdict
      <4> QED BY <3>1, <4>1, OneDoubt
    <3>3. CASE cmd[c].status # "UNKNOWN"
      <4>1. cmd' = cmd /\ inflight' = inflight
        BY <2>1, <3>3 DEF RecoverCommand
      <4> QED BY <1>t, <3>1, <4>1 DEF Called, Remembered
    <3> QED BY <3>2, <3>3
  <2>2. ASSUME NEW c \in Commands, MarkUnknown(c) PROVE Called' /\ Remembered'
    <3>1. \A d \in Commands : d \in Unresolved(work) => d \in Unresolved(work')
      BY <1>t, <2>2, UnknownWork DEF MarkUnknown
    <3> QED BY <1>t, <2>2, <3>1 DEF MarkUnknown, Called, Remembered
  <2>3. ASSUME NEW c \in Commands, ConfirmTrailing(c) PROVE Called' /\ Remembered'
    BY <2>3, OneDoubt DEF ConfirmTrailing, doubt
  <2>4. ASSUME NEW c \in Commands, Escalate(c) PROVE Called' /\ Remembered'
    <3>1. \A d \in Commands : d \in Unresolved(work) => d \in Unresolved(work')
      BY <1>t, <2>4 DEF Escalate, Unresolved, AccountOK
    <3> QED BY <1>t, <2>4, <3>1 DEF Escalate, projection, Called, Remembered
  <2>5. ASSUME NEW S \in SUBSET Commands, NEW D \in SUBSET Commands, Seen(S, D)
        PROVE  Called' /\ Remembered'
    <3>1. /\ cmd' = ObserveCommands(S, D) /\ inflight' = inflight
          /\ work' = WorkAfter(Heard(S, D), cmd')
          /\ S \subseteq {c \in Commands : cmd[c].status = "UNKNOWN" \/ did[c] # "nothing"}
      BY <2>5 DEF Seen, Snapshot
    <3>2. /\ \A c \in Commands :
                 /\ c \notin Heard(S, D) => cmd'[c] = cmd[c]
                 /\ c \in Heard(S, D) => cmd'[c].status \in {"CONFIRMED", "REJECTED"}
          /\ Heard(S, D) \in SUBSET Commands
      BY <1>t, <3>1, ObservedTypes DEF TypeInv
    <3>3. \A c \in Commands :
              c \in Unresolved(work) => c \in Heard(S, D) \/ c \in Unresolved(work')
      BY <1>t, <3>1, <3>2, SettledWork
    <3> QED BY <1>t, <3>1, <3>2, <3>3 DEF Called, Remembered
  <2>6. ASSUME ConfirmProtection \/ \E repaired \in BOOLEAN : RepairProtection(repaired)
        PROVE  Called' /\ Remembered'
    BY <2>6, StillDoubt DEF ConfirmProtection, RepairProtection
  <2> QED BY <1>5, <1>t, <2>1, <2>2, <2>3, <2>4, <2>5, <2>6, ReconcilesBy
\* Whatever was in progress is in doubt after a restart.
<1>6. CASE Restart
  <2> DEFINE doubtful == {c \in Commands : cmd[c].status \in {"DISPATCHING", "UNKNOWN"}}
  <2>1. /\ \A c \in Commands : cmd'[c] = IF c \in doubtful
               THEN [cmd[c] EXCEPT !.status = "UNKNOWN"] ELSE cmd[c]
        /\ RecordUnknown(doubtful, BeginRestart(acct)) /\ doubtful \in SUBSET Commands
    BY <1>6 DEF Restart
  <2>2. \A c \in Commands \ doubtful : cmd[c].status \notin {"DISPATCHING", "UNKNOWN"}
    OBVIOUS
  <2> HIDE DEF doubtful
  <2>3. \A c \in Commands : c \in doubtful => c \in Unresolved(work')
    BY <1>t, <2>1, UnknownWork
  <2>4. \A c \in Commands : cmd'[c].status # "DISPATCHING"
                            /\ (cmd'[c].status = "UNKNOWN" => c \in doubtful)
    <3>1. \A c \in doubtful : cmd'[c].status = "UNKNOWN"
      BY <1>t, <2>1 DEF RowsOK, CommandRows
    <3> QED BY <2>1, <2>2, <3>1
  <2> QED BY <2>3, <2>4 DEF Called, Remembered
<1>7. CASE UNCHANGED vars
  BY <1>7, StillDoubt DEF vars, projection, doubt
<1> QED BY <1>1, <1>2, <1>3, <1>4, <1>5, <1>6, <1>7 DEF Next

LEMMA DoubtInitially == Init => DoubtInv
  BY TypeInit DEF Init, DoubtInv, Called, Remembered, NoCommandRow

\* A position command whose outcome nobody knows has work that somebody will look
\* at, also after a crash in the middle of the call.
THEOREM DoubtIsRemembered == Spec => []DoubtHasWork
<1>1. Spec => []DoubtInv
  BY DoubtInitially, DoubtStep, PTL DEF Spec
<1>2. DoubtInv => DoubtHasWork
  BY DEF DoubtInv, Called, Remembered, DoubtHasWork
<1> QED BY <1>1, <1>2, PTL

-----------------------------------------------------------------------------
(* The confirmed stop is the broker's: over an adapter.                    *)

Open == {c \in Commands : cmd[c].status \in {"DISPATCHING", "UNKNOWN"}}
\* a trail in doubt that has moved the stop
Trailing(c) == c \in Open /\ cmd[c].kind = "TRAIL" /\ did[c] = "done"

\* There is no stream, and what was not begun has done nothing.
Quiet ==
    /\ \A c \in Commands : record[c].state = "NONE"
    /\ wire = {} /\ orphans = {} /\ session = "closed"
    /\ \A c \in Commands : cmd[c].status = "RECEIVED" => did[c] = "nothing"
    /\ inflight # NoCommand => cmd[inflight].status = "DISPATCHING"

\* As long as nothing is overtaken one command at most is open, and the stop is the
\* confirmed one, or that of the open command.
OneOpen == ~overtaken => \A c, d \in Open : c = d
StopsOK ==
    ~overtaken /\ real.volume > 0 =>
        /\ \A c \in Commands : Trailing(c) => real.stop = cmd[c].stop
        /\ pos.prot = "CONFIRMED" /\ pos.stop # real.stop => \E c \in Commands : Trailing(c)

DirectOK == transport = "direct" => Quiet /\ OneOpen /\ StopsOK
DirectInv == DoubtInv /\ DirectOK

LEMMA CommandSet ==
  ASSUME RowsOK, NEW c \in Commands, NEW st \in Statuses,
         cmd' = [cmd EXCEPT ![c].status = st]
  PROVE  /\ cmd'[c].status = st /\ \A d \in Commands \ {c} : cmd'[d] = cmd[d]
         /\ cmd'[c].kind = cmd[c].kind /\ cmd'[c].stop = cmd[c].stop
<1>1. cmd' = [cmd EXCEPT ![c].status = st] /\ cmd \in [Commands -> CommandRows]
  BY DEF RowsOK
<1> QED BY ONLY <1>1, StatusSet, c \in Commands, st \in Statuses

\* What is open, what trails and the stops stay, or the position is not confirmed.
LEMMA StopsKept ==
  ASSUME OneOpen, StopsOK, overtaken' = overtaken,
         \A c \in Commands : /\ c \in Open' => c \in Open
                             /\ Trailing(c)' <=> Trailing(c)
                             /\ Trailing(c) => cmd'[c].stop = cmd[c].stop,
         real'.stop = real.stop, real'.volume > 0 => real.volume > 0,
         pos'.prot = "CONFIRMED" => pos.prot = "CONFIRMED" /\ pos'.stop = pos.stop
  PROVE  OneOpen' /\ StopsOK'
<1>1. OneOpen'
  BY DEF OneOpen, Open
<1>2. StopsOK'
  BY DEF StopsOK
<1> QED BY <1>1, <1>2

\* c is settled: if it was a trail and done, its stop is confirmed.
LEMMA SettledStop ==
  ASSUME OneOpen, StopsOK, NEW c \in Open, RowsOK, UNCHANGED <<overtaken, real, did>>,
         NEW st \in {"CONFIRMED", "REJECTED"}, cmd' = [cmd EXCEPT ![c].status = st],
         pos'.prot = pos.prot,
         pos'.stop = IF Trailing(c) THEN cmd[c].stop ELSE pos.stop
  PROVE  OneOpen' /\ StopsOK'
<1>1. /\ cmd'[c].status = st /\ \A d \in Commands \ {c} : cmd'[d] = cmd[d]
      /\ c \in Commands
  BY CommandSet DEF Open
<1>2. /\ Open' = Open \ {c}
      /\ \A d \in Commands \ {c} : Trailing(d)' <=> Trailing(d)
      /\ ~Trailing(c)'
  BY <1>1 DEF Open, Trailing
<1>3. OneOpen'
  BY <1>2 DEF OneOpen
<1>4. ASSUME ~overtaken', real'.volume > 0 PROVE
      /\ \A d \in Commands : Trailing(d)' => real'.stop = cmd'[d].stop
      /\ pos'.prot = "CONFIRMED" /\ pos'.stop # real'.stop => \E d \in Commands : Trailing(d)'
  <2>1. /\ \A d \in Commands : Trailing(d) => real.stop = cmd[d].stop
        /\ pos.prot = "CONFIRMED" /\ pos.stop # real.stop => \E d \in Commands : Trailing(d)
        /\ real' = real
    BY <1>4 DEF StopsOK
  <2>2. \A d \in Commands : Trailing(d)' => real'.stop = cmd'[d].stop
    BY <1>1, <1>2, <2>1
  <2>3. CASE Trailing(c)
    BY <1>1, <2>1, <2>2, <2>3
  <2>4. CASE ~Trailing(c)
    <3>1. pos'.stop = pos.stop
      BY <2>4
    <3>2. ASSUME NEW d \in Commands, Trailing(d) PROVE Trailing(d)'
      BY <1>2, <2>4, <3>2
    <3> QED BY <2>1, <2>2, <3>1, <3>2
  <2> QED BY <2>3, <2>4
<1>5. StopsOK'
  BY <1>4 DEF StopsOK
<1> QED BY <1>3, <1>5

LEMMA DirectCalls ==
  ASSUME DirectInv, transport = "direct", DirectDispatch
  PROVE  Quiet' /\ OneOpen' /\ StopsOK'
<1>t. /\ TypeInv /\ RowsOK /\ BrokerOK /\ RestOK /\ KindsOK /\ Called
      /\ Quiet /\ OneOpen /\ StopsOK
  BY DEF DirectInv, DirectOK, DoubtInv, TypeInv
<1>0. inflight # NoCommand => inflight \in Commands /\ inflight \in Open
  BY <1>t DEF RestOK, Quiet, Open
<1>1. ASSUME CallActs PROVE Quiet' /\ OneOpen' /\ StopsOK'
  <2> DEFINE c == inflight
  <2>1. c \in Commands /\ c \in Open /\ did[c] = "nothing"
    BY <1>0, <1>1 DEF CallActs
  <2>2. cmd[c].kind = "TRAIL" => cmd[c].stop \in 1..MaxStop
    BY <1>t, <2>1 DEF KindsOK, RowsOK, CommandRows
  <2>3. \A d \in Commands \ {c} : did'[d] = did[d]
    BY <1>1, <1>t, <2>1, <2>2, ClosesTypes, MovesTypes DEF CallActs
  <2>4. cmd' = cmd /\ record' = record /\ pos' = pos /\ inflight' = inflight
        /\ overtaken' = overtaken /\ UNCHANGED stream
    BY <1>1 DEF CallActs, projection, history
  <2>5. Quiet'
    BY <1>t, <2>1, <2>3, <2>4 DEF Quiet, stream, Open
  <2>6. CASE cmd[c].kind # "TRAIL"
    <3>1. real'.stop = real.stop /\ (real'.volume > 0 => real.volume > 0)
      <4>1. PICK v : BrokerCloses(c, v)
        BY <1>1, <2>6 DEF CallActs
      <4>2. real' = real \/ (v \in 1..real.volume
                              /\ real' = [real EXCEPT !.volume = @ - v])
        BY <4>1 DEF BrokerCloses
      <4> QED BY <1>t, <4>2 DEF BrokerOK
    <3>2. \A d \in Commands : Trailing(d)' <=> Trailing(d)
      BY <2>3, <2>4, <2>6 DEF Trailing, Open
    <3> QED BY <1>t, <2>4, <2>5, <3>1, <3>2, StopsKept DEF Open
  <2>7. CASE cmd[c].kind = "TRAIL" /\ real.volume > 0
    <3>1. real'.stop = cmd[c].stop /\ did'[c] = "done"
      BY <1>1, <1>t, <2>1, <2>7 DEF CallActs, BrokerMovesStop, BrokerOK
    <3>2. OneOpen' /\ Open' = Open
      BY <1>t, <2>4 DEF OneOpen, Open
    <3>3. StopsOK'
      BY <2>1, <2>4, <2>7, <3>1, <3>2 DEF StopsOK, Trailing, OneOpen
    <3> QED BY <2>5, <3>2, <3>3
  <2>8. CASE cmd[c].kind = "TRAIL" /\ ~(real.volume > 0)
    <3>1. real' = real
      BY <1>1, <2>8 DEF CallActs, BrokerMovesStop
    <3> QED BY <1>t, <2>4, <2>5, <2>8, <3>1 DEF OneOpen, StopsOK, Open
  <2> QED BY <2>6, <2>7, <2>8
<1>2. ASSUME AnswerClear PROVE Quiet' /\ OneOpen' /\ StopsOK'
  <2>1. inflight \in Open /\ inflight \in Commands /\ inflight' = NoCommand
    BY <1>0, <1>2 DEF AnswerClear
  <2>2. PICK st \in {"CONFIRMED", "REJECTED"} :
            /\ cmd' = [cmd EXCEPT ![inflight].status = st]
            /\ pos'.prot = pos.prot
            /\ pos'.stop = IF Trailing(inflight) THEN cmd[inflight].stop ELSE pos.stop
    BY <1>2, <1>t, <2>1 DEF AnswerClear, TrailTo, Trailing, TypeInv, PositionOK, Positions
  <2>3. \A d \in Commands : cmd'[d].status = "RECEIVED" => cmd[d].status = "RECEIVED"
    BY <1>t, <2>1, <2>2, CommandSet
  <2>4. Quiet'
    BY <1>2, <1>t, <2>1, <2>3 DEF AnswerClear, Quiet, stream, broker
  <2> QED BY <1>2, <1>t, <2>1, <2>2, <2>4, SettledStop DEF AnswerClear, broker, history
<1>3. ASSUME AnswerAmbiguous PROVE Quiet' /\ OneOpen' /\ StopsOK'
  <2>1. inflight \in Open /\ inflight \in Commands /\ inflight' = NoCommand
    BY <1>0, <1>3 DEF AnswerAmbiguous
  <2>2. /\ \A d \in Commands \ {inflight} : cmd'[d] = cmd[d]
        /\ cmd'[inflight].status = "UNKNOWN"
        /\ cmd'[inflight].kind = cmd[inflight].kind
        /\ cmd'[inflight].stop = cmd[inflight].stop
    BY <1>3, <1>t, <2>1, CommandSet DEF AnswerAmbiguous
  <2>3. Quiet'
    BY <1>3, <1>t, <2>1, <2>2 DEF AnswerAmbiguous, Quiet, stream, broker
  <2>4. \A d \in Commands : /\ d \in Open' => d \in Open
                            /\ Trailing(d)' <=> Trailing(d)
                            /\ cmd'[d].stop = cmd[d].stop
    BY <1>3, <2>1, <2>2 DEF AnswerAmbiguous, broker, Open, Trailing
  <2> QED BY <1>3, <1>t, <2>3, <2>4, StopsKept DEF AnswerAmbiguous, broker, history
\* A call begins with nothing open, or overtakes.
<1>4. ASSUME NEW c \in Commands, BeginCall(c) PROVE Quiet' /\ OneOpen' /\ StopsOK'
  <2>1. /\ \A d \in Commands \ {c} : cmd'[d] = cmd[d]
        /\ cmd'[c].status = "DISPATCHING"
    BY <1>4, <1>t, CommandSet DEF BeginCall
  <2>2. Quiet'
    BY <1>4, <1>t, <2>1 DEF BeginCall, Quiet, stream, broker
  <2>3. did[c] = "nothing" /\ did' = did /\ pos' = pos /\ real' = real
    BY <1>4, <1>t DEF BeginCall, Quiet, broker
  <2>4. ~overtaken' => ~overtaken /\ Open = {} /\ Open' = {c}
    <3>1. ~overtaken' => ~overtaken /\ InDoubt = {}
      BY <1>4 DEF BeginCall, Overtakes
    <3>2. \A d \in Commands : cmd[d].status # "DISPATCHING"
      BY <1>4, <1>t DEF BeginCall, Unlocked, Called
    <3> QED BY <2>1, <3>1, <3>2 DEF Open, InDoubt
  <2>5. OneOpen'
    BY <2>4 DEF OneOpen
  <2>6. StopsOK'
    BY <1>t, <2>3, <2>4 DEF StopsOK, Trailing
  <2> QED BY <2>2, <2>5, <2>6
<1>5. ASSUME NEW c \in Commands, Incapable(c) PROVE Quiet' /\ OneOpen' /\ StopsOK'
  <2>1. /\ \A d \in Commands \ {c} : cmd'[d] = cmd[d]
        /\ cmd'[c].status = "REJECTED" /\ cmd[c].status = "RECEIVED"
    BY <1>5, <1>t, CommandSet DEF Incapable
  <2>2. Quiet'
    BY <1>5, <1>t, <2>1 DEF Incapable, Quiet, stream, broker, Unlocked
  <2>3. \A d \in Commands : /\ d \in Open' => d \in Open
                            /\ Trailing(d)' <=> Trailing(d)
                            /\ Trailing(d) => cmd'[d].stop = cmd[d].stop
    BY <1>5, <2>1 DEF Incapable, broker, Open, Trailing
  <2> QED BY <1>5, <1>t, <2>2, <2>3, StopsKept DEF Incapable, broker, history
<1>6. ASSUME NEW c \in Commands, DispatchSettled(c) PROVE Quiet' /\ OneOpen' /\ StopsOK'
  BY <1>6, <1>t, StopsKept
     DEF DispatchSettled, projection, stream, broker, Quiet, Open, Trailing, history
<1> QED BY <1>1, <1>2, <1>3, <1>4, <1>5, <1>6 DEF DirectDispatch

LEMMA DirectRecovers ==
  ASSUME DirectInv, transport = "direct", Reconciliation
  PROVE  Quiet' /\ OneOpen' /\ StopsOK'
<1>t. /\ TypeInv /\ PositionOK /\ RowsOK /\ BrokerOK /\ RestOK /\ KindsOK /\ Called
      /\ Quiet /\ OneOpen /\ StopsOK
  BY DEF DirectInv, DirectOK, DoubtInv, TypeInv
<1>1. ASSUME NEW c \in Commands, RecoverCommand(c) PROVE Quiet' /\ OneOpen' /\ StopsOK'
  <2>1. CASE cmd[c].status = "UNKNOWN"
    <3>1. /\ Verdict(c) \in {"CONFIRMED", "REJECTED"} /\ c \in Open
          /\ cmd' = [cmd EXCEPT ![c].status = Verdict(c)]
      BY <1>1, <2>1 DEF RecoverCommand, Verdict, Open
    <3>2. /\ pos'.prot = pos.prot
          /\ pos'.stop = IF Trailing(c) THEN cmd[c].stop ELSE pos.stop
      BY <1>1, <1>t, <2>1, <3>1
         DEF RecoverCommand, TrailTo, Trailing, PositionOK, Positions
    <3>3. \A d \in Commands : cmd'[d].status = "RECEIVED" => cmd[d].status = "RECEIVED"
      BY <1>t, <3>1, CommandSet
    <3>4. Quiet'
      BY <1>1, <1>t, <3>3 DEF RecoverCommand, Quiet, stream, broker, Unlocked
    <3> QED BY <1>1, <1>t, <3>1, <3>2, <3>4, SettledStop DEF RecoverCommand, broker, history
  <2>2. CASE cmd[c].status # "UNKNOWN"
    BY <1>1, <1>t, <2>2, StopsKept
       DEF RecoverCommand, stream, broker, Quiet, Open, Trailing, history
  <2> QED BY <2>1, <2>2
<1>2. ASSUME NEW c \in Commands, MarkUnknown(c) PROVE Quiet' /\ OneOpen' /\ StopsOK'
  <2>1. pos'.prot # "CONFIRMED"
    BY <1>2, <1>t DEF MarkUnknown, DoubtPosition, PositionOK, Positions
  <2> QED BY <1>2, <1>t, <2>1, StopsKept DEF MarkUnknown, stream, broker, Quiet, Open, Trailing,
     history
<1>3. ASSUME NEW c \in Commands, ConfirmTrailing(c) PROVE Quiet' /\ OneOpen' /\ StopsOK'
  <2>1. /\ c \in Open /\ Trailing(c)
        /\ cmd' = [cmd EXCEPT ![c].status = "CONFIRMED"]
    BY <1>3 DEF ConfirmTrailing, Open, Trailing
  <2>2. pos'.prot = pos.prot /\ pos'.stop = cmd[c].stop
    BY <1>3, <1>t DEF ConfirmTrailing, PositionOK, Positions
  <2>3. \A d \in Commands : cmd'[d].status = "RECEIVED" => cmd[d].status = "RECEIVED"
    BY <1>t, <2>1, CommandSet
  <2>4. Quiet'
    BY <1>3, <1>t, <2>3 DEF ConfirmTrailing, Quiet, stream, broker, Unlocked
  <2> QED BY <1>3, <1>t, <2>1, <2>2, <2>4, SettledStop DEF ConfirmTrailing, broker, history
<1>4. ASSUME NEW c \in Commands, Escalate(c) PROVE Quiet' /\ OneOpen' /\ StopsOK'
  BY <1>4, <1>t, StopsKept DEF Escalate, projection, stream, broker, Quiet, Open, Trailing,
     history
\* A snapshot confirms the stop only if it is the broker's.
<1>5. ASSUME NEW S \in SUBSET Commands, NEW D \in SUBSET Commands, Seen(S, D)
      PROVE  Quiet' /\ OneOpen' /\ StopsOK'
  <2>1. /\ cmd' = ObserveCommands(S, D) /\ inflight = NoCommand
        /\ \E p \in ObserveTrails(S, D) \cup {pos} : pos' = Project(p)
        /\ S \subseteq {c \in Commands : cmd[c].status = "UNKNOWN" \/ did[c] # "nothing"}
        /\ session' = session
        /\ UNCHANGED <<record, inflight, wire, orphans, broker, overtaken>>
    BY <1>5 DEF Seen, Snapshot, Unlocked
  <2>2. \A c \in Commands :
            \/ cmd'[c] = cmd[c]
            \/ c \in S /\ cmd'[c].status \in {"CONFIRMED", "REJECTED"}
    BY <1>t, <2>1, ObservedTypes
  <2>3. real.volume > 0 /\ pos'.prot = "CONFIRMED" => pos'.stop = real.stop
    <3>1. PICK p \in Positions : pos' = Project(p)
      BY <1>5, <1>t, <2>1, SeenPosition
    <3> QED BY <1>t, <3>1 DEF Project, Positions, BrokerOK
  <2>5. Quiet'
    BY <1>t, <2>1, <2>2 DEF Quiet, broker
  <2>6. \A c \in Commands : /\ c \in Open' => c \in Open
                            /\ Trailing(c)' => Trailing(c) /\ cmd'[c] = cmd[c]
    BY <2>1, <2>2 DEF Open, Trailing, broker
  <2>7. OneOpen'
    BY <1>t, <2>1, <2>6 DEF OneOpen, Open
  <2>8. StopsOK'
    BY <1>t, <2>1, <2>3, <2>6 DEF StopsOK, broker
  <2> QED BY <2>5, <2>7, <2>8
<1>6. ASSUME ConfirmProtection PROVE Quiet' /\ OneOpen' /\ StopsOK'
  <2>1. pos'.stop = pos.stop /\ real.stop = pos.stop
    BY <1>6, <1>t DEF ConfirmProtection, PositionOK, Positions
  <2>2. Quiet' /\ OneOpen' /\ \A c \in Commands : Trailing(c)' <=> Trailing(c)
    BY <1>6, <1>t DEF ConfirmProtection, Quiet, OneOpen, Open, Trailing, stream, broker,
       history
  <2> QED BY <1>6, <1>t, <2>1, <2>2 DEF ConfirmProtection, StopsOK, broker, history
<1>7. ASSUME NEW repaired \in BOOLEAN, RepairProtection(repaired)
      PROVE  Quiet' /\ OneOpen' /\ StopsOK'
  <2>1. Quiet' /\ Open' = Open /\ \A c \in Commands : Trailing(c)' <=> Trailing(c)
    BY <1>7, <1>t DEF RepairProtection, Quiet, Open, Trailing, stream, broker
  <2>2. CASE repaired
    <3>1. pos'.stop = real'.stop
      <4>1. /\ pos' = [pos EXCEPT !.prot = "CONFIRMED", !.stop = pos.native]
            /\ real' = [real EXCEPT !.stop = pos.native]
        BY <1>7, <2>2 DEF RepairProtection
      <4>2. pos'.stop = pos.native
        BY <1>t, <4>1 DEF PositionOK, Positions
      <4>3. real'.stop = pos.native
        BY <1>t, <4>1 DEF BrokerOK
      <4> QED BY <4>2, <4>3
    <3>2. ~overtaken' => Open = {}
      <4>1. ~overtaken' => InDoubt = {}
        BY <1>7, <2>2 DEF RepairProtection, Overtakes
      <4>2. \A c \in Commands : cmd[c].status # "DISPATCHING"
        BY <1>7, <1>t DEF RepairProtection, Unlocked, Called
      <4> QED BY <4>1, <4>2 DEF Open, InDoubt
    <3>3. OneOpen' /\ StopsOK'
      BY <2>1, <3>1, <3>2 DEF OneOpen, StopsOK, Trailing
    <3> QED BY <2>1, <3>3
  <2>3. CASE ~repaired
    <3>1. pos'.prot # "CONFIRMED" /\ real' = real /\ overtaken' = overtaken /\ cmd' = cmd
      BY <1>7, <1>t, <2>3 DEF RepairProtection, DoubtPosition, PositionOK, Positions, history
    <3> QED BY <1>t, <2>1, <3>1, StopsKept
  <2> QED BY <2>2, <2>3
<1> QED BY <1>t, <1>1, <1>2, <1>3, <1>4, <1>5, <1>6, <1>7, ReconcilesBy

LEMMA TransportFixed == [Next]_vars => transport' = transport
  BY DEF Next, vars, Requests, DirectDispatch, StreamStep, ExitFills, Reconciliation,
         RequestClose, RequestProtection, RequestTrailing, CallActs, AnswerClear,
         AnswerAmbiguous, BeginCall, Incapable, DispatchSettled, OpenSession, LoseSession,
         Heartbeat, Prepare, MarkSent, Execute, Result, RecordExitFill, BrokerReduces,
         RecoverCommand, MarkUnknown, ConfirmTrailing, Escalate, Observe, ObserveRaises,
         ConfirmProtection, RepairProtection, Restart

LEMMA DirectStep == DirectInv /\ [Next]_vars => DirectInv'
<1> SUFFICES ASSUME DirectInv, [Next]_vars, transport = "direct"
             PROVE  Quiet' /\ OneOpen' /\ StopsOK'
  <2>1. DirectInv /\ [Next]_vars => DoubtInv'
    BY DoubtStep DEF DirectInv
  <2> QED BY <2>1, TransportFixed DEF DirectInv, DirectOK
<1>t. /\ TypeInv /\ PositionOK /\ RowsOK /\ BrokerOK /\ RestOK /\ KindsOK /\ Called
      /\ Quiet /\ OneOpen /\ StopsOK
  BY DEF DirectInv, DirectOK, DoubtInv, TypeInv
<1>1. CASE Requests
  <2>1. PICK c \in Commands, r \in CommandRows : RequestDone(c, r)
    BY <1>1, <1>t, RequestEffect
  <2>2. /\ cmd'[c].status = "RECEIVED" /\ \A d \in Commands \ {c} : cmd'[d] = cmd[d]
        /\ cmd[c].status = "RECEIVED" /\ did[c] = "nothing" /\ inflight # c
    BY <1>t, <2>1 DEF RequestDone, RowsOK, KindsOK
  <2>3. Quiet'
    BY <1>t, <2>1, <2>2 DEF RequestDone, Quiet, stream, broker, RestOK
  <2>4. \A d \in Commands : /\ d \in Open' => d \in Open
                            /\ Trailing(d)' <=> Trailing(d)
                            /\ Trailing(d) => cmd'[d].stop = cmd[d].stop
    BY <2>1, <2>2 DEF RequestDone, broker, Open, Trailing
  <2> QED BY <1>t, <2>1, <2>3, <2>4, StopsKept DEF RequestDone, broker, history
<1>2. CASE DirectDispatch
  BY <1>2, DirectCalls
<1>3. CASE StreamStep
  BY <1>3, <1>t DEF StreamStep, OpenSession, LoseSession, Heartbeat, Prepare, MarkSent,
                    Execute, Result, FirstOf, Quiet
<1>4. CASE ExitFills
  <2>1. PICK d \in Commands \cup ExitDeals :
            \/ \E s \in {"TP1", "TP2", "RUNNER", "CLOSE"} : RecordExitFill(d, s)
            \/ \E v \in 1..Lots : BrokerReduces(d, v)
    BY <1>4 DEF ExitFills
  <2>2. ASSUME NEW s, RecordExitFill(d, s) PROVE Quiet' /\ OneOpen' /\ StopsOK'
    <3>1. pos'.prot = pos.prot /\ pos'.stop = pos.stop
      BY <1>t, <2>2 DEF RecordExitFill, PositionOK, Positions
    <3> QED BY <1>t, <2>2, <3>1, StopsKept
            DEF RecordExitFill, stream, broker, Quiet, Open, Trailing, history
  <2>3. ASSUME NEW v \in 1..Lots, BrokerReduces(d, v) PROVE Quiet' /\ OneOpen' /\ StopsOK'
    <3>1. real'.stop = real.stop /\ (real'.volume > 0 => real.volume > 0)
      BY <1>t, <2>3 DEF BrokerReduces, BrokerOK
    <3> QED BY <1>t, <2>3, <3>1, StopsKept
            DEF BrokerReduces, projection, stream, Quiet, Open, Trailing, history
  <2> QED BY <2>1, <2>2, <2>3
<1>5. CASE Reconciliation
  BY <1>5, DirectRecovers
<1>6. CASE Restart
  <2>1. \A c \in Commands : cmd'[c] = IF cmd[c].status \in {"DISPATCHING", "UNKNOWN"}
            THEN [cmd[c] EXCEPT !.status = "UNKNOWN"] ELSE cmd[c]
    BY <1>6 DEF Restart
  <2>2. \A c \in Commands : cmd[c].status \in {"DISPATCHING", "UNKNOWN"} =>
            /\ cmd'[c].status = "UNKNOWN" /\ cmd'[c].kind = cmd[c].kind
            /\ cmd'[c].stop = cmd[c].stop
    BY <1>t, <2>1 DEF RowsOK, CommandRows
  <2>3. Quiet'
    BY <1>6, <1>t, <2>1, <2>2 DEF Restart, Quiet, broker
  <2>4. \A c \in Commands : /\ c \in Open' => c \in Open
                            /\ Trailing(c)' <=> Trailing(c)
                            /\ Trailing(c) => cmd'[c].stop = cmd[c].stop
    BY <1>6, <2>1, <2>2 DEF Restart, broker, Open, Trailing
  <2> QED BY <1>6, <1>t, <2>3, <2>4, StopsKept DEF Restart, broker, history
<1>7. CASE UNCHANGED vars
  BY <1>7, <1>t, StopsKept
     DEF vars, projection, doubt, stream, broker, Quiet, Open, Trailing, history
<1> QED BY <1>1, <1>2, <1>3, <1>4, <1>5, <1>6, <1>7 DEF Next

LEMMA DirectInitially == Init => DirectInv
<1> SUFFICES ASSUME Init PROVE DirectInv
  OBVIOUS
<1>1. \A c \in Commands : cmd[c].status = "RECEIVED" /\ did[c] = "nothing"
                          /\ record[c].state = "NONE"
  BY DEF Init, NoCommandRow, NoRecord
<1>2. pos.stop = 1 /\ real.stop = 1
  BY DEF Init
<1>3. Quiet
  BY <1>1 DEF Init, Quiet
<1>4. OneOpen /\ StopsOK
  BY <1>1, <1>2 DEF OneOpen, StopsOK, Open, Trailing
<1> QED BY <1>3, <1>4, DoubtInitially DEF DirectInv, DirectOK

-----------------------------------------------------------------------------
(* The confirmed stop is the broker's: over the stream.                     *)

Sent == {c \in Commands : record[c].state = "SENT"}
Doubted == {c \in Commands : record[c].state = "UNKNOWN"}
\* sent in this session, acted on by the broker, and changing its stop
Movers == {c \in Sent \ (orphans \cup wire) : cmd[c].kind = "PROTECTION" /\ did[c] = "done"}

\* What is on the wire was sent in this session, or is in doubt.  Once the session is
\* ready a record in doubt is a command in doubt, which only a snapshot ends.
SessionOK ==
    /\ inflight = NoCommand
    /\ \A c \in Commands : record[c].state \in {"NONE", "QUEUED"} =>
           cmd[c].status = "RECEIVED" /\ did[c] = "nothing"
    /\ InDoubt \subseteq Doubted
    /\ orphans \subseteq Sent
    /\ session # "ready" => Sent \subseteq orphans
    /\ session = "closed" => wire \subseteq Sent \cup InDoubt
    /\ session \in {"open", "seen"} => wire = {}
    /\ session = "ready" => wire \subseteq Sent \ orphans
    /\ \A c \in wire : did[c] = "nothing"
    /\ session = "ready" /\ Doubted # {} => InDoubt # {}

\* Records are sent in dispatch sequence, and the frames are acted on in that order.
SequenceOK ==
    /\ \A m, n \in DOMAIN prepared : prepared[m] = prepared[n] => m = n
    /\ \A m \in DOMAIN prepared : record[prepared[m]].state # "NONE"
    /\ \A m, n \in DOMAIN prepared : m < n /\ record[prepared[m]].state = "QUEUED" =>
           record[prepared[n]].state = "QUEUED"
    /\ session = "ready" => \A m, n \in DOMAIN prepared :
           prepared[m] \in wire /\ prepared[n] \in Sent \ (orphans \cup wire) => n < m

\* Until a result is missing, the stop is the confirmed one, or that of the last
\* command which has changed it and whose result is on its way.
SentStop ==
    session = "ready" /\ Doubted = {} /\ real.volume > 0 =>
        /\ Movers = {} /\ pos.prot = "CONFIRMED" => pos.stop = real.stop
        /\ \A n \in DOMAIN prepared :
               /\ prepared[n] \in Movers
               /\ \A m \in DOMAIN prepared : prepared[m] \in Movers => m <= n
               => real.stop = cmd[prepared[n]].stop

\* Nothing is in doubt or on its way.
CalmStop ==
    ~overtaken /\ InDoubt = {} /\ Sent = {} /\ real.volume > 0 /\ pos.prot = "CONFIRMED"
        => pos.stop = real.stop

StreamOK == transport = "stream" => SessionOK /\ SequenceOK /\ SentStop /\ CalmStop
StreamInv == DoubtInv /\ StreamOK

\* Records, the wire and the session stay; so do the commands that have records.
LEMMA StreamKept ==
  ASSUME RowsOK, SessionOK, SequenceOK, SentStop, CalmStop,
         UNCHANGED <<record, prepared, stream, did>>, inflight' = NoCommand,
         ~overtaken' => ~overtaken,
         \A c \in Commands :
             /\ cmd'[c].status = cmd[c].status
             /\ record[c].state # "NONE" => cmd'[c] = cmd[c],
         real'.stop = real.stop, real'.volume > 0 => real.volume > 0,
         pos'.prot = "CONFIRMED" =>
             pos'.stop = real.stop \/ (pos.prot = "CONFIRMED" /\ pos'.stop = pos.stop)
  PROVE  SessionOK' /\ SequenceOK' /\ SentStop' /\ CalmStop'
<1>1. InDoubt' = InDoubt /\ Sent' = Sent /\ Doubted' = Doubted
  BY DEF InDoubt, Sent, Doubted
<1>2. SessionOK'
  BY <1>1 DEF SessionOK, stream
<1>3. SequenceOK'
  BY <1>1 DEF SequenceOK, stream
<1>4. Movers' = Movers /\ \A c \in Movers : cmd'[c] = cmd[c]
  BY <1>1 DEF Movers, Sent, stream
<1>5. SentStop'
  BY <1>1, <1>4 DEF SentStop, stream
<1>6. CalmStop'
  BY <1>1 DEF CalmStop
<1> QED BY <1>2, <1>3, <1>5, <1>6

LEMMA DomainOfPrepared ==
  ASSUME RowsOK
  PROVE  /\ DOMAIN prepared = 1..Len(prepared) /\ Len(prepared) \in Nat
         /\ \A n \in DOMAIN prepared : n \in Nat /\ prepared[n] \in Commands
  BY DEF RowsOK

LEMMA StreamPrepares ==
  ASSUME TypeInv, SessionOK, SequenceOK, SentStop, CalmStop, NEW c \in Commands, Prepare(c)
  PROVE  SessionOK' /\ SequenceOK' /\ SentStop' /\ CalmStop'
<1>t. RowsOK
  BY DEF TypeInv
<1>1. /\ record[c].state = "NONE" /\ record'[c].state = "QUEUED"
      /\ \A d \in Commands \ {c} : record'[d] = record[d]
  BY <1>t DEF Prepare, NoRecord, RowsOK
<1>2. /\ Len(prepared') = Len(prepared) + 1 /\ prepared'[Len(prepared) + 1] = c
      /\ DOMAIN prepared' = 1..(Len(prepared) + 1) /\ DOMAIN prepared = 1..Len(prepared)
      /\ Len(prepared) \in Nat
      /\ \A n \in DOMAIN prepared : prepared'[n] = prepared[n]
  BY <1>t DEF Prepare, RowsOK
<1>3. /\ InDoubt' = InDoubt /\ Sent' = Sent /\ Doubted' = Doubted
      /\ UNCHANGED <<pos, cmd, inflight, session, wire, orphans, real, did, overtaken>>
  BY <1>1 DEF Prepare, InDoubt, Sent, Doubted, stream, broker, history
<1>4. SessionOK'
  BY <1>1, <1>3 DEF SessionOK
<1>5. \A n \in DOMAIN prepared : prepared[n] \in Commands \ {c}
  BY <1>t, <1>1, DomainOfPrepared DEF SequenceOK
<1>6. \A n \in DOMAIN prepared' :
          \/ n \in DOMAIN prepared /\ prepared'[n] = prepared[n]
             /\ record'[prepared'[n]] = record[prepared[n]]
          \/ n = Len(prepared) + 1 /\ prepared'[n] = c
  BY <1>1, <1>2, <1>5
<1>7. c \notin wire /\ c \notin Sent
  <2>1. c \notin Sent /\ c \notin InDoubt
    BY <1>1 DEF Sent, SessionOK, Doubted
  <2> QED BY <1>t, <2>1 DEF SessionOK, TypeInv, RestOK
<1>8. SequenceOK'
  <2>1. \A m, n \in DOMAIN prepared' : prepared'[m] = prepared'[n] => m = n
    BY <1>5, <1>6 DEF SequenceOK
  <2>2. \A m \in DOMAIN prepared' : record'[prepared'[m]].state # "NONE"
    BY <1>1, <1>6 DEF SequenceOK
  <2>3. \A m, n \in DOMAIN prepared' : m < n /\ record'[prepared'[m]].state = "QUEUED" =>
            record'[prepared'[n]].state = "QUEUED"
    BY <1>1, <1>2, <1>6 DEF SequenceOK
  <2>4. session' = "ready" => \A m, n \in DOMAIN prepared' :
            prepared'[m] \in wire' /\ prepared'[n] \in Sent' \ (orphans' \cup wire') => n < m
    BY <1>3, <1>6, <1>7 DEF SequenceOK
  <2> QED BY <2>1, <2>2, <2>3, <2>4 DEF SequenceOK
<1>9. Movers' = Movers /\ c \notin Movers
  BY <1>3, <1>7 DEF Movers
<1>10. SentStop'
  <2> SUFFICES ASSUME session = "ready", Doubted = {}, real.volume > 0
               PROVE  /\ Movers = {} /\ pos.prot = "CONFIRMED" => pos.stop = real.stop
                      /\ \A n \in DOMAIN prepared' :
                             /\ prepared'[n] \in Movers
                             /\ \A m \in DOMAIN prepared' : prepared'[m] \in Movers => m <= n
                             => real.stop = cmd[prepared'[n]].stop
    BY <1>3, <1>9 DEF SentStop
  <2>1. ASSUME NEW n \in DOMAIN prepared', prepared'[n] \in Movers,
               \A m \in DOMAIN prepared' : prepared'[m] \in Movers => m <= n
        PROVE  real.stop = cmd[prepared'[n]].stop
    <3>1. n \in DOMAIN prepared /\ prepared'[n] = prepared[n]
      BY <1>6, <1>9, <2>1
    <3>2. \A m \in DOMAIN prepared : m \in DOMAIN prepared'
      BY <1>2
    <3>3. \A m \in DOMAIN prepared : prepared[m] \in Movers => m <= n
      BY <1>2, <2>1, <3>2
    <3> QED BY <2>1, <3>1, <3>3 DEF SentStop
  <2> QED BY <2>1 DEF SentStop
<1>11. CalmStop'
  BY <1>3 DEF CalmStop
<1> QED BY <1>4, <1>8, <1>10, <1>11

LEMMA StreamOpens ==
  ASSUME TypeInv, SessionOK, SequenceOK, SentStop, CalmStop, OpenSession
  PROVE  SessionOK' /\ SequenceOK' /\ SentStop' /\ CalmStop'
<1>1. /\ session = "closed" /\ session' = "open" /\ wire' = {}
      /\ UNCHANGED <<pos, cmd, record, prepared, inflight, orphans, real, did, overtaken>>
  BY DEF OpenSession, projection, broker, history
<1>2. InDoubt' = InDoubt /\ Sent' = Sent /\ Doubted' = Doubted
  BY <1>1 DEF InDoubt, Sent, Doubted
<1>3. SessionOK'
  BY <1>1, <1>2 DEF SessionOK
<1>4. SequenceOK'
  BY <1>1, <1>2 DEF SequenceOK
<1>5. SentStop' /\ CalmStop'
  BY <1>1, <1>2 DEF SentStop, CalmStop
<1> QED BY <1>3, <1>4, <1>5

\* Every record that was sent is in doubt.
LEMMA StreamLoses ==
  ASSUME TypeInv, SessionOK, SequenceOK, SentStop, CalmStop, LoseSession
  PROVE  SessionOK' /\ SequenceOK' /\ SentStop' /\ CalmStop'
<1>1. /\ session # "closed" /\ session' = "closed" /\ orphans' = {}
      /\ Doubtful(Sent)
      /\ UNCHANGED <<prepared, inflight, wire, real, did, overtaken>>
  BY DEF LoseSession, Sent, broker, history
<1>2. \A c \in Commands :
          /\ c \notin Sent => cmd'[c] = cmd[c] /\ record'[c] = record[c]
          /\ c \in Sent => cmd'[c].status = "UNKNOWN" /\ record'[c].state = "UNKNOWN"
  BY <1>1, DoubtfulTypes DEF TypeInv
<1>3. Sent' = {} /\ InDoubt' = InDoubt \cup Sent /\ Doubted' = Doubted \cup Sent
  BY <1>2 DEF Sent, InDoubt, Doubted
<1>4. SessionOK'
  <2>1. \A c \in Commands : record'[c].state \in {"NONE", "QUEUED"} =>
            cmd'[c].status = "RECEIVED" /\ did'[c] = "nothing"
    BY <1>1, <1>2 DEF SessionOK
  <2>2. wire' \subseteq InDoubt'
    BY <1>1, <1>3 DEF SessionOK, TypeInv, RestOK
  <2> QED BY <1>1, <1>3, <2>1, <2>2 DEF SessionOK
<1>5. SequenceOK'
  <2>1. \A n \in DOMAIN prepared :
            /\ record'[prepared[n]].state # "NONE"
            /\ record'[prepared[n]].state = "QUEUED" <=> record[prepared[n]].state = "QUEUED"
    BY <1>2, DomainOfPrepared DEF SequenceOK, TypeInv, Sent
  <2> QED BY <1>1, <2>1 DEF SequenceOK
<1>6. CalmStop'
  <2>1. Sent = {} => pos' = pos
    BY <1>1 DEF Doubtful
  <2> QED BY <1>1, <1>3, <2>1 DEF CalmStop
<1> QED BY <1>1, <1>4, <1>5, <1>6 DEF SentStop

\* The first record that is QUEUED is the one after those that were sent.
LEMMA StreamSends ==
  ASSUME TypeInv, SessionOK, SequenceOK, SentStop, CalmStop, NEW c \in Commands, MarkSent(c)
  PROVE  SessionOK' /\ SequenceOK' /\ SentStop' /\ CalmStop'
<1>t. RowsOK
  BY DEF TypeInv
<1>1. /\ session = "ready" /\ wire' = wire \cup {c}
      /\ UNCHANGED <<pos, cmd, prepared, inflight, session, orphans, real, did>>
  BY DEF MarkSent, broker
<1>2. PICK k \in DOMAIN prepared :
          /\ prepared[k] = c /\ record[c].state = "QUEUED"
          /\ \A m \in 1..(k - 1) :
                 prepared[m] \notin {d \in Commands : record[d].state = "QUEUED"}
  BY DEF MarkSent, FirstOf
<1>3. record'[c].state = "SENT" /\ \A d \in Commands \ {c} : record'[d] = record[d]
  <2>1. record' = [record EXCEPT ![c].state = "SENT"] /\ record \in [Commands -> RecordRows]
    BY <1>t DEF MarkSent, RowsOK
  <2> QED BY ONLY <2>1, StateSet, c \in Commands, "SENT" \in RecordStates
<1>4. /\ InDoubt' = InDoubt /\ Sent' = Sent \cup {c} /\ Doubted' = Doubted
      /\ c \notin Sent /\ cmd[c].status = "RECEIVED" /\ did[c] = "nothing"
  BY <1>1, <1>2, <1>3 DEF InDoubt, Sent, Doubted, SessionOK
<1>5. SessionOK'
  BY <1>1, <1>3, <1>4 DEF SessionOK
<1>6. \A n \in DOMAIN prepared :
          /\ n \in Nat /\ prepared[n] \in Commands
          /\ n # k => prepared[n] # c /\ record'[prepared[n]] = record[prepared[n]]
          /\ n < k => record[prepared[n]].state # "QUEUED"
          /\ n > k => record[prepared[n]].state = "QUEUED"
  <2> TAKE n \in DOMAIN prepared
  <2>1. n \in Nat /\ k \in Nat /\ prepared[n] \in Commands /\ n >= 1
    BY <1>t, DomainOfPrepared
  <2>2. n # k => prepared[n] # c
    BY <1>2 DEF SequenceOK
  <2>3. n < k => record[prepared[n]].state # "QUEUED"
    BY <1>2, <2>1
  <2>4. n > k => record[prepared[n]].state = "QUEUED"
    BY <1>2 DEF SequenceOK
  <2> QED BY <1>3, <2>1, <2>2, <2>3, <2>4
<1>7. SequenceOK'
  <2>1. \A m \in DOMAIN prepared : record'[prepared[m]].state # "NONE"
    BY <1>2, <1>3, <1>6 DEF SequenceOK
  <2>2. ASSUME NEW m \in DOMAIN prepared, NEW n \in DOMAIN prepared, m < n,
               record'[prepared[m]].state = "QUEUED"
        PROVE  record'[prepared[n]].state = "QUEUED"
    <3>1. m # k
      BY <1>2, <1>3, <2>2
    <3>2. m > k
      BY <1>6, <2>2, <3>1
    <3> QED BY <1>6, <2>2, <3>2
  <2>3. ASSUME NEW m \in DOMAIN prepared, NEW n \in DOMAIN prepared,
               prepared[m] \in wire', prepared[n] \in Sent' \ (orphans' \cup wire')
        PROVE  n < m
    <3>1. prepared[n] \in Sent \ (orphans \cup wire) /\ n # k
      BY <1>1, <1>2, <1>4, <2>3
    <3>2. n < k
      BY <1>6, <3>1 DEF Sent
    <3> QED BY <1>1, <1>6, <2>3, <3>1, <3>2 DEF SequenceOK
  <2> QED BY <1>1, <2>1, <2>2, <2>3 DEF SequenceOK
<1>8. Movers' = Movers
  BY <1>1, <1>4 DEF Movers
<1>9. SentStop'
  BY <1>1, <1>4, <1>8 DEF SentStop
<1>10. CalmStop'
  BY <1>4 DEF CalmStop
<1> QED BY <1>5, <1>7, <1>9, <1>10

LEMMA StreamActs ==
  ASSUME TypeInv, SessionOK, SequenceOK, SentStop, CalmStop, NEW c \in Commands, Execute(c)
  PROVE  SessionOK' /\ SequenceOK' /\ SentStop' /\ CalmStop'
<1>t. RowsOK /\ BrokerOK /\ KindsOK
  BY DEF TypeInv
<1>1. /\ wire' = wire \ {c}
      /\ UNCHANGED <<pos, cmd, record, prepared, inflight, session, orphans>>
  BY DEF Execute, projection
<1>2. PICK k \in DOMAIN prepared :
          prepared[k] = c /\ c \in wire /\ \A m \in 1..(k - 1) : prepared[m] \notin wire
  BY DEF Execute, FirstOf
<1>3. InDoubt' = InDoubt /\ Sent' = Sent /\ Doubted' = Doubted
  BY <1>1 DEF InDoubt, Sent, Doubted
<1>4. /\ did'[c] # "nothing" /\ \A d \in Commands \ {c} : did'[d] = did[d]
      /\ real'.volume > 0 => real.volume > 0
      /\ cmd[c].kind = "CLOSE" => real'.stop = real.stop
      /\ cmd[c].kind # "CLOSE" =>
             /\ cmd[c].kind = "PROTECTION"
             /\ real.volume > 0 => real'.stop = cmd[c].stop /\ did'[c] = "done"
  <2>1. cmd[c].kind \in {"CLOSE", "PROTECTION"}
    BY <1>t, <1>2 DEF KindsOK
  <2>2. CASE cmd[c].kind = "CLOSE"
    <3>1. BrokerCloses(c, record[c].volume)
      BY <2>2 DEF Execute
    <3>2. real'.volume > 0 => real.volume > 0
      BY <1>t, <3>1 DEF BrokerCloses, BrokerOK
    <3> QED BY <1>t, <2>2, <3>1, <3>2, ClosesTypes
  <2>3. CASE cmd[c].kind = "PROTECTION"
    <3>1. BrokerMovesStop(c, cmd[c].stop)
      BY <2>3 DEF Execute
    <3>2. cmd[c].stop \in 1..MaxStop
      BY <1>t, <2>3 DEF KindsOK, RowsOK, CommandRows
    <3>3. real.volume > 0 => real'.stop = cmd[c].stop /\ did'[c] = "done"
      BY <1>t, <3>1 DEF BrokerMovesStop, BrokerOK
    <3> QED BY <1>t, <2>3, <3>1, <3>2, <3>3, MovesTypes
  <2> QED BY <2>1, <2>2, <2>3
<1>5. c \in Sent \cup Doubted
  BY <1>2 DEF SessionOK, TypeInv, RestOK
<1>6. SessionOK'
  <2>1. \A d \in Commands : record[d].state \in {"NONE", "QUEUED"} =>
            cmd[d].status = "RECEIVED" /\ did'[d] = "nothing"
    BY <1>4, <1>5 DEF SessionOK, Sent, Doubted
  <2>2. wire' \subseteq wire /\ \A d \in wire' : did'[d] = "nothing"
    BY <1>1, <1>4, <1>t DEF SessionOK, RowsOK
  <2>3. /\ session = "closed" => wire' \subseteq Sent \cup InDoubt
        /\ session \in {"open", "seen"} => wire' = {}
        /\ session = "ready" => wire' \subseteq Sent \ orphans
    BY <2>2 DEF SessionOK
  <2> QED BY <1>1, <1>3, <2>1, <2>2, <2>3 DEF SessionOK
<1>7. \A m \in DOMAIN prepared : /\ m \in Nat /\ k \in Nat
                                 /\ prepared[m] = c => m = k
                                 /\ prepared[m] \in wire => m >= k
  BY <1>t, <1>2, DomainOfPrepared DEF SequenceOK
<1>8. SequenceOK'
  <2>1. ASSUME session = "ready", NEW m \in DOMAIN prepared, NEW n \in DOMAIN prepared,
               prepared[m] \in wire', prepared[n] \in Sent \ (orphans \cup wire')
        PROVE  n < m
    <3>1. CASE prepared[n] = c
      BY <1>1, <1>2, <1>7, <2>1, <3>1
    <3>2. CASE prepared[n] # c
      BY <1>1, <2>1, <3>2 DEF SequenceOK
    <3> QED BY <3>1, <3>2
  <2> QED BY <1>1, <1>3, <2>1 DEF SequenceOK
<1>9. SentStop'
  <2> SUFFICES ASSUME session = "ready", Doubted = {}, real.volume > 0
               PROVE  /\ Movers' = {} /\ pos.prot = "CONFIRMED" => pos.stop = real'.stop
                      /\ \A n \in DOMAIN prepared :
                             /\ prepared[n] \in Movers'
                             /\ \A m \in DOMAIN prepared : prepared[m] \in Movers' => m <= n
                             => real'.stop = cmd[prepared[n]].stop
    BY <1>1, <1>3, <1>4 DEF SentStop
  <2>1. c \in Sent \ orphans
    BY <1>2 DEF SessionOK
  <2>2. CASE cmd[c].kind = "CLOSE"
    <3>1. Movers' = Movers
      BY <1>1, <1>2, <1>3, <1>4, <2>2 DEF Movers, Sent
    <3> QED BY <1>4, <2>2, <3>1 DEF SentStop
  <2>3. CASE cmd[c].kind # "CLOSE"
    <3>1. c \in Movers' /\ \A d \in Movers' : d # c => d \in Sent \ (orphans \cup wire)
      BY <1>1, <1>3, <1>4, <2>1, <2>3 DEF Movers
    <3>2. ASSUME NEW n \in DOMAIN prepared, prepared[n] \in Movers',
                 \A m \in DOMAIN prepared : prepared[m] \in Movers' => m <= n
          PROVE  prepared[n] = c
      <4>1. k <= n
        BY <1>2, <3>1, <3>2
      <4>2. prepared[n] # c => n < k
        BY <1>2, <3>1, <3>2 DEF SequenceOK
      <4> QED BY <1>7, <4>1, <4>2
    <3> QED BY <1>4, <2>3, <3>1, <3>2
  <2> QED BY <2>2, <2>3
<1>10. CalmStop'
  BY <1>2, <1>3 DEF CalmStop, SessionOK, TypeInv, RestOK
<1> QED BY <1>6, <1>8, <1>9, <1>10

\* A result settles the first command that was sent, or puts it in doubt.
LEMMA StreamAnswers ==
  ASSUME TypeInv, SessionOK, SequenceOK, SentStop, CalmStop,
         NEW c \in Commands, NEW clear \in BOOLEAN, Result(c, clear)
  PROVE  SessionOK' /\ SequenceOK' /\ SentStop' /\ CalmStop'
<1>t. RowsOK /\ BrokerOK /\ KindsOK /\ PositionOK /\ AccountOK
  BY DEF TypeInv
<1>1. /\ UNCHANGED <<prepared, inflight, session, wire, orphans, real, did>>
      /\ c \notin wire
  BY DEF Result, stream, broker
<1>2. PICK k \in DOMAIN prepared :
          /\ prepared[k] = c /\ c \in Sent \ orphans
          /\ \A m \in 1..(k - 1) : prepared[m] \notin Sent \ orphans
  BY DEF Result, FirstOf, Sent
<1>3. session = "ready"
  BY <1>2 DEF SessionOK
<1>4. /\ \A d \in Commands \ {c} : cmd'[d] = cmd[d] /\ record'[d] = record[d]
      /\ cmd'[c].kind = cmd[c].kind /\ cmd'[c].stop = cmd[c].stop
      /\ clear => /\ cmd'[c].status \in {"CONFIRMED", "REJECTED"}
                  /\ record'[c].state \in {"ACCEPTED", "REJECTED"}
      /\ ~clear => cmd'[c].status = "UNKNOWN" /\ record'[c].state = "UNKNOWN"
  <2>1. CASE clear
    <3>1. PICK st \in {"CONFIRMED", "REJECTED"}, ss \in {"ACCEPTED", "REJECTED"} :
              /\ cmd' = [cmd EXCEPT ![c].status = st]
              /\ record' = [record EXCEPT ![c].state = ss]
      BY <2>1 DEF Result
    <3>2. /\ cmd \in [Commands -> CommandRows] /\ record \in [Commands -> RecordRows]
          /\ st \in Statuses /\ ss \in RecordStates
      BY <1>t DEF RowsOK
    <3>3. /\ cmd'[c].status = st /\ \A d \in Commands \ {c} : cmd'[d] = cmd[d]
          /\ cmd'[c].kind = cmd[c].kind /\ cmd'[c].stop = cmd[c].stop
      BY ONLY <3>1, <3>2, StatusSet, c \in Commands
    <3>4. record'[c].state = ss /\ \A d \in Commands \ {c} : record'[d] = record[d]
      BY ONLY <3>1, <3>2, StateSet, c \in Commands
    <3> QED BY <2>1, <3>3, <3>4
  <2>2. CASE ~clear
    <3>1. Doubtful({c})
      BY <2>2 DEF Result
    <3> QED BY <1>t, <2>2, <3>1, DoubtfulTypes
  <2> QED BY <2>1, <2>2
<1>5. /\ Sent' = Sent \ {c} /\ c \notin InDoubt
      /\ clear => InDoubt' = InDoubt /\ Doubted' = Doubted
      /\ ~clear => InDoubt' = InDoubt \cup {c} /\ Doubted' = Doubted \cup {c}
  <2>1. c \notin Doubted /\ c \notin InDoubt
    BY <1>2 DEF Sent, Doubted, SessionOK
  <2>2. Sent' = Sent \ {c}
    BY <1>4 DEF Sent
  <2>3. clear => InDoubt' = InDoubt /\ Doubted' = Doubted
    BY <1>4, <2>1 DEF InDoubt, Doubted
  <2>4. ~clear => InDoubt' = InDoubt \cup {c} /\ Doubted' = Doubted \cup {c}
    BY <1>4 DEF InDoubt, Doubted
  <2> QED BY <2>1, <2>2, <2>3, <2>4
<1>6. SessionOK'
  <2>1. \A d \in Commands : record'[d].state \in {"NONE", "QUEUED"} =>
            cmd'[d].status = "RECEIVED" /\ did'[d] = "nothing"
    BY <1>1, <1>4 DEF SessionOK
  <2> QED BY <1>1, <1>2, <1>3, <1>5, <2>1 DEF SessionOK
<1>7. SequenceOK'
  <2>1. \A n \in DOMAIN prepared :
            /\ record'[prepared[n]].state # "NONE"
            /\ record'[prepared[n]].state = "QUEUED" <=> record[prepared[n]].state = "QUEUED"
    BY <1>t, <1>2, <1>4, DomainOfPrepared DEF SequenceOK, Sent
  <2> QED BY <1>1, <1>5, <2>1 DEF SequenceOK
<1>8. CASE ~clear
  <2>1. Doubted' # {} /\ InDoubt' # {}
    BY <1>5, <1>8
  <2> QED BY <1>6, <1>7, <2>1 DEF SentStop, CalmStop
<1>9. CASE clear
  <2>1. Movers' = Movers \ {c}
    <3>1. \A d \in Commands : cmd'[d].kind = cmd[d].kind
      BY <1>4
    <3>2. Sent' \ (orphans' \cup wire') = (Sent \ (orphans \cup wire)) \ {c}
      BY <1>1, <1>5
    <3> QED BY <1>1, <3>1, <3>2 DEF Movers, Sent
  <2>2. pos' = IF did[c] = "done" THEN Accepted(pos, c) ELSE pos
    BY <1>9 DEF Result
  <2>3. c \in Movers => pos'.stop = cmd[c].stop
    BY <1>t, <2>2 DEF Movers, Accepted, PositionOK, Positions
  <2>4. c \notin Movers => pos'.stop = pos.stop /\ pos'.prot = pos.prot
    <3> SUFFICES ASSUME c \notin Movers PROVE pos'.stop = pos.stop /\ pos'.prot = pos.prot
      OBVIOUS
    <3>1. did[c] = "done" => cmd[c].kind # "PROTECTION"
      BY <1>1, <1>2 DEF Movers
    <3>2. cmd[c].kind # "PROTECTION" =>
              Accepted(pos, c).stop = pos.stop /\ Accepted(pos, c).prot = pos.prot
      BY <1>t DEF Accepted, PositionOK, Positions
    <3> QED BY <2>2, <3>1, <3>2
  <2>5. SentStop'
    <3> SUFFICES ASSUME Doubted = {}, real.volume > 0
                 PROVE  /\ Movers' = {} /\ pos'.prot = "CONFIRMED" => pos'.stop = real.stop
                        /\ \A n \in DOMAIN prepared :
                               /\ prepared[n] \in Movers'
                               /\ \A m \in DOMAIN prepared : prepared[m] \in Movers' => m <= n
                               => real.stop = cmd'[prepared[n]].stop
      BY <1>1, <1>5, <1>9 DEF SentStop
    <3>1. \A m \in DOMAIN prepared : /\ m \in Nat /\ k \in Nat
                                     /\ prepared[m] \in Movers => m >= k
      BY <1>t, <1>2, DomainOfPrepared DEF Movers
    <3>2. ASSUME NEW n \in DOMAIN prepared, prepared[n] \in Movers',
                 \A m \in DOMAIN prepared : prepared[m] \in Movers' => m <= n
          PROVE  real.stop = cmd'[prepared[n]].stop
      <4>1. prepared[n] \in Movers /\ cmd'[prepared[n]] = cmd[prepared[n]]
        BY <1>4, <2>1, <3>2 DEF Movers, Sent
      <4>2. \A m \in DOMAIN prepared : prepared[m] \in Movers => m <= n
        <5> TAKE m \in DOMAIN prepared
        <5>1. prepared[m] = c => m = k
          BY <1>2 DEF SequenceOK
        <5> QED BY <2>1, <3>1, <3>2, <4>1, <5>1
      <4> QED BY <1>3, <4>1, <4>2 DEF SentStop
    <3>3. Movers' = {} /\ pos'.prot = "CONFIRMED" => pos'.stop = real.stop
      <4>1. CASE c \in Movers /\ Movers' = {}
        <5>1. \A m \in DOMAIN prepared : prepared[m] \in Movers => m <= k
          BY <1>2, <2>1, <3>1, <4>1 DEF SequenceOK
        <5>2. real.stop = cmd[c].stop
          BY <1>2, <1>3, <4>1, <5>1 DEF SentStop
        <5> QED BY <2>3, <4>1, <5>2
      <4>2. CASE c \notin Movers /\ Movers' = {}
        BY <1>3, <2>1, <2>4, <4>2 DEF SentStop
      <4> QED BY <4>1, <4>2
    <3> QED BY <3>2, <3>3
  <2>6. CalmStop'
    <3> SUFFICES ASSUME InDoubt' = {}, Sent' = {}, real.volume > 0, pos'.prot = "CONFIRMED"
                 PROVE  pos'.stop = real.stop
      BY <1>1 DEF CalmStop
    <3>1. Doubted' = {} /\ Movers' = {}
      BY <1>3, <1>5, <1>9 DEF SessionOK, Movers
    <3> QED BY <1>1, <1>3, <2>5, <3>1 DEF SentStop
  <2> QED BY <1>6, <1>7, <2>5, <2>6
<1> QED BY <1>8, <1>9

\* A snapshot, taken with nothing on its way.  Cut short before the position it has
\* settled nothing, or overtakes.
LEMMA StreamObserves ==
  ASSUME TypeInv, SessionOK, SequenceOK, SentStop, CalmStop, transport = "stream",
         NEW S \in SUBSET Commands, NEW D \in SUBSET Commands, Seen(S, D)
  PROVE  SessionOK' /\ SequenceOK' /\ SentStop' /\ CalmStop'
<1>t. RowsOK /\ BrokerOK /\ KindsOK /\ PositionOK
  BY DEF TypeInv
<1>1. /\ cmd' = ObserveCommands(S, D) /\ session = "open"
      /\ S \subseteq {c \in Commands : cmd[c].status = "UNKNOWN" \/ did[c] # "nothing"}
      /\ session' \in {"seen", "ready"}
      /\ session' = "ready" => \A c \in Commands : record[c].state # "UNKNOWN"
      /\ UNCHANGED <<record, prepared, inflight, wire, orphans, real, did>>
  BY DEF Seen, Snapshot, Reconciled, broker
<1>2. \A c \in Commands :
          \/ cmd'[c] = cmd[c]
          \/ c \in S /\ cmd'[c].status \in {"CONFIRMED", "REJECTED"}
  BY <1>t, <1>1, ObservedTypes
<1>3. Sent' = Sent /\ Doubted' = Doubted /\ InDoubt' \subseteq InDoubt
  BY <1>1, <1>2 DEF Sent, Doubted, InDoubt
<1>4. \/ real.volume > 0 /\ pos'.prot = "CONFIRMED" => pos'.stop = real.stop
      \/ session' = "seen" /\ pos' = pos /\ (~overtaken' => ~overtaken /\ cmd' = cmd)
  <2>1. CASE \E p \in ObserveTrails(S, D) \cup {pos} : pos' = Project(p)
    <3>1. PICK p \in Positions : pos' = Project(p)
      BY <2>1, SeenPosition
    <3> QED BY <1>t, <3>1 DEF Project, Positions, BrokerOK
  <2>2. CASE session' = "seen" /\ pos' = pos /\ (~overtaken' => ~overtaken /\ cmd' = cmd)
    BY <2>2
  <2> QED BY <2>1, <2>2 DEF Seen
<1>5. SessionOK'
  <2>1. \A c \in Commands : record[c].state \in {"NONE", "QUEUED"} =>
            cmd'[c].status = "RECEIVED" /\ did[c] = "nothing"
    BY <1>1, <1>2 DEF SessionOK
  <2>2. session' = "ready" => Doubted = {}
    BY <1>1 DEF Doubted
  <2> QED BY <1>1, <1>3, <2>1, <2>2 DEF SessionOK
<1>6. SequenceOK'
  BY <1>1, <1>3 DEF SequenceOK, SessionOK
<1>7. Movers' = {}
  BY <1>1, <1>3 DEF Movers, SessionOK
<1>8. SentStop'
  BY <1>1, <1>4, <1>7 DEF SentStop
<1>9. CalmStop'
  <2>1. ~overtaken' /\ cmd' = cmd => InDoubt' = InDoubt
    BY DEF InDoubt
  <2> QED BY <1>1, <1>3, <1>4, <2>1 DEF CalmStop
<1> QED BY <1>5, <1>6, <1>8, <1>9

\* The deaths of the process leave the sent records to nobody.
LEMMA StreamRestarts ==
  ASSUME TypeInv, Called, SessionOK, SequenceOK, SentStop, CalmStop, Restart
  PROVE  SessionOK' /\ SequenceOK' /\ SentStop' /\ CalmStop'
<1>t. RowsOK
  BY DEF TypeInv
<1>1. /\ session' = "closed" /\ orphans' = Sent /\ inflight' = NoCommand
      /\ UNCHANGED <<pos, record, prepared, wire, real, did, overtaken>>
      /\ \A c \in Commands : cmd'[c] = IF cmd[c].status \in {"DISPATCHING", "UNKNOWN"}
             THEN [cmd[c] EXCEPT !.status = "UNKNOWN"] ELSE cmd[c]
  BY DEF Restart, Sent, broker, history
<1>2. \A c \in Commands : cmd'[c].status = cmd[c].status
  <2>1. \A c \in Commands : cmd[c].status # "DISPATCHING"
    BY DEF Called, SessionOK
  <2>2. \A c \in Commands : cmd[c].status = "UNKNOWN" => cmd'[c].status = "UNKNOWN"
    BY <1>t, <1>1 DEF RowsOK, CommandRows
  <2> QED BY <1>1, <2>1, <2>2
<1>3. InDoubt' = InDoubt /\ Sent' = Sent /\ Doubted' = Doubted
  BY <1>1, <1>2 DEF InDoubt, Sent, Doubted
<1>4. SessionOK'
  <2>1. wire \subseteq Sent \cup InDoubt
    BY DEF SessionOK, TypeInv, RestOK
  <2> QED BY <1>1, <1>2, <1>3, <2>1 DEF SessionOK
<1>5. SequenceOK'
  BY <1>1, <1>3 DEF SequenceOK
<1> QED BY <1>1, <1>3, <1>4, <1>5 DEF SentStop, CalmStop

LEMMA StreamReconciles ==
  ASSUME TypeInv, SessionOK, SequenceOK, SentStop, CalmStop, transport = "stream",
         Reconciliation
  PROVE  SessionOK' /\ SequenceOK' /\ SentStop' /\ CalmStop'
<1>t. RowsOK /\ KindsOK /\ PositionOK /\ inflight = NoCommand
  BY DEF TypeInv, SessionOK
<1>1. ASSUME NEW c \in Commands, MarkUnknown(c)
      PROVE  SessionOK' /\ SequenceOK' /\ SentStop' /\ CalmStop'
  <2>1. pos'.prot # "CONFIRMED"
    BY <1>t, <1>1 DEF MarkUnknown, DoubtPosition, PositionOK, Positions
  <2> QED BY <1>t, <1>1, <2>1, StreamKept DEF MarkUnknown, broker, history
<1>2. ASSUME NEW c \in Commands, ConfirmTrailing(c) PROVE FALSE
  <2>1. c \in Doubted
    BY <1>2 DEF ConfirmTrailing, SessionOK, InDoubt
  <2> QED BY <1>t, <1>2, <2>1 DEF ConfirmTrailing, Doubted, KindsOK
<1>3. ASSUME NEW c \in Commands, Escalate(c)
      PROVE  SessionOK' /\ SequenceOK' /\ SentStop' /\ CalmStop'
  BY <1>t, <1>3, StreamKept DEF Escalate, projection, broker, history
<1>4. ASSUME ConfirmProtection
      PROVE  SessionOK' /\ SequenceOK' /\ SentStop' /\ CalmStop'
  <2>1. pos'.stop = real.stop
    BY <1>t, <1>4 DEF ConfirmProtection, PositionOK, Positions
  <2> QED BY <1>t, <1>4, <2>1, StreamKept DEF ConfirmProtection, broker, history
<1>5. ASSUME NEW repaired \in BOOLEAN, RepairProtection(repaired)
      PROVE  SessionOK' /\ SequenceOK' /\ SentStop' /\ CalmStop'
  <2>1. ~repaired
    BY <1>5 DEF RepairProtection
  <2>2. pos'.prot # "CONFIRMED" /\ real' = real
    BY <1>t, <1>5, <2>1 DEF RepairProtection, DoubtPosition, PositionOK, Positions
  <2> QED BY <1>t, <1>5, <2>2, StreamKept DEF RepairProtection, history
<1>6. \A c \in Commands : ~RecoverCommand(c)
  BY DEF RecoverCommand
<1> QED BY <1>1, <1>2, <1>3, <1>4, <1>5, <1>6, StreamObserves, ReconcilesBy

LEMMA StreamStepKeeps == StreamInv /\ [Next]_vars => StreamInv'
<1> SUFFICES ASSUME StreamInv, [Next]_vars, transport = "stream"
             PROVE  SessionOK' /\ SequenceOK' /\ SentStop' /\ CalmStop'
  BY DoubtStep, TransportFixed DEF StreamInv, StreamOK
<1>t. /\ TypeInv /\ RowsOK /\ KindsOK /\ BrokerOK /\ Called
      /\ SessionOK /\ SequenceOK /\ SentStop /\ CalmStop /\ inflight = NoCommand
  BY DEF StreamInv, StreamOK, DoubtInv, TypeInv, SessionOK
<1>1. CASE Requests
  <2>1. PICK c \in Commands, r \in CommandRows : RequestDone(c, r)
    BY <1>t, <1>1, RequestEffect
  <2>2. /\ cmd'[c].status = "RECEIVED" /\ \A d \in Commands \ {c} : cmd'[d] = cmd[d]
        /\ cmd[c].status = "RECEIVED" /\ record[c].state = "NONE"
    BY <1>t, <2>1 DEF RequestDone, RowsOK, KindsOK
  <2> QED BY <1>t, <2>1, <2>2, StreamKept DEF RequestDone, broker, history
<1>2. ASSUME DirectDispatch PROVE FALSE
  BY <1>2, <1>t DEF DirectDispatch, CallActs, AnswerClear, AnswerAmbiguous, BeginCall,
                    Incapable, DispatchSettled
<1>3. CASE StreamStep
  <2>1. CASE Heartbeat
    BY <1>t, <2>1, StreamKept DEF Heartbeat, projection, broker, history
  <2> QED BY <1>t, <1>3, <2>1, StreamOpens, StreamLoses, StreamPrepares, StreamSends,
             StreamActs, StreamAnswers DEF StreamStep
<1>4. CASE ExitFills
  <2>1. PICK d \in ExitDeals, v \in 1..Lots : BrokerReduces(d, v)
    BY <1>4 DEF ExitFills, RecordExitFill
  <2>2. real'.stop = real.stop /\ (real'.volume > 0 => real.volume > 0)
    BY <1>t, <2>1 DEF BrokerReduces, BrokerOK
  <2> QED BY <1>t, <2>1, <2>2, StreamKept DEF BrokerReduces, projection, history
<1>5. CASE Reconciliation
  BY <1>t, <1>5, StreamReconciles
<1>6. CASE Restart
  BY <1>t, <1>6, StreamRestarts
<1>7. CASE UNCHANGED vars
  BY <1>t, <1>7, StreamKept DEF vars, projection, broker, history
<1> QED BY <1>1, <1>2, <1>3, <1>4, <1>5, <1>6, <1>7 DEF Next

LEMMA StreamInitially == Init => StreamInv
<1> SUFFICES ASSUME Init PROVE StreamInv
  OBVIOUS
<1>1. \A c \in Commands : cmd[c].status = "RECEIVED" /\ did[c] = "nothing"
                          /\ record[c].state = "NONE"
  BY DEF Init, NoCommandRow, NoRecord
<1>2. /\ pos.stop = 1 /\ real.stop = 1 /\ inflight = NoCommand /\ session = "closed"
      /\ wire = {} /\ orphans = {} /\ DOMAIN prepared = {}
  BY DEF Init
<1>3. SessionOK
  BY <1>1, <1>2 DEF SessionOK, Sent, Doubted, InDoubt
<1>4. SequenceOK /\ SentStop /\ CalmStop
  BY <1>1, <1>2 DEF SequenceOK, SentStop, CalmStop
<1> QED BY <1>3, <1>4, DoubtInitially DEF StreamInv, StreamOK

\* A confirmed stop is the broker's, over an adapter and over the stream: whatever
\* commands, deals, snapshots, lost answers and sessions, and restarts came before.
\* StopIsTheBrokers names the two exceptions.
THEOREM ConfirmedStopIsTheBrokers == Spec => []StopIsTheBrokers
<1>1. DirectInv /\ StreamInv => StopIsTheBrokers
  <2> SUFFICES ASSUME DirectInv, StreamInv, pos.prot = "CONFIRMED", real.volume > 0,
                      ~overtaken, InDoubt = {}, Unlocked,
                      \A c \in Commands : record[c].state # "SENT"
               PROVE  pos.stop = real.stop
    BY DEF StopIsTheBrokers
  <2>1. CASE transport = "direct"
    <3>1. Called /\ OneOpen /\ StopsOK
      BY <2>1 DEF DirectInv, DirectOK, DoubtInv
    <3>2. Open = {}
      BY <3>1 DEF Open, InDoubt, Called, Unlocked
    <3> QED BY <3>1, <3>2 DEF StopsOK, Trailing
  <2>2. CASE transport = "stream"
    BY <2>2 DEF StreamInv, StreamOK, CalmStop, Sent
  <2> QED BY <2>1, <2>2 DEF DirectInv, DoubtInv, TypeInv, PositionOK
<1>2. Spec => []DirectInv
  BY DirectInitially, DirectStep, PTL DEF Spec
<1>3. Spec => []StreamInv
  BY StreamInitially, StreamStepKeeps, PTL DEF Spec
<1> QED BY <1>1, <1>2, <1>3, PTL

-----------------------------------------------------------------------------
(* The projection never shows less than the broker holds: it shows at least *)
(* the broker's volume and every deal it has not counted yet.               *)

Deals == Commands \cup ExitDeals
\* counted by an exit fill, by a snapshot, or by the result of the command
Counted == known \cup {c \in Commands : record[c].state = "ACCEPTED"}

\* g is the volume of a set of deals.
Sums(g) ==
    /\ g \in [SUBSET Deals -> Nat] /\ g[{}] = 0
    /\ \A T \in SUBSET Deals, d \in Deals : d \notin T => g[T \cup {d}] = g[T] + deal[d]
    /\ \A T \in SUBSET Deals : g[T] = g[T \cap Made]

ExposureOK == \E g : Sums(g) /\ pos.remaining >= real.volume + g[Deals \ Counted]

\* A deal is known once it is made, only a command that was executed has one, and a
\* result that is on its way is of a deal that no snapshot has counted.
DealsOK ==
    /\ \A d \in known : deal[d] > 0
    /\ \A c \in Commands : did[c] # "done" => deal[c] = 0
    /\ transport = "stream" => (Sent \ orphans) \cap known = {}

ExposureInv == DirectInv /\ StreamInv /\ DealsOK /\ ExposureOK

\* Nothing happens to the deals, and none is counted.
LEMMA ExposureStill ==
  ASSUME ExposureOK, DealsOK, UNCHANGED <<transport, known, deal, did>>,
         \A c \in Commands : record'[c].state = "ACCEPTED" <=> record[c].state = "ACCEPTED",
         pos'.remaining = pos.remaining, real'.volume = real.volume,
         transport = "stream" => (Sent' \ orphans') \cap known = {}
  PROVE  ExposureOK' /\ DealsOK'
<1>1. Counted' = Counted /\ \A g : Sums(g)' <=> Sums(g)
  BY DEF Counted, Sums, Made
<1>2. ExposureOK'
  BY <1>1 DEF ExposureOK
<1>3. DealsOK'
  BY DEF DealsOK
<1> QED BY <1>2, <1>3

\* The broker makes a deal.
LEMMA ExposureFalls ==
  ASSUME TypeInv, ExposureOK, NEW d \in Deals, NEW v \in Nat, v <= real.volume, v # 0,
         deal[d] = 0, deal' = [deal EXCEPT ![d] = v], real'.volume = real.volume - v,
         UNCHANGED <<pos, known, record>>
  PROVE  ExposureOK'
<1>1. PICK g : Sums(g) /\ pos.remaining >= real.volume + g[Deals \ Counted]
  BY DEF ExposureOK
<1>2. /\ deal \in [Deals -> 0..Lots] /\ real.volume \in Nat /\ pos.remaining \in Nat
      /\ g \in [SUBSET Deals -> Nat]
  BY <1>1 DEF TypeInv, BrokerOK, PositionOK, Positions, Deals, Sums
<1>3. /\ deal'[d] = v /\ \A e \in Deals \ {d} : deal'[e] = deal[e]
      /\ Made' = Made \cup {d} /\ d \notin Made /\ Counted' = Counted
  BY <1>2 DEF Made, Counted, Deals
<1> DEFINE h == [T \in SUBSET Deals |-> g[T] + IF d \in T THEN v ELSE 0]
<1>4. \A T \in SUBSET Deals :
          h[T] = g[T] + (IF d \in T THEN v ELSE 0) /\ g[T] \in Nat /\ h[T] \in Nat
  BY <1>2
<1>5. h \in [SUBSET Deals -> Nat] /\ h[{}] = 0
  BY <1>1, <1>2, <1>4 DEF Sums
<1> HIDE DEF h
<1>6. ASSUME NEW T \in SUBSET Deals, NEW e \in Deals, e \notin T
      PROVE  h[T \cup {e}] = h[T] + deal'[e]
  <2>1. T \cup {e} \in SUBSET Deals /\ g[T \cup {e}] = g[T] + deal[e]
    BY <1>1, <1>6 DEF Sums
  <2>2. CASE e = d
    <3>1. h[T \cup {e}] = g[T] + 0 + v /\ h[T] = g[T] + 0
      BY <1>4, <1>6, <2>1, <2>2
    <3> QED BY <1>3, <1>4, <2>2, <3>1
  <2>3. CASE e # d
    <3>1. (d \in T \cup {e}) <=> d \in T
      BY <2>3
    <3>2. deal'[e] = deal[e] /\ deal[e] \in Nat
      BY <1>2, <1>3, <2>3
    <3> QED BY <1>4, <2>1, <3>1, <3>2
  <2> QED BY <2>2, <2>3
<1>7. ASSUME NEW T \in SUBSET Deals PROVE h[T] = h[T \cap Made']
  <2>1. /\ T \cap Made \in SUBSET Deals /\ T \cap Made' \in SUBSET Deals
        /\ (d \in T \cap Made') <=> d \in T
    BY <1>3
  <2>2. g[T \cap Made'] = g[T]
    <3>1. CASE d \in T
      <4>1. T \cap Made' = (T \cap Made) \cup {d} /\ d \notin T \cap Made
        BY <1>3, <3>1
      <4>2. g[T \cap Made'] = g[T \cap Made] + deal[d]
        BY <1>1, <2>1, <4>1 DEF Sums
      <4>3. g[T \cap Made] = g[T]
        BY <1>1 DEF Sums
      <4> QED BY <1>4, <4>2, <4>3
    <3>2. CASE d \notin T
      <4>1. T \cap Made' = T \cap Made
        BY <1>3, <3>2
      <4> QED BY <1>1, <4>1 DEF Sums
    <3> QED BY <3>1, <3>2
  <2> QED BY <1>4, <2>1, <2>2
<1>8. Sums(h)'
  BY <1>5, <1>6, <1>7 DEF Sums
<1>9. pos'.remaining >= real'.volume + h[Deals \ Counted']
  <2>1. h[Deals \ Counted] <= g[Deals \ Counted] + v /\ h[Deals \ Counted] \in Nat
        /\ g[Deals \ Counted] \in Nat
    BY <1>4
  <2> QED BY <1>1, <1>2, <1>3, <2>1
<1> QED BY <1>8, <1>9 DEF ExposureOK

\* One more deal is counted, and the projection falls by no more than it.
LEMMA ExposureCounts ==
  ASSUME TypeInv, ExposureOK, NEW d \in Deals \ Counted, Counted' = Counted \cup {d},
         deal' = deal, real'.volume = real.volume,
         pos'.remaining \in Nat, pos'.remaining >= pos.remaining - deal[d]
  PROVE  ExposureOK'
<1>1. PICK g : Sums(g) /\ pos.remaining >= real.volume + g[Deals \ Counted]
  BY DEF ExposureOK
<1>2. /\ deal[d] \in Nat /\ real.volume \in Nat /\ pos.remaining \in Nat
      /\ g \in [SUBSET Deals -> Nat]
  BY <1>1 DEF TypeInv, BrokerOK, PositionOK, Positions, Deals, Sums
<1>3. /\ Deals \ Counted = (Deals \ Counted') \cup {d} /\ d \notin Deals \ Counted'
      /\ Deals \ Counted' \in SUBSET Deals
  OBVIOUS
<1>4. g[Deals \ Counted] = g[Deals \ Counted'] + deal[d]
  BY <1>1, <1>3 DEF Sums
<1>5. pos'.remaining >= real'.volume + g[Deals \ Counted']
  BY <1>1, <1>2, <1>3, <1>4
<1>6. Sums(g)'
  BY <1>1 DEF Sums, Made
<1> QED BY <1>5, <1>6 DEF ExposureOK

\* A snapshot counts every deal there is.
LEMMA ExposureSeen ==
  ASSUME TypeInv, ExposureOK, Made \subseteq Counted', deal' = deal,
         real'.volume = real.volume, pos'.remaining \in Nat,
         pos'.remaining >= real.volume
  PROVE  ExposureOK'
<1>1. PICK g : Sums(g)
  BY DEF ExposureOK
<1>2. (Deals \ Counted') \cap Made = {} /\ Deals \ Counted' \in SUBSET Deals
  OBVIOUS
<1>3. g[Deals \ Counted'] = 0
  BY <1>1, <1>2 DEF Sums
<1>4. real.volume \in Nat
  BY DEF TypeInv, BrokerOK
<1>5. Sums(g)'
  BY <1>1 DEF Sums, Made
<1> QED BY <1>3, <1>4, <1>5 DEF ExposureOK

\* The broker closes v lots for c, which had done nothing.
LEMMA ExposureCloses ==
  ASSUME TypeInv, ExposureOK, DealsOK, NEW c \in Commands, NEW v \in 0..Lots,
         did[c] = "nothing", BrokerCloses(c, v),
         UNCHANGED <<transport, pos, known, record, orphans>>
  PROVE  ExposureOK' /\ DealsOK'
<1>1. deal[c] = 0 /\ c \in Deals /\ c \notin known /\ real.volume \in Nat /\ BrokerOK
  BY DEF DealsOK, Deals, TypeInv, BrokerOK
<1>2. Sent' = Sent
  BY DEF Sent
<1>3. CASE v \in 1..real.volume
  <2>1. /\ deal' = [deal EXCEPT ![c] = v] /\ did' = [did EXCEPT ![c] = "done"]
        /\ real'.volume = real.volume - v /\ v <= real.volume /\ v # 0 /\ v \in Nat
    BY <1>1, <1>3 DEF BrokerCloses, BrokerOK
  <2>2. ExposureOK'
    BY <1>1, <2>1, ExposureFalls
  <2>3. DealsOK'
    BY <1>1, <1>2, <2>1 DEF DealsOK, BrokerOK, TypeInv, RestOK
  <2> QED BY <2>2, <2>3
<1>4. CASE v \notin 1..real.volume
  <2>1. /\ real' = real /\ deal' = deal /\ did'[c] = "refused"
        /\ \A d \in Commands \ {c} : did'[d] = did[d]
    BY <1>1, <1>4 DEF BrokerCloses, BrokerOK
  <2>2. Counted' = Counted /\ \A g : Sums(g)' <=> Sums(g)
    BY <2>1 DEF Counted, Sums, Made
  <2>3. ExposureOK'
    BY <2>1, <2>2 DEF ExposureOK
  <2>4. DealsOK'
    BY <1>1, <1>2, <2>1 DEF DealsOK
  <2> QED BY <2>3, <2>4
<1> QED BY <1>3, <1>4

\* The broker moves the stop: no deal is made.
LEMMA ExposureMoves ==
  ASSUME TypeInv, ExposureOK, DealsOK, NEW c \in Commands, NEW s \in 1..MaxStop,
         did[c] = "nothing", BrokerMovesStop(c, s),
         UNCHANGED <<transport, pos, known, record, orphans>>
  PROVE  ExposureOK' /\ DealsOK'
<1>1. /\ deal' = deal /\ real'.volume = real.volume
      /\ \A d \in Commands : did'[d] # "done" => did[d] # "done"
  BY MovesTypes DEF BrokerMovesStop, TypeInv, BrokerOK
<1>2. Sent' = Sent /\ Counted' = Counted /\ \A g : Sums(g)' <=> Sums(g)
  BY <1>1 DEF Sent, Counted, Sums, Made
<1>3. ExposureOK'
  BY <1>1, <1>2 DEF ExposureOK
<1>4. DealsOK'
  BY <1>1, <1>2 DEF DealsOK
<1> QED BY <1>3, <1>4

LEMMA ExposureDispatch ==
  ASSUME ExposureInv, DirectDispatch
  PROVE  ExposureOK' /\ DealsOK'
<1>t. /\ TypeInv /\ ExposureOK /\ DealsOK /\ RowsOK /\ KindsOK /\ PositionOK /\ BrokerOK
      /\ transport = "stream" => (Sent \ orphans) \cap known = {}
  BY DEF ExposureInv, DirectInv, DoubtInv, TypeInv, DealsOK
<1>1. ASSUME CallActs PROVE ExposureOK' /\ DealsOK'
  <2>1. /\ inflight \in Commands /\ did[inflight] = "nothing"
        /\ UNCHANGED <<transport, pos, known, record, orphans>>
    BY <1>t, <1>1 DEF CallActs, TypeInv, RestOK, projection, stream
  <2>2. CASE cmd[inflight].kind = "TRAIL"
    <3>1. BrokerMovesStop(inflight, cmd[inflight].stop) /\ cmd[inflight].stop \in 1..MaxStop
      BY <1>t, <1>1, <2>1, <2>2 DEF CallActs, KindsOK, RowsOK, CommandRows
    <3> QED BY <1>t, <2>1, <3>1, ExposureMoves
  <2>3. CASE cmd[inflight].kind # "TRAIL"
    <3>1. PICK v \in 0..Lots : BrokerCloses(inflight, v)
      BY <1>t, <1>1, <2>1, <2>3 DEF CallActs, RowsOK, CommandRows, BrokerOK
    <3> QED BY <1>t, <2>1, <3>1, ExposureCloses
  <2> QED BY <2>2, <2>3
<1>2. ASSUME AnswerClear PROVE ExposureOK' /\ DealsOK'
  <2>1. pos'.remaining = pos.remaining
    BY <1>t, <1>2 DEF AnswerClear, TrailTo, PositionOK, Positions
  <2>2. Sent' = Sent
    BY <1>2 DEF AnswerClear, Sent
  <2> QED BY <1>t, <1>2, <2>1, <2>2, ExposureStill DEF AnswerClear, stream, broker
<1>3. ASSUME AnswerAmbiguous \/ \E c \in Commands : BeginCall(c) \/ Incapable(c) \/ DispatchSettled(c)
      PROVE  ExposureOK' /\ DealsOK'
  <2>1. UNCHANGED <<transport, pos, record, known, stream, broker>>
    BY <1>3 DEF AnswerAmbiguous, BeginCall, Incapable, DispatchSettled, projection
  <2>2. Sent' = Sent
    BY <2>1 DEF Sent
  <2> QED BY <1>t, <2>1, <2>2, ExposureStill DEF stream, broker
<1> QED BY <1>1, <1>2, <1>3 DEF DirectDispatch

LEMMA ExposureAnswers ==
  ASSUME ExposureInv, transport = "stream",
         NEW c \in Commands, NEW clear \in BOOLEAN, Result(c, clear)
  PROVE  ExposureOK' /\ DealsOK'
<1>t. /\ TypeInv /\ ExposureOK /\ DealsOK /\ RowsOK /\ PositionOK /\ BrokerOK /\ AccountOK
      /\ (Sent \ orphans) \cap known = {}
  BY DEF ExposureInv, DirectInv, DoubtInv, TypeInv, DealsOK
<1>1. /\ UNCHANGED <<transport, known, orphans, real, deal, did>>
      /\ c \in Sent \ orphans
  BY DEF Result, stream, broker, FirstOf, Sent
<1>2. CASE ~clear
  <2>1. Doubtful({c})
    BY <1>2 DEF Result
  <2>2. /\ record'[c].state = "UNKNOWN" /\ record[c].state = "SENT"
        /\ \A d \in Commands \ {c} : record'[d] = record[d]
    BY <1>t, <1>1, <2>1, DoubtfulTypes DEF Sent
  <2>3. pos'.remaining = pos.remaining
    BY <1>t, <2>1 DEF Doubtful, DoubtPosition, PositionOK, Positions
  <2>4. Sent' \subseteq Sent
    BY <2>2 DEF Sent
  <2> QED BY <1>t, <1>1, <2>2, <2>3, <2>4, ExposureStill
<1>3. CASE clear
  <2>1. PICK ss \in {"ACCEPTED", "REJECTED"} :
            /\ record' = [record EXCEPT ![c].state = ss]
            /\ ss = "ACCEPTED" <=> did[c] = "done"
    BY <1>3 DEF Result
  <2>2. record'[c].state = ss /\ \A d \in Commands \ {c} : record'[d] = record[d]
    <3>1. /\ record \in [Commands -> RecordRows] /\ ss \in RecordStates
          /\ record' = [record EXCEPT ![c].state = ss]
      BY <1>t, <2>1 DEF RowsOK
    <3> QED BY ONLY <3>1, StateSet, c \in Commands
  <2>3. Sent' \subseteq Sent /\ record[c].state = "SENT"
    BY <1>1, <2>2 DEF Sent
  <2>4. CASE did[c] # "done"
    <3>1. pos' = pos
      BY <1>3, <2>4 DEF Result
    <3> QED BY <1>t, <1>1, <2>1, <2>2, <2>3, <2>4, <3>1, ExposureStill
  <2>5. CASE did[c] = "done"
    <3>1. c \in Deals \ Counted
      BY <1>t, <1>1, <2>3 DEF Deals, Counted
    <3>2. Counted' = Counted \cup {c}
      BY <1>1, <2>1, <2>2, <2>5 DEF Counted
    <3>3. pos' = Accepted(pos, c)
      BY <1>3, <2>5 DEF Result
    <3>4. pos'.remaining \in Nat /\ pos'.remaining >= pos.remaining - deal[c]
      <4>1. pos.remaining \in Nat /\ deal[c] \in Nat
        BY <1>t DEF PositionOK, Positions, BrokerOK
      <4>2. CASE cmd[c].kind = "PROTECTION"
        <5>1. pos'.remaining = pos.remaining
          BY <1>t, <3>3, <4>2 DEF Accepted, PositionOK, Positions
        <5> QED BY <4>1, <5>1
      <4>3. CASE cmd[c].kind # "PROTECTION"
        <5>1. pos'.remaining = IF deal[c] >= pos.remaining THEN 0 ELSE pos.remaining - deal[c]
          BY <1>t, <3>3, <4>3 DEF Accepted, PositionOK, Positions
        <5> QED BY <4>1, <5>1
      <4> QED BY <4>2, <4>3
    <3>5. ExposureOK'
      BY <1>t, <1>1, <3>1, <3>2, <3>4, ExposureCounts
    <3>6. DealsOK'
      BY <1>t, <1>1, <2>3 DEF DealsOK
    <3> QED BY <3>5, <3>6
  <2> QED BY <2>4, <2>5
<1> QED BY <1>2, <1>3

LEMMA ExposureStream ==
  ASSUME ExposureInv, transport = "stream", StreamStep
  PROVE  ExposureOK' /\ DealsOK'
<1>t. /\ TypeInv /\ ExposureOK /\ DealsOK /\ RowsOK /\ KindsOK /\ PositionOK /\ BrokerOK
      /\ AccountOK /\ SessionOK /\ (Sent \ orphans) \cap known = {}
  BY DEF ExposureInv, DirectInv, DoubtInv, TypeInv, DealsOK, StreamInv, StreamOK
<1>1. ASSUME OpenSession \/ Heartbeat PROVE ExposureOK' /\ DealsOK'
  <2>1. UNCHANGED <<transport, pos, record, known, orphans, broker>>
    BY <1>1 DEF OpenSession, Heartbeat, projection, stream
  <2>2. Sent' = Sent
    BY <2>1 DEF Sent
  <2> QED BY <1>t, <2>1, <2>2, ExposureStill DEF broker
<1>2. ASSUME LoseSession PROVE ExposureOK' /\ DealsOK'
  <2>1. /\ UNCHANGED <<transport, known, real, deal, did>> /\ orphans' = {}
        /\ Doubtful(Sent)
    BY <1>2 DEF LoseSession, Sent, broker
  <2>2. \A c \in Commands :
            /\ c \notin Sent => record'[c] = record[c]
            /\ c \in Sent => record'[c].state = "UNKNOWN" /\ record[c].state = "SENT"
    BY <1>t, <2>1, DoubtfulTypes DEF Sent
  <2>3. Sent' = {}
    BY <2>2 DEF Sent
  <2>4. pos'.remaining = pos.remaining
    BY <1>t, <2>1 DEF Doubtful, DoubtPosition, PositionOK, Positions
  <2> QED BY <1>t, <2>1, <2>2, <2>3, <2>4, ExposureStill
<1>3. ASSUME NEW c \in Commands, Prepare(c) PROVE ExposureOK' /\ DealsOK'
  <2>1. /\ record'[c].state = "QUEUED" /\ record[c].state = "NONE"
        /\ \A d \in Commands \ {c} : record'[d] = record[d]
        /\ UNCHANGED <<transport, pos, known, orphans, real, deal, did>>
    BY <1>t, <1>3 DEF Prepare, RowsOK, NoRecord, stream, broker
  <2>2. Sent' = Sent
    BY <2>1 DEF Sent
  <2> QED BY <1>t, <2>1, <2>2, ExposureStill
<1>4. ASSUME NEW c \in Commands, MarkSent(c) PROVE ExposureOK' /\ DealsOK'
  <2>1. /\ record[c].state = "QUEUED" /\ record' = [record EXCEPT ![c].state = "SENT"]
        /\ UNCHANGED <<transport, pos, known, orphans, real, deal, did>>
    BY <1>4 DEF MarkSent, FirstOf, broker
  <2>2. record'[c].state = "SENT" /\ \A d \in Commands \ {c} : record'[d] = record[d]
    <3>1. record \in [Commands -> RecordRows] /\ "SENT" \in RecordStates
      BY <1>t DEF RowsOK
    <3> QED BY ONLY <2>1, <3>1, StateSet, c \in Commands
  <2>3. c \notin known
    BY <1>t, <2>1 DEF SessionOK, DealsOK
  <2>4. (Sent' \ orphans') \cap known = {}
    BY <1>t, <2>1, <2>2, <2>3 DEF Sent
  <2> QED BY <1>t, <2>1, <2>2, <2>4, ExposureStill
<1>5. ASSUME NEW c \in Commands, Execute(c) PROVE ExposureOK' /\ DealsOK'
  <2>1. /\ did[c] = "nothing" /\ cmd[c].kind \in {"CLOSE", "PROTECTION"}
        /\ UNCHANGED <<transport, pos, known, record, orphans>>
    BY <1>t, <1>5 DEF Execute, FirstOf, SessionOK, KindsOK, projection
  <2>2. CASE cmd[c].kind = "CLOSE"
    <3>1. BrokerCloses(c, record[c].volume) /\ record[c].volume \in 0..Lots
      BY <1>t, <1>5, <2>2 DEF Execute, RowsOK, RecordRows
    <3> QED BY <1>t, <2>1, <3>1, ExposureCloses
  <2>3. CASE cmd[c].kind = "PROTECTION"
    <3>1. BrokerMovesStop(c, cmd[c].stop) /\ cmd[c].stop \in 1..MaxStop
      BY <1>t, <1>5, <2>3 DEF Execute, KindsOK, RowsOK, CommandRows
    <3> QED BY <1>t, <2>1, <3>1, ExposureMoves
  <2> QED BY <2>1, <2>2, <2>3
<1> QED BY <1>1, <1>2, <1>3, <1>4, <1>5, ExposureAnswers DEF StreamStep

LEMMA ExposureFills ==
  ASSUME ExposureInv, ExitFills
  PROVE  ExposureOK' /\ DealsOK'
<1>t. /\ TypeInv /\ ExposureOK /\ DealsOK /\ PositionOK /\ BrokerOK /\ RestOK
      /\ transport = "direct" => Quiet
      /\ transport = "stream" => (Sent \ orphans) \cap known = {}
  BY DEF ExposureInv, DirectInv, DirectOK, DoubtInv, TypeInv, DealsOK
<1>1. ASSUME NEW d \in Deals, NEW s, RecordExitFill(d, s) PROVE ExposureOK' /\ DealsOK'
  <2>1. /\ transport = "direct" /\ transport' = transport
        /\ d \notin known /\ known' = known \cup {d} /\ deal[d] \in 1..pos.remaining
        /\ UNCHANGED <<record, orphans, real, deal, did>>
    BY <1>1 DEF RecordExitFill, stream, broker
  <2>2. pos'.remaining = pos.remaining - deal[d]
    BY <1>t, <1>1 DEF RecordExitFill, PositionOK, Positions
  <2>3. /\ pos.remaining \in Nat /\ deal[d] \in Nat /\ deal[d] > 0
        /\ pos'.remaining \in Nat /\ pos'.remaining >= pos.remaining - deal[d]
    BY <1>t, <2>1, <2>2 DEF PositionOK, Positions, BrokerOK
  <2>4. \A c \in Commands : record[c].state # "ACCEPTED"
    BY <1>t, <2>1 DEF Quiet
  <2>5. Counted' = Counted \cup {d} /\ d \in Deals \ Counted
    BY <2>1, <2>4 DEF Counted
  <2>6. ExposureOK'
    BY <1>t, <2>1, <2>3, <2>5, ExposureCounts
  <2>7. DealsOK'
    BY <1>t, <2>1, <2>3 DEF DealsOK
  <2> QED BY <2>6, <2>7
<1>2. ASSUME NEW d \in ExitDeals, NEW v \in 1..Lots, BrokerReduces(d, v)
      PROVE  ExposureOK' /\ DealsOK'
  <2>1. /\ deal[d] = 0 /\ v \in 1..real.volume /\ real'.volume = real.volume - v
        /\ deal' = [deal EXCEPT ![d] = v] /\ d \in Deals /\ d \notin Commands
        /\ UNCHANGED <<transport, pos, known, record, orphans, did>>
    BY <1>t, <1>2 DEF BrokerReduces, projection, stream, Deals, BrokerOK
  <2>2. v \in Nat /\ v <= real.volume /\ v # 0
    BY <1>t, <2>1 DEF BrokerOK
  <2>3. ExposureOK'
    BY <1>t, <2>1, <2>2, ExposureFalls
  <2>4. \A e \in Deals \ {d} : deal'[e] = deal[e]
    BY <1>t, <2>1 DEF BrokerOK, Deals
  <2>5. d \notin known /\ Sent' = Sent
    BY <1>t, <2>1 DEF DealsOK, Sent
  <2>6. DealsOK'
    BY <1>t, <2>1, <2>4, <2>5 DEF DealsOK, RestOK, Deals
  <2> QED BY <2>3, <2>6
<1> QED BY <1>1, <1>2 DEF ExitFills, Deals

LEMMA ExposureReconciles ==
  ASSUME ExposureInv, Reconciliation
  PROVE  ExposureOK' /\ DealsOK'
<1>t. /\ TypeInv /\ ExposureOK /\ DealsOK /\ PositionOK /\ BrokerOK /\ RowsOK /\ KindsOK
      /\ transport = "stream" => SessionOK
      /\ transport = "stream" => (Sent \ orphans) \cap known = {}
  BY DEF ExposureInv, DirectInv, DoubtInv, TypeInv, DealsOK, StreamInv, StreamOK
<1>1. ASSUME \/ \E c \in Commands :
                    RecoverCommand(c) \/ MarkUnknown(c) \/ ConfirmTrailing(c) \/ Escalate(c)
             \/ ConfirmProtection \/ \E repaired \in BOOLEAN : RepairProtection(repaired)
      PROVE  ExposureOK' /\ DealsOK'
  <2>1. UNCHANGED <<transport, record, known, orphans, deal, did>>
    BY <1>1 DEF RecoverCommand, MarkUnknown, ConfirmTrailing, Escalate, ConfirmProtection,
                RepairProtection, projection, stream, broker
  <2>2. pos'.remaining = pos.remaining /\ real'.volume = real.volume
    <3>1. CASE \E c \in Commands : RecoverCommand(c)
      BY <1>t, <3>1 DEF RecoverCommand, TrailTo, broker, PositionOK, Positions
    <3>2. CASE \E c \in Commands : MarkUnknown(c) \/ ConfirmTrailing(c) \/ Escalate(c)
      BY <1>t, <3>2 DEF MarkUnknown, ConfirmTrailing, Escalate, DoubtPosition, broker,
                        projection, PositionOK, Positions
    <3>3. CASE ConfirmProtection
      BY <1>t, <3>3 DEF ConfirmProtection, broker, PositionOK, Positions
    <3>4. CASE \E repaired \in BOOLEAN : RepairProtection(repaired)
      <4>1. \/ pos' = [pos EXCEPT !.prot = "CONFIRMED", !.stop = pos.native]
            \/ pos' = DoubtPosition(pos)
        BY <3>4 DEF RepairProtection
      <4>2. real' = [real EXCEPT !.stop = pos.native] \/ real' = real
        BY <3>4 DEF RepairProtection
      <4>3. pos'.remaining = pos.remaining
        BY <1>t, <4>1 DEF DoubtPosition, PositionOK, Positions
      <4>4. real'.volume = real.volume
        BY <1>t, <4>2 DEF BrokerOK
      <4> QED BY <4>3, <4>4
    <3> QED BY <1>1, <3>1, <3>2, <3>3, <3>4
  <2>3. Sent' = Sent
    BY <2>1 DEF Sent
  <2> QED BY <1>t, <2>1, <2>2, <2>3, ExposureStill
<1>2. ASSUME NEW S \in SUBSET Commands, NEW D \in SUBSET Commands, Seen(S, D)
      PROVE  ExposureOK' /\ DealsOK'
  <2>1. /\ transport = "stream" => session = "open"
        /\ UNCHANGED <<transport, record, orphans, real, deal, did>>
    BY <1>2 DEF Seen, Snapshot, broker
  <2>2. CASE pos' = pos /\ known' = known
    <3>1. Sent' = Sent
      BY <2>1 DEF Sent
    <3> QED BY <1>t, <2>1, <2>2, <3>1, ExposureStill
  <2>3. CASE /\ \E p \in ObserveTrails(S, D) \cup {pos} : pos' = Project(p)
             /\ known' = known \cup Made
    <3>1. pos'.remaining \in Nat /\ pos'.remaining >= real.volume
      <4>1. PICK p \in Positions : pos' = Project(p)
        BY <1>2, <1>t, <2>3, SeenPosition
      <4>2. p.remaining \in Nat /\ real.volume \in Nat
        BY <1>t DEF Positions, BrokerOK
      <4>3. pos'.remaining = IF real.volume = 0 THEN p.remaining ELSE real.volume
        BY <4>1 DEF Project, Positions
      <4> QED BY <4>2, <4>3
    <3>2. ExposureOK'
      BY <1>t, <2>1, <2>3, <3>1, ExposureSeen DEF Counted
    <3>3. transport = "stream" => Sent' \ orphans' = {}
      BY <1>t, <2>1 DEF SessionOK, Sent
    <3>4. DealsOK'
      BY <1>t, <2>1, <2>3, <3>3 DEF DealsOK, Made, Deals
    <3> QED BY <3>2, <3>4
  <2> QED BY <1>2, <2>2, <2>3 DEF Seen
<1> QED BY <1>t, <1>1, <1>2, ReconcilesBy

LEMMA ExposureStep == ExposureInv /\ [Next]_vars => ExposureInv'
<1> SUFFICES ASSUME ExposureInv, [Next]_vars PROVE ExposureOK' /\ DealsOK'
  BY DirectStep, StreamStepKeeps DEF ExposureInv
<1>t. /\ TypeInv /\ ExposureOK /\ DealsOK /\ (transport = "direct" => Quiet)
      /\ transport \in {"direct", "stream"}
      /\ transport = "stream" => (Sent \ orphans) \cap known = {}
  BY DEF ExposureInv, DirectInv, DirectOK, DoubtInv, TypeInv, PositionOK, DealsOK
<1>1. CASE Requests
  <2>1. PICK c \in Commands, r \in CommandRows : RequestDone(c, r)
    BY <1>t, <1>1, RequestEffect
  <2>2. Sent' = Sent
    BY <2>1 DEF RequestDone, Sent
  <2> QED BY <1>t, <2>1, <2>2, ExposureStill DEF RequestDone, stream, broker
<1>2. CASE DirectDispatch
  BY <1>2, ExposureDispatch
<1>3. CASE StreamStep
  <2>1. CASE transport = "stream"
    BY <1>3, <2>1, ExposureStream
  <2>2. CASE transport = "direct"
    BY <1>3, <1>t, <2>2 DEF StreamStep, OpenSession, LoseSession, Heartbeat, Prepare,
                            MarkSent, Execute, Result, FirstOf, Quiet
  <2> QED BY <1>t, <2>1, <2>2
<1>4. CASE ExitFills
  BY <1>4, ExposureFills
<1>5. CASE Reconciliation
  BY <1>5, ExposureReconciles
<1>6. CASE Restart
  <2>1. /\ orphans' = Sent /\ UNCHANGED <<transport, pos, record, known, real, deal, did>>
    BY <1>6 DEF Restart, Sent, broker
  <2>2. Sent' \ orphans' = {}
    BY <2>1 DEF Sent
  <2> QED BY <1>t, <2>1, <2>2, ExposureStill
<1>7. CASE UNCHANGED vars
  <2>1. Sent' = Sent
    BY <1>7 DEF vars, projection, Sent
  <2> QED BY <1>t, <1>7, <2>1, ExposureStill DEF vars, projection, stream, broker
<1> QED BY <1>1, <1>2, <1>3, <1>4, <1>5, <1>6, <1>7 DEF Next

LEMMA ExposureInitially == Init => ExposureInv
<1> SUFFICES ASSUME Init PROVE ExposureInv
  OBVIOUS
<1>1. /\ \A d \in Deals : deal[d] = 0
      /\ known = {} /\ pos.remaining = Lots /\ real.volume = Lots
      /\ Sent = {}
  BY DEF Init, Deals, Sent, NoRecord
<1> DEFINE g == [T \in SUBSET Deals |-> 0]
<1>2. g \in [SUBSET Deals -> Nat] /\ \A T \in SUBSET Deals : g[T] = 0
  OBVIOUS
<1> HIDE DEF g
<1>3. Sums(g)
  <2>1. \A T \in SUBSET Deals, d \in Deals : T \cup {d} \in SUBSET Deals
    OBVIOUS
  <2>2. \A T \in SUBSET Deals : T \cap Made \in SUBSET Deals
    OBVIOUS
  <2> QED BY <1>1, <1>2, <2>1, <2>2 DEF Sums
<1>4. g[Deals \ Counted] = 0 /\ Lots \in Nat
  BY <1>2
<1>5. ExposureOK
  BY <1>1, <1>3, <1>4 DEF ExposureOK
<1>6. DealsOK
  BY <1>1 DEF DealsOK, Deals
<1> QED BY <1>5, <1>6, DirectInitially, StreamInitially DEF ExposureInv

\* The projection never shows less exposure than the broker holds, however often and
\* in whatever order deals reach it: by results, exit fills and snapshots.
THEOREM ExposureIsNotUnderstated == Spec => []ExposureNotUnderstated
<1>1. ExposureInv => ExposureNotUnderstated
  <2> SUFFICES ASSUME ExposureInv PROVE pos.remaining >= real.volume
    BY DEF ExposureNotUnderstated
  <2>1. PICK g : Sums(g) /\ pos.remaining >= real.volume + g[Deals \ Counted]
    BY DEF ExposureInv, ExposureOK
  <2>2. g[Deals \ Counted] \in Nat
    BY <2>1 DEF Sums
  <2>3. real.volume \in Nat /\ pos.remaining \in Nat
    BY DEF ExposureInv, DirectInv, DoubtInv, TypeInv, BrokerOK, PositionOK, Positions
  <2> QED BY <2>1, <2>2, <2>3
<1>2. Spec => []ExposureInv
  BY ExposureInitially, ExposureStep, PTL DEF Spec
<1> QED BY <1>1, <1>2, PTL

-----------------------------------------------------------------------------
(* The dispatch records are treated as StreamPromise says.                 *)

ViewAnswers == SentCommands \ (wire \cup orphans)
Promised == <<RecordState, StreamSession, wire, ViewAnswers>>

\* What is SENT without a session was sent by a process that is gone.
ViewOK == TypeInv /\ (session = "closed" => SentCommands \subseteq orphans)

LEMMA ViewHolds == DirectInv /\ StreamInv => ViewOK
<1> SUFFICES ASSUME DirectInv, StreamInv PROVE ViewOK
  OBVIOUS
<1>1. TypeInv /\ transport \in {"direct", "stream"}
  BY DEF StreamInv, DoubtInv, TypeInv, PositionOK
<1>2. CASE transport = "direct"
  BY <1>1, <1>2 DEF DirectInv, DirectOK, Quiet, ViewOK, SentCommands
<1>3. CASE transport = "stream"
  BY <1>1, <1>3 DEF StreamInv, StreamOK, SessionOK, Sent, ViewOK, SentCommands
<1> QED BY <1>1, <1>2, <1>3

\* A step that touches no record, no frame and no session is a stutter.
LEMMA ViewStays ==
  ASSUME UNCHANGED record, UNCHANGED stream
  PROVE  [Stream!Next]_Promised
<1>1. RecordState' = RecordState /\ SentCommands' = SentCommands
  BY DEF RecordState, SentCommands
<1> QED BY <1>1 DEF stream, Promised, ViewAnswers, StreamSession

\* The state of one record is rewritten.
LEMMA OneState ==
  ASSUME NEW c \in Commands, NEW v, record'[c].state = v,
         \A d \in Commands : d # c => record'[d].state = record[d].state
  PROVE  /\ RecordState' = [RecordState EXCEPT ![c] = v]
         /\ v = "SENT" => SentCommands' = SentCommands \cup {c}
         /\ v # "SENT" => SentCommands' = SentCommands \ {c}
  BY DEF RecordState, SentCommands

LEMMA CommandRefines ==
  ASSUME ViewOK, NEW c \in Commands, Prepare(c) \/ MarkSent(c) \/ Execute(c)
  PROVE  [Stream!Next]_Promised
<1>0. TypeInv /\ record \in [Commands -> RecordRows]
  BY DEF ViewOK, TypeInv, RowsOK
<1>1. CASE Prepare(c)
  <2>1. /\ record[c].state = "NONE" /\ record'[c].state = "QUEUED" /\ UNCHANGED stream
        /\ \A d \in Commands : d # c => record'[d].state = record[d].state
    BY <1>0, <1>1 DEF Prepare, NoRecord
  <2>2. RecordState' = [RecordState EXCEPT ![c] = "QUEUED"] /\ SentCommands' = SentCommands \ {c}
    BY <2>1, OneState
  <2>3. c \notin SentCommands /\ RecordState[c] = "NONE"
    BY <2>1 DEF SentCommands, RecordState
  <2>4. Stream!Queue(c)
    BY <2>1, <2>2, <2>3 DEF Stream!Queue, stream, StreamSession
  <2> QED BY <2>4 DEF Stream!Next
<1>2. CASE MarkSent(c)
  <2>1. /\ session = "ready" /\ record[c].state = "QUEUED"
        /\ record' = [record EXCEPT ![c].state = "SENT"]
        /\ wire' = wire \cup {c} /\ UNCHANGED <<session, orphans>>
    BY <1>2 DEF MarkSent, FirstOf
  <2>2. record'[c].state = "SENT" /\ \A d \in Commands : d # c => record'[d].state = record[d].state
    BY <1>0, <2>1, StateSet
  <2>3. RecordState' = [RecordState EXCEPT ![c] = "SENT"] /\ SentCommands' = SentCommands \cup {c}
    BY <2>2, OneState
  <2>4. c \notin SentCommands /\ RecordState[c] = "QUEUED"
    BY <2>1 DEF SentCommands, RecordState
  <2>5. ViewAnswers' = ViewAnswers
    BY <2>1, <2>3, <2>4 DEF ViewAnswers
  <2>6. Stream!Send(c)
    BY <2>1, <2>3, <2>4, <2>5 DEF Stream!Send, StreamSession, ViewAnswers
  <2> QED BY <2>6 DEF Stream!Next
<1>3. CASE Execute(c)
  <2>1. c \in wire /\ wire' = wire \ {c} /\ UNCHANGED <<record, session, orphans>>
    BY <1>3 DEF Execute, FirstOf, projection
  <2>2. RecordState' = RecordState /\ SentCommands' = SentCommands
    BY <2>1 DEF RecordState, SentCommands
  <2>3. ViewAnswers' \in {ViewAnswers, ViewAnswers \cup {c}}
    BY <2>1, <2>2 DEF ViewAnswers
  <2>4. Stream!Act(c)
    BY <2>1, <2>2, <2>3 DEF Stream!Act, StreamSession, ViewAnswers
  <2> QED BY <2>4 DEF Stream!Next
<1> QED BY <1>1, <1>2, <1>3

LEMMA ResultRefines ==
  ASSUME ViewOK, NEW c \in Commands, NEW clear \in BOOLEAN, Result(c, clear)
  PROVE  [Stream!Next]_Promised
<1>0. PositionOK /\ RowsOK /\ AccountOK /\ record \in [Commands -> RecordRows]
  BY DEF ViewOK, TypeInv, RowsOK
<1>1. /\ session # "closed" /\ record[c].state = "SENT" /\ c \notin wire \cup orphans
      /\ UNCHANGED stream
  BY DEF Result, FirstOf
<1>2. PICK v \in {"ACCEPTED", "REJECTED", "UNKNOWN"} :
          /\ record'[c].state = v
          /\ \A d \in Commands : d # c => record'[d].state = record[d].state
  <2>1. CASE clear
    <3>1. PICK v \in {"ACCEPTED", "REJECTED"} : record' = [record EXCEPT ![c].state = v]
      BY <2>1 DEF Result
    <3> QED BY <1>0, <3>1, StateSet
  <2>2. CASE ~clear
    <3>1. Doubtful({c})
      BY <2>2 DEF Result
    <3>2. /\ record'[c].state = "UNKNOWN"
          /\ \A d \in Commands : d \notin {c} => record'[d] = record[d]
      BY <1>0, <3>1, DoubtfulTypes
    <3> QED BY <3>2
  <2> QED BY <2>1, <2>2
<1>3. RecordState' = [RecordState EXCEPT ![c] = v] /\ SentCommands' = SentCommands \ {c}
  BY <1>2, OneState
<1>4. /\ RecordState[c] = "SENT" /\ c \in ViewAnswers /\ ViewAnswers' = ViewAnswers \ {c}
      /\ StreamSession # "closed" /\ StreamSession' = StreamSession
  BY <1>1, <1>3 DEF RecordState, SentCommands, ViewAnswers, StreamSession, stream
<1>5. Stream!Settle(c, v)
  BY <1>1, <1>3, <1>4 DEF Stream!Settle, ViewAnswers, stream
<1>6. v \in Stream!Verdicts
  BY <1>2 DEF Stream!Verdicts
<1> QED BY <1>5, <1>6 DEF Stream!Next

LEMMA ConnectionRefines ==
  ASSUME ViewOK, OpenSession \/ LoseSession \/ Heartbeat
  PROVE  [Stream!Next]_Promised
<1>0. PositionOK /\ RowsOK /\ AccountOK
  BY DEF ViewOK, TypeInv
<1>1. CASE OpenSession
  <2>1. /\ session = "closed" /\ session' = "open" /\ wire' = {}
        /\ UNCHANGED <<record, orphans>>
    BY <1>1 DEF OpenSession, projection
  <2>2. RecordState' = RecordState /\ SentCommands' = SentCommands
    BY <2>1 DEF RecordState, SentCommands
  <2>3. ViewAnswers' = {}
    BY <2>1, <2>2 DEF ViewAnswers, ViewOK
  <2>4. Stream!Open
    BY <2>1, <2>2, <2>3 DEF Stream!Open, StreamSession, ViewAnswers
  <2> QED BY <2>4 DEF Stream!Next
<1>2. CASE LoseSession
  <2>1. /\ session # "closed" /\ session' = "closed" /\ orphans' = {} /\ wire' = wire
        /\ Doubtful(SentCommands)
    BY <1>2 DEF LoseSession, SentCommands
  <2>2. \A c \in Commands :
            /\ c \in SentCommands => record'[c].state = "UNKNOWN"
            /\ c \notin SentCommands => record'[c] = record[c]
    BY <1>0, <2>1, DoubtfulTypes
  <2>3. RecordState' = [c \in Commands |-> IF RecordState[c] = "SENT" THEN "UNKNOWN"
                                           ELSE RecordState[c]]
    BY <2>2 DEF RecordState, SentCommands
  <2>4. SentCommands' = {}
    BY <2>2 DEF SentCommands
  <2>5. Stream!Lose
    BY <2>1, <2>3, <2>4 DEF Stream!Lose, StreamSession, ViewAnswers
  <2> QED BY <2>5 DEF Stream!Next
<1>3. CASE Heartbeat
  BY <1>3, ViewStays DEF Heartbeat, projection
<1> QED BY <1>1, <1>2, <1>3

\* Only a snapshot on the stream changes its session.
LEMMA SnapshotRefines ==
  ASSUME ViewOK, NEW S \in SUBSET Commands, NEW D \in SUBSET Commands, Seen(S, D)
  PROVE  [Stream!Next]_Promised
<1>1. UNCHANGED <<record, wire, orphans>>
  BY DEF Seen
<1>2. RecordState' = RecordState /\ SentCommands' = SentCommands /\ ViewAnswers' = ViewAnswers
  BY <1>1 DEF RecordState, SentCommands, ViewAnswers
<1>3. CASE transport = "direct"
  <2>1. UNCHANGED stream
    BY <1>1, <1>3 DEF Seen, stream
  <2> QED BY <1>1, <2>1, ViewStays
<1>4. CASE transport = "stream"
  <2>1. session = "open" /\ session' \in {"seen", "ready"}
    BY <1>4 DEF Seen, Snapshot
  <2>2. CASE session' = "seen"
    BY <1>1, <1>2, <2>1, <2>2 DEF Promised, StreamSession
  <2>3. CASE session' = "ready"
    <3>1. Reconciled(S, work')
      BY <1>4, <2>3 DEF Seen
    <3>2. \A c \in Commands : RecordState[c] # "UNKNOWN"
      BY <3>1 DEF Reconciled, RecordState
    <3>3. Stream!Ready
      BY <1>1, <1>2, <2>1, <2>3, <3>2 DEF Stream!Ready, StreamSession, ViewAnswers
    <3> QED BY <3>3 DEF Stream!Next
  <2> QED BY <2>1, <2>2, <2>3
<1> QED BY <1>3, <1>4 DEF ViewOK, TypeInv, PositionOK

LEMMA ViewRefines == ViewOK /\ [Next]_vars => [Stream!Next]_Promised
<1> SUFFICES ASSUME ViewOK, [Next]_vars PROVE [Stream!Next]_Promised
  OBVIOUS
<1>1. CASE Requests
  BY <1>1, ViewStays DEF Requests, RequestClose, RequestProtection, RequestTrailing
<1>2. CASE DirectDispatch
  BY <1>2, ViewStays DEF DirectDispatch, CallActs, AnswerClear, AnswerAmbiguous, BeginCall,
     Incapable, DispatchSettled, projection
<1>3. CASE StreamStep
  BY <1>3, CommandRefines, ResultRefines, ConnectionRefines DEF StreamStep
<1>4. CASE ExitFills
  BY <1>4, ViewStays DEF ExitFills, RecordExitFill, BrokerReduces, projection
<1>5. CASE Reconciliation
  <2>1. ASSUME NEW S \in SUBSET Commands, NEW D \in SUBSET Commands, Seen(S, D)
        PROVE  [Stream!Next]_Promised
    BY <2>1, SnapshotRefines
  <2>2. CASE \/ \E c \in Commands :
                    RecoverCommand(c) \/ MarkUnknown(c) \/ ConfirmTrailing(c) \/ Escalate(c)
             \/ ConfirmProtection \/ \E repaired \in BOOLEAN : RepairProtection(repaired)
    <3>1. UNCHANGED record /\ UNCHANGED stream
      BY <2>2 DEF RecoverCommand, MarkUnknown, ConfirmTrailing, Escalate,
         ConfirmProtection, RepairProtection, projection
    <3> QED BY <3>1, ViewStays
  <2> QED BY <1>5, <2>1, <2>2, ReconcilesBy DEF ViewOK
<1>6. CASE Restart
  <2>1. /\ session' = "closed" /\ orphans' = SentCommands /\ UNCHANGED <<record, wire>>
    BY <1>6 DEF Restart, SentCommands
  <2>2. RecordState' = RecordState /\ SentCommands' = SentCommands
    BY <2>1 DEF RecordState, SentCommands
  <2>3. Stream!Crash
    BY <2>1, <2>2 DEF Stream!Crash, StreamSession, ViewAnswers
  <2> QED BY <2>3 DEF Stream!Next
<1>7. CASE UNCHANGED vars
  BY <1>7, ViewStays DEF vars, projection
<1> QED BY <1>1, <1>2, <1>3, <1>4, <1>5, <1>6, <1>7 DEF Next

\* Position commands keep to the promise of the stream, over an adapter and over the
\* stream: a record goes to SENT in a session that was ready, is settled by the
\* result of that session alone and then never changes, whatever snapshots, lost
\* sessions and restarts come in between.
THEOREM PositionsKeepPromise == Spec => StreamSpec
<1>1. Init => Stream!Init
  BY DEF Init, NoRecord, Stream!Init, RecordState, StreamSession, SentCommands
<1>2. StreamSpec <=> Stream!Init /\ [][Stream!Next]_Promised
  BY DEF StreamSpec, Stream!Spec, Stream!vars, Promised, ViewAnswers
<1>3. Spec => []DirectInv
  BY DirectInitially, DirectStep, PTL DEF Spec
<1>4. Spec => []StreamInv
  BY StreamInitially, StreamStepKeeps, PTL DEF Spec
<1> QED
  BY <1>1, <1>2, <1>3, <1>4, ViewHolds, ViewRefines, PTL DEF Spec

-----------------------------------------------------------------------------
(* The projection follows reductions only, and CLOSED means flat.          *)

ClosedOK == pos.stage = "CLOSED" => pos.remaining = 0
ClosedInv == ExposureInv /\ ClosedOK

\* p is the position with its stops or its protection changed.
SameVolume(p) == p.remaining = pos.remaining /\ p.stage = pos.stage

LEMMA NoMoreThanRemains ==
  ASSUME ExposureInv
  PROVE  /\ TypeInv /\ pos \in Positions /\ BrokerOK
         /\ pos.remaining \in Nat /\ real.volume \in Nat /\ real.volume <= pos.remaining
<1>1. PICK g : Sums(g) /\ pos.remaining >= real.volume + g[Deals \ Counted]
  BY DEF ExposureInv, ExposureOK
<1>2. g[Deals \ Counted] \in Nat
  BY <1>1 DEF Sums
<1>3. TypeInv /\ pos \in Positions /\ BrokerOK
  BY DEF ExposureInv, DirectInv, DoubtInv, TypeInv, PositionOK
<1>4. real.volume \in Nat /\ pos.remaining \in Nat
  BY <1>3 DEF BrokerOK, Positions
<1> QED BY <1>1, <1>2, <1>3, <1>4

LEMMA VolumeStays ==
  ASSUME pos \in Positions, NEW c
  PROVE  SameVolume(pos) /\ SameVolume(TrailTo(pos, c)) /\ SameVolume(DoubtPosition(pos))
  BY DEF SameVolume, TrailTo, DoubtPosition, Positions

\* The result of a close takes off what was filled; the last lot closes the position.
LEMMA AcceptedFalls ==
  ASSUME pos \in Positions, BrokerOK, NEW c \in Commands
  PROVE  /\ Accepted(pos, c).remaining \in 0..pos.remaining
         /\ \/ SameVolume(Accepted(pos, c))
            \/ Accepted(pos, c).stage \in {"CLOSED", pos.stage}
               /\ (Accepted(pos, c).stage = "CLOSED" =>
                       Accepted(pos, c).remaining = 0 \/ pos.stage = "CLOSED")
<1>t. pos.remaining \in Nat /\ deal[c] \in Nat
  BY DEF Positions, BrokerOK, Deals
<1>1. CASE cmd[c].kind = "PROTECTION"
  BY <1>t, <1>1 DEF Accepted, SameVolume, Positions
<1>2. CASE cmd[c].kind # "PROTECTION"
  <2> DEFINE left == IF deal[c] >= pos.remaining THEN 0 ELSE pos.remaining - deal[c]
  <2>1. left \in 0..pos.remaining
    BY <1>t
  <2>2. Accepted(pos, c) =
            [pos EXCEPT !.remaining = left, !.stage = IF left = 0 THEN "CLOSED" ELSE @]
    BY <1>2 DEF Accepted
  <2> HIDE DEF left
  <2>3. /\ Accepted(pos, c).remaining = left
        /\ Accepted(pos, c).stage = IF left = 0 THEN "CLOSED" ELSE pos.stage
    BY <2>2 DEF Positions
  <2> QED BY <2>1, <2>3
<1> QED BY <1>1, <1>2

LEMMA VolumeFalls ==
  ASSUME ClosedInv, [Next]_vars
  PROVE  pos'.remaining <= pos.remaining /\ ClosedOK'
<1>t. /\ TypeInv /\ pos \in Positions /\ BrokerOK /\ ClosedOK
      /\ pos.remaining \in Nat /\ real.volume \in Nat /\ real.volume <= pos.remaining
  BY NoMoreThanRemains DEF ClosedInv
<1>0. ASSUME SameVolume(pos') PROVE pos'.remaining <= pos.remaining /\ ClosedOK'
  BY <1>t, <1>0 DEF SameVolume, ClosedOK
<1>1. CASE Requests
  <2>1. PICK c \in Commands, r \in CommandRows : RequestDone(c, r)
    BY <1>t, <1>1, RequestEffect
  <2> QED BY <1>t, <2>1 DEF RequestDone, ClosedOK
<1>2. CASE DirectDispatch
  <2>1. pos' = pos \/ pos' = TrailTo(pos, inflight)
    BY <1>2 DEF DirectDispatch, CallActs, AnswerClear, AnswerAmbiguous, BeginCall,
                Incapable, DispatchSettled, projection
  <2> QED BY <1>0, <1>t, <2>1, VolumeStays
<1>3. CASE StreamStep
  <2>1. ASSUME NEW c \in Commands, pos' = Accepted(pos, c)
        PROVE  pos'.remaining <= pos.remaining /\ ClosedOK'
    BY <1>0, <1>t, <2>1, AcceptedFalls DEF ClosedOK
  <2>2. ASSUME NEW c \in Commands, NEW clear \in BOOLEAN, Result(c, clear)
        PROVE  pos'.remaining <= pos.remaining /\ ClosedOK'
    <3>1. pos' \in {pos, DoubtPosition(pos), Accepted(pos, c)}
      BY <2>2 DEF Result, Doubtful
    <3> QED BY <1>0, <1>t, <2>1, <3>1, VolumeStays
  <2>3. CASE OpenSession \/ LoseSession \/ Heartbeat
             \/ \E c \in Commands : Prepare(c) \/ MarkSent(c) \/ Execute(c)
    <3>1. pos' \in {pos, DoubtPosition(pos)}
      BY <2>3 DEF OpenSession, LoseSession, Heartbeat, Prepare, MarkSent, Execute,
                  Doubtful, projection
    <3> QED BY <1>0, <1>t, <3>1, VolumeStays
  <2> QED BY <1>3, <2>2, <2>3 DEF StreamStep
<1>4. CASE ExitFills
  <2>1. ASSUME NEW d \in Deals, NEW s, RecordExitFill(d, s)
        PROVE  pos'.remaining <= pos.remaining /\ ClosedOK'
    <3>1. deal[d] \in 1..pos.remaining /\ deal[d] \in Nat
      BY <1>t, <2>1 DEF RecordExitFill
    <3>2. /\ pos'.remaining = pos.remaining - deal[d]
          /\ pos'.stage = "CLOSED" => pos.remaining = deal[d] \/ pos.stage = "CLOSED"
      BY <1>t, <2>1 DEF RecordExitFill, Positions
    <3> QED BY <1>t, <3>1, <3>2 DEF ClosedOK
  <2>2. ASSUME NEW d \in ExitDeals, NEW v, BrokerReduces(d, v) PROVE SameVolume(pos')
    BY <1>t, <2>2, VolumeStays DEF BrokerReduces, projection
  <2> QED BY <1>0, <1>4, <2>1, <2>2 DEF ExitFills, Deals
<1>5. CASE Reconciliation
  <2>1. ASSUME \/ \E c \in Commands :
                      RecoverCommand(c) \/ MarkUnknown(c) \/ ConfirmTrailing(c) \/ Escalate(c)
               \/ ConfirmProtection \/ \E repaired \in BOOLEAN : RepairProtection(repaired)
        PROVE  SameVolume(pos')
    <3>1. \/ pos' \in {pos, DoubtPosition(pos)} \/ \E c \in Commands : pos' = TrailTo(pos, c)
          \/ \E c \in Commands : pos' = [pos EXCEPT !.stop = cmd[c].stop]
          \/ pos' = [pos EXCEPT !.prot = "CONFIRMED"]
          \/ pos' = [pos EXCEPT !.prot = "CONFIRMED", !.stop = pos.native]
      BY <2>1 DEF RecoverCommand, MarkUnknown, ConfirmTrailing, Escalate, projection,
                  ConfirmProtection, RepairProtection
    <3> QED BY <1>t, <3>1, VolumeStays DEF SameVolume, Positions
  <2>2. ASSUME NEW S \in SUBSET Commands, NEW D \in SUBSET Commands, Seen(S, D)
        PROVE  pos'.remaining <= pos.remaining /\ ClosedOK'
    <3>1. real' = real
      BY <2>2 DEF Seen, broker
    <3>2. CASE pos' = pos
      BY <1>0, <1>t, <3>2, VolumeStays
    <3>3. CASE \E p \in ObserveTrails(S, D) \cup {pos} : pos' = Project(p)
      <4>1. PICK p \in ObserveTrails(S, D) \cup {pos} : pos' = Project(p)
        BY <3>3
      <4>2. p \in Positions /\ SameVolume(p)
        BY <1>t, <2>2, <4>1, SeenPosition, VolumeStays
      <4>3. /\ pos'.stage = pos.stage
            /\ pos'.remaining = IF real.volume = 0 THEN pos.remaining ELSE real.volume
        BY <4>1, <4>2 DEF Project, Positions, SameVolume
      <4> QED BY <1>t, <4>3 DEF ClosedOK
    <3> QED BY <2>2, <3>2, <3>3 DEF Seen
  <2> QED BY <1>0, <1>5, <1>t, <2>1, <2>2, ReconcilesBy
<1>6. CASE Restart \/ UNCHANGED vars
  <2>1. pos' = pos
    BY <1>6 DEF Restart, vars, projection
  <2> QED BY <1>0, <1>t, <2>1, VolumeStays
<1> QED BY <1>1, <1>2, <1>3, <1>4, <1>5, <1>6 DEF Next

LEMMA ClosedInvariant == Spec => []ClosedInv
<1>1. Init => ClosedInv
  <2>1. Init => ClosedOK
    BY PositionAssumption DEF Init, ClosedOK
  <2> QED BY <2>1, ExposureInitially DEF ClosedInv
<1>2. ClosedInv /\ [Next]_vars => ClosedInv'
  BY VolumeFalls, ExposureStep DEF ClosedInv
<1> QED BY <1>1, <1>2, PTL DEF Spec

\* A position that is called CLOSED has nothing left, in the projection and at the
\* broker, whichever result, exit fill or snapshot came last.
THEOREM ClosedPositionsAreFlat == Spec => []ClosedIsFlat
<1>1. ClosedInv => ClosedIsFlat
  BY NoMoreThanRemains DEF ClosedInv, ClosedOK, ClosedIsFlat
<1> QED BY <1>1, ClosedInvariant, PTL

\* No late result, exit fill or snapshot gives the projection volume back.
THEOREM RemainingNeverGrows == Spec => RemainingOnlyFalls
<1>1. ClosedInv /\ [Next]_vars => [pos'.remaining <= pos.remaining]_vars
  BY VolumeFalls
<1> QED BY <1>1, ClosedInvariant, PTL DEF Spec, RemainingOnlyFalls

-----------------------------------------------------------------------------
(* What is settled about a command is what the broker did.                 *)

\* A frame on the wire may still be executed: its command is not settled.
WireOpen == \A c \in wire : cmd[c].status \in {"RECEIVED", "UNKNOWN"}
VerdictInv == DirectInv /\ StreamInv /\ VerdictIsTrue /\ WireOpen

LEMMA DeniedGrows == [Next]_vars => denied \subseteq denied'
<1>1. Reconciliation => denied \subseteq denied'
  BY DEF Reconciliation, RecoverCommand, MarkUnknown, ConfirmTrailing, Escalate, Observe,
         ObserveRaises, DeniedAfter, ConfirmProtection, RepairProtection, history
<1>2. Requests \/ DirectDispatch \/ ExitFills => denied' = denied
  BY DEF Requests, RequestClose, RequestProtection, RequestTrailing, DirectDispatch, CallActs,
         AnswerClear, AnswerAmbiguous, BeginCall, Incapable, DispatchSettled, ExitFills,
         RecordExitFill, BrokerReduces, history
<1>3. StreamStep \/ Restart \/ UNCHANGED vars => denied' = denied
  BY DEF StreamStep, OpenSession, LoseSession, Heartbeat, Prepare, MarkSent, Execute, Result,
         Restart, vars, history
<1> QED BY <1>1, <1>2, <1>3 DEF Next

\* Each command is in doubt, or as it was, or settled as the broker says, or denied.
LEMMA VerdictKept ==
  ASSUME VerdictIsTrue, denied \subseteq denied',
         \A c \in Commands :
             \/ cmd'[c].status \in {"RECEIVED", "DISPATCHING", "UNKNOWN"}
             \/ cmd'[c].status = cmd[c].status /\ did'[c] = did[c]
             \/ cmd'[c].status = "CONFIRMED" /\ did'[c] = "done"
             \/ cmd'[c].status = "REJECTED" /\ (did'[c] # "done" \/ c \in denied')
  PROVE  VerdictIsTrue'
  BY DEF VerdictIsTrue

LEMMA VerdictDispatch ==
  ASSUME VerdictInv, DirectDispatch, denied \subseteq denied'
  PROVE  VerdictIsTrue' /\ WireOpen'
<1>t. /\ TypeInv /\ RowsOK /\ BrokerOK /\ KindsOK /\ VerdictIsTrue /\ WireOpen
      /\ transport = "direct" => Quiet
      /\ transport = "stream" => SessionOK
      /\ transport \in {"direct", "stream"} /\ inflight \in Commands \cup {NoCommand}
      /\ cmd \in [Commands -> CommandRows] /\ wire \subseteq Commands
  BY DEF VerdictInv, DirectInv, DirectOK, DoubtInv, TypeInv, StreamInv, StreamOK, RowsOK,
         PositionOK, RestOK
<1>0. inflight # NoCommand => transport = "direct" /\ cmd[inflight].status = "DISPATCHING"
  BY <1>t DEF Quiet, SessionOK
<1>1. CASE CallActs
  <2>1. inflight \in Commands /\ inflight # NoCommand
    BY <1>t, <1>1 DEF CallActs
  <2>2. cmd[inflight].kind = "TRAIL" => cmd[inflight].stop \in 1..MaxStop
    BY <1>t, <2>1 DEF KindsOK, CommandRows
  <2>3. \A d \in Commands \ {inflight} : did'[d] = did[d]
    BY <1>t, <1>1, <2>1, <2>2, ClosesTypes, MovesTypes DEF CallActs
  <2>4. cmd' = cmd /\ wire' = wire
    BY <1>1 DEF CallActs, projection, stream
  <2> QED BY <1>0, <1>t, <2>1, <2>3, <2>4, VerdictKept DEF WireOpen
<1>2. ASSUME NEW c \in Commands, NEW st \in Statuses,
             cmd' = [cmd EXCEPT ![c].status = st], did' = did, wire' = wire,
             transport = "direct",
             st = "CONFIRMED" => did[c] = "done", st = "REJECTED" => did[c] # "done"
      PROVE  VerdictIsTrue' /\ WireOpen'
  <2>1. cmd'[c].status = st /\ \A d \in Commands \ {c} : cmd'[d] = cmd[d]
    BY <1>t, <1>2, CommandSet
  <2>2. wire = {}
    BY <1>t, <1>2 DEF Quiet
  <2>3. VerdictIsTrue'
    BY <1>t, <1>2, <2>1 DEF VerdictIsTrue
  <2> QED BY <1>2, <2>2, <2>3 DEF WireOpen
<1>3. CASE AnswerClear
  <2>1. PICK st \in Statuses :
            /\ cmd' = [cmd EXCEPT ![inflight].status = st]
            /\ st = "CONFIRMED" => did[inflight] = "done"
            /\ st = "REJECTED" => did[inflight] # "done"
    BY <1>3 DEF AnswerClear, Statuses
  <2> QED BY <1>0, <1>2, <1>3, <1>t, <2>1 DEF AnswerClear, stream, broker
<1>4. CASE AnswerAmbiguous
  BY <1>0, <1>2, <1>4, <1>t DEF AnswerAmbiguous, stream, broker, Statuses
<1>5. CASE \E c \in Commands : BeginCall(c)
  BY <1>2, <1>5, <1>t DEF BeginCall, stream, broker, Statuses
<1>6. CASE \E c \in Commands : Incapable(c)
  <2>1. PICK c \in Commands : Incapable(c)
    BY <1>6
  <2>2. did[c] = "nothing"
    BY <1>t, <2>1 DEF Incapable, Quiet
  <2> QED BY <1>2, <2>1, <2>2 DEF Incapable, stream, broker, Statuses
<1>7. CASE \E c \in Commands : DispatchSettled(c)
  BY <1>7, <1>t, VerdictKept DEF DispatchSettled, projection, stream, broker, WireOpen
<1> QED BY <1>1, <1>3, <1>4, <1>5, <1>6, <1>7, <1>t DEF DirectDispatch

LEMMA VerdictStream ==
  ASSUME VerdictInv, StreamStep, denied \subseteq denied'
  PROVE  VerdictIsTrue' /\ WireOpen'
<1>t. /\ TypeInv /\ RowsOK /\ BrokerOK /\ KindsOK /\ VerdictIsTrue /\ WireOpen
      /\ PositionOK /\ AccountOK
      /\ transport = "direct" => Quiet
      /\ transport = "stream" => SessionOK
      /\ transport \in {"direct", "stream"} /\ wire \subseteq Commands
      /\ cmd \in [Commands -> CommandRows]
  BY DEF VerdictInv, DirectInv, DirectOK, DoubtInv, TypeInv, StreamInv, StreamOK, RowsOK,
         PositionOK, RestOK
<1>1. CASE OpenSession \/ Heartbeat \/ \E c \in Commands : Prepare(c)
  <2>1. cmd' = cmd /\ did' = did /\ wire' \subseteq wire
    BY <1>1 DEF OpenSession, Heartbeat, Prepare, projection, stream, broker
  <2> QED BY <1>t, <2>1, VerdictKept DEF WireOpen
<1>2. ASSUME NEW S \in SUBSET Commands, Doubtful(S), did' = did, wire' = wire
      PROVE  VerdictIsTrue' /\ WireOpen'
  <2>1. \A c \in Commands : cmd'[c].status \in {"UNKNOWN", cmd[c].status}
    BY <1>t, <1>2, DoubtfulTypes
  <2>2. VerdictIsTrue'
    BY <1>t, <1>2, <2>1 DEF VerdictIsTrue
  <2>3. WireOpen'
    BY <1>t, <1>2, <2>1 DEF WireOpen
  <2> QED BY <2>2, <2>3
<1>3. CASE LoseSession
  BY <1>2, <1>3 DEF LoseSession, broker
<1>4. CASE \E c \in Commands : MarkSent(c)
  <2>1. PICK c \in Commands : MarkSent(c)
    BY <1>4
  <2>2. cmd' = cmd /\ did' = did /\ wire' = wire \cup {c}
    BY <2>1 DEF MarkSent, broker
  <2>3. cmd[c].status = "RECEIVED"
    BY <1>t, <2>1 DEF MarkSent, FirstOf, SessionOK, Quiet
  <2> QED BY <1>t, <2>2, <2>3, VerdictKept DEF WireOpen
<1>5. CASE \E c \in Commands : Execute(c)
  <2>1. PICK c \in Commands : Execute(c)
    BY <1>5
  <2>2. c \in wire /\ wire' = wire \ {c} /\ cmd' = cmd
    BY <2>1 DEF Execute, FirstOf, projection
  <2>3. cmd[c].kind # "CLOSE" => cmd[c].stop \in 1..MaxStop
    BY <1>t, <2>2 DEF KindsOK, CommandRows
  <2>4. \A d \in Commands \ {c} : did'[d] = did[d]
    BY <1>t, <2>1, <2>3, ClosesTypes, MovesTypes DEF Execute
  <2>5. cmd'[c].status \in {"RECEIVED", "UNKNOWN"}
    BY <1>t, <2>2 DEF WireOpen
  <2>6. VerdictIsTrue'
    BY <1>t, <2>2, <2>4, <2>5, VerdictKept
  <2> QED BY <1>t, <2>2, <2>6 DEF WireOpen
<1>6. ASSUME NEW c \in Commands, NEW clear \in BOOLEAN, Result(c, clear)
      PROVE  VerdictIsTrue' /\ WireOpen'
  <2>1. did' = did /\ wire' = wire /\ c \notin wire
    BY <1>6 DEF Result, stream, broker
  <2>2. CASE ~clear
    BY <1>2, <1>6, <2>1, <2>2 DEF Result
  <2>3. CASE clear
    <3>1. PICK st \in Statuses :
              /\ cmd' = [cmd EXCEPT ![c].status = st]
              /\ st = "CONFIRMED" => did[c] = "done"
              /\ st = "REJECTED" => did[c] # "done"
      BY <1>6, <2>3 DEF Result, Statuses
    <3>2. cmd'[c].status = st /\ \A d \in Commands \ {c} : cmd'[d] = cmd[d]
      BY <1>t, <3>1, CommandSet
    <3>3. VerdictIsTrue'
      BY <1>t, <2>1, <3>1, <3>2 DEF VerdictIsTrue
    <3> QED BY <1>t, <2>1, <3>2, <3>3 DEF WireOpen
  <2> QED BY <2>2, <2>3
<1> QED BY <1>1, <1>3, <1>4, <1>5, <1>6 DEF StreamStep

LEMMA VerdictReconciles ==
  ASSUME VerdictInv, Reconciliation, denied \subseteq denied'
  PROVE  VerdictIsTrue' /\ WireOpen'
<1>t. /\ TypeInv /\ RowsOK /\ VerdictIsTrue /\ WireOpen
      /\ transport = "direct" => Quiet
      /\ transport = "stream" => SessionOK
      /\ transport \in {"direct", "stream"} /\ wire \subseteq Commands
      /\ cmd \in [Commands -> CommandRows]
  BY DEF VerdictInv, DirectInv, DirectOK, DoubtInv, TypeInv, StreamInv, StreamOK, RowsOK,
         PositionOK, RestOK
<1>1. ASSUME NEW c \in Commands, NEW st \in Statuses,
             cmd' = [cmd EXCEPT ![c].status = st], did' = did, wire' = wire, c \notin wire,
             st = "CONFIRMED" => did[c] = "done", st = "REJECTED" => did[c] # "done"
      PROVE  VerdictIsTrue' /\ WireOpen'
  <2>1. cmd'[c].status = st /\ \A d \in Commands \ {c} : cmd'[d] = cmd[d]
    BY <1>t, <1>1, CommandSet
  <2>2. VerdictIsTrue'
    BY <1>t, <1>1, <2>1 DEF VerdictIsTrue
  <2> QED BY <1>t, <1>1, <2>1, <2>2 DEF WireOpen
<1>2. ASSUME cmd' = cmd, did' = did, wire' = wire PROVE VerdictIsTrue' /\ WireOpen'
  BY <1>t, <1>2, VerdictKept DEF WireOpen
<1>3. ASSUME NEW c \in Commands, RecoverCommand(c) PROVE VerdictIsTrue' /\ WireOpen'
  <2>1. wire = {} /\ did' = did /\ wire' = wire
    BY <1>t, <1>3 DEF RecoverCommand, Quiet, stream, broker
  <2>2. cmd' = cmd \/ cmd' = [cmd EXCEPT ![c].status = Verdict(c)]
    BY <1>3 DEF RecoverCommand
  <2>3. /\ Verdict(c) \in Statuses
        /\ Verdict(c) = "CONFIRMED" => did[c] = "done"
        /\ Verdict(c) = "REJECTED" => did[c] # "done"
    BY DEF Verdict, Statuses
  <2>4. CASE cmd' = cmd
    BY <1>2, <2>1, <2>4
  <2>5. CASE cmd' = [cmd EXCEPT ![c].status = Verdict(c)]
    BY <1>1, <2>1, <2>3, <2>5
  <2> QED BY <2>2, <2>4, <2>5
<1>4. ASSUME NEW c \in Commands, ConfirmTrailing(c) PROVE VerdictIsTrue' /\ WireOpen'
  <2>1. did[c] = "done" /\ did' = did /\ wire' = wire /\ "CONFIRMED" \in Statuses
        /\ cmd' = [cmd EXCEPT ![c].status = "CONFIRMED"]
    BY <1>4 DEF ConfirmTrailing, stream, broker, Statuses
  <2>2. c \notin wire
    BY <1>t, <2>1 DEF Quiet, SessionOK
  <2> QED BY <1>1, <2>1, <2>2
<1>5. CASE \/ \E c \in Commands : MarkUnknown(c) \/ Escalate(c)
           \/ ConfirmProtection \/ \E repaired \in BOOLEAN : RepairProtection(repaired)
  <2>1. cmd' = cmd /\ did' = did /\ wire' = wire
    BY <1>5 DEF MarkUnknown, Escalate, ConfirmProtection, RepairProtection, projection,
                stream, broker
  <2> QED BY <1>2, <2>1
\* A snapshot settles a command as the broker did it, or denies it.
<1>6. ASSUME NEW S \in SUBSET Commands, NEW D \in SUBSET Commands, Seen(S, D)
      PROVE  VerdictIsTrue' /\ WireOpen'
  <2>1. /\ cmd' = ObserveCommands(S, D) /\ did' = did /\ wire' = wire
        /\ denied' = DeniedAfter(S, D)
        /\ S \subseteq {c \in Commands : cmd[c].status = "UNKNOWN" \/ did[c] # "nothing"}
    BY <1>6 DEF Seen, Snapshot, broker
  <2>2. wire = {}
    BY <1>6, <1>t DEF Seen, Snapshot, SessionOK, Quiet
  <2>3. \A c \in Commands : \/ cmd'[c] = cmd[c]
                            \/ cmd'[c].status = Reported(c, D) /\ c \in Heard(S, D)
    BY <1>t, <2>1, ObservedTypes DEF TypeInv
  <2>4. \A c \in Commands :
            \/ cmd'[c] = cmd[c]
            \/ cmd'[c].status = "CONFIRMED" /\ did[c] = "done"
            \/ cmd'[c].status = "REJECTED" /\ (did[c] # "done" \/ c \in denied')
    BY <2>1, <2>3 DEF Reported, Verdict, DeniedAfter
  <2>5. VerdictIsTrue'
    BY <1>t, <2>1, <2>4, VerdictKept
  <2> QED BY <2>1, <2>2, <2>5 DEF WireOpen
<1> QED BY <1>3, <1>4, <1>5, <1>6, <1>t, ReconcilesBy

LEMMA VerdictStep ==
  ASSUME VerdictInv, [Next]_vars
  PROVE  VerdictIsTrue' /\ WireOpen'
<1>0. denied \subseteq denied'
  BY DeniedGrows
<1>t. /\ TypeInv /\ RowsOK /\ VerdictIsTrue /\ WireOpen /\ cmd \in [Commands -> CommandRows]
      /\ wire \subseteq Commands
  BY DEF VerdictInv, DirectInv, DoubtInv, TypeInv, RowsOK, RestOK
<1>1. CASE Requests
  <2>1. PICK c \in Commands, r \in CommandRows : RequestDone(c, r)
    BY <1>t, <1>1, RequestEffect
  <2>2. /\ cmd' = [cmd EXCEPT ![c] = r] /\ r.status = "RECEIVED"
        /\ did' = did /\ wire' = wire
    BY <2>1 DEF RequestDone, stream, broker
  <2>3. \A d \in Commands : cmd'[d] = cmd[d] \/ cmd'[d].status = "RECEIVED"
    BY <1>t, <2>2
  <2> QED BY <1>t, <2>2, <2>3, VerdictKept, <1>0 DEF WireOpen
<1>2. CASE ExitFills
  <2>1. cmd' = cmd /\ did' = did /\ wire' = wire
    BY <1>2 DEF ExitFills, RecordExitFill, BrokerReduces, projection, stream, broker
  <2> QED BY <1>t, <2>1, VerdictKept, <1>0 DEF WireOpen
<1>3. CASE Restart
  <2>1. \A c \in Commands :
            cmd'[c] = cmd[c] \/ cmd'[c] = [cmd[c] EXCEPT !.status = "UNKNOWN"]
    BY <1>3 DEF Restart
  <2>2. \A c \in Commands : [cmd[c] EXCEPT !.status = "UNKNOWN"].status = "UNKNOWN"
    BY <1>t DEF CommandRows
  <2>3. did' = did /\ wire' = wire
    BY <1>3 DEF Restart, broker
  <2>4. VerdictIsTrue'
    BY <1>t, <2>1, <2>2, <2>3, VerdictKept, <1>0
  <2> QED BY <1>t, <2>1, <2>2, <2>3, <2>4 DEF WireOpen
<1>4. CASE UNCHANGED vars
  BY <1>t, <1>4, VerdictKept, <1>0 DEF vars, projection, stream, broker, WireOpen
<1> QED BY <1>0, <1>1, <1>2, <1>3, <1>4, VerdictDispatch, VerdictStream, VerdictReconciles DEF Next

\* What the answer, the read-back or a snapshot settles about a command is what the
\* broker did, and stays true: no frame of a settled command is acted on later.  The
\* commands that a snapshot of the connector denied are REJECTED although executed.
THEOREM VerdictsAreTrue == Spec => []VerdictIsTrue
<1>1. Init => VerdictInv
  <2>1. Init => VerdictIsTrue /\ WireOpen
    BY DEF Init, VerdictIsTrue, WireOpen, NoCommandRow
  <2> QED BY <2>1, DirectInitially, StreamInitially DEF VerdictInv
<1>2. VerdictInv /\ [Next]_vars => VerdictInv'
  BY VerdictStep, DirectStep, StreamStepKeeps DEF VerdictInv
<1>3. VerdictInv => VerdictIsTrue
  BY DEF VerdictInv
<1> QED BY <1>1, <1>2, <1>3, PTL DEF Spec

=============================================================================
