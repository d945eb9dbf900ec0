---------------------- MODULE ExecutionCoordinatorProofs ----------------------
(***************************************************************************)
(* Proofs about ExecutionCoordinator, for any set of orders, either         *)
(* transport, any health reports and any number of restarts.               *)
(*                                                                         *)
(* Every operation changes the account only through the helpers of          *)
(* AccountGate, so that it is enough to know of each helper that it keeps   *)
(* the account well formed, never takes the custodian's quarantine away and *)
(* opens the gate only under its own condition: relation Gently below.      *)
(*                                                                         *)
(* Of the orders (OrderInv) it is kept which of them were not handed over   *)
(* yet and which still bind risk; of doubt (DoubtOK), that the reason       *)
(* RECONCILIATION_PENDING or custody fences the account.                   *)
(***************************************************************************)
EXTENDS ExecutionCoordinator, TLAPS

USE DEF Gates, Locks, Reasons, RuntimeHealthReasons, ConnectorReasons,
        ProtectionReasons

\* A quarantine that needs the custodian keeps the gate closed.
Held(a) == a.custody => a.gate = "QUARANTINED"

\* b follows a without taking custody away; the gate opens only if safe.
Gently(a, b, safe) ==
    /\ b \in Account /\ Held(b)
    /\ a.custody => b.custody
    /\ b.recovering => a.recovering
    /\ b.gate = "OPEN" => a.gate = "OPEN" \/ safe

LEMMA GentlyRefl ==
  ASSUME NEW a \in Account, Held(a), NEW safe PROVE Gently(a, a, safe)
  BY DEF Gently

LEMMA FreshType == FreshAccount \in Account /\ Held(FreshAccount)
  BY DEF FreshAccount, Account, Held

LEMMA QuarantinedGate ==
  ASSUME NEW a \in Account
  PROVE  Gently(a, [a EXCEPT !.gate = "QUARANTINED"], FALSE)
  BY DEF Account, Held, Gently

LEMMA SetInterlockGentle ==
  ASSUME NEW a \in Account, Held(a), NEW reasons \in SUBSET Reasons,
         NEW persistent \in BOOLEAN
  PROVE  Gently(a, SetInterlock(a, reasons, persistent), FALSE)
<1>1. CASE a.custody /\ ~persistent
  BY <1>1, GentlyRefl DEF SetInterlock
<1>2. CASE ~(a.custody /\ ~persistent)
  <2> DEFINE b == [a EXCEPT !.lock = IF persistent THEN "QUARANTINED" ELSE "BLOCKED",
                            !.reasons = @ \cup reasons,
                            !.custody = @ \/ persistent,
                            !.gate = "QUARANTINED"]
  <2>1. SetInterlock(a, reasons, persistent) = b
    BY <1>2 DEF SetInterlock
  <2>2. b \in Account
    BY DEF Account
  <2>3. b.gate = "QUARANTINED" /\ (a.custody => b.custody) /\ (b.recovering => a.recovering)
    BY DEF Account
  <2> HIDE DEF b
  <2> QED BY <2>1, <2>2, <2>3 DEF Gently, Held
<1> QED BY <1>1, <1>2

LEMMA FenceGentle ==
  ASSUME NEW a \in Account, Held(a) PROVE Gently(a, Fence(a), FALSE)
  BY DEF Fence, Account, Held, Gently

LEMMA QuarantineGentle ==
  ASSUME NEW a \in Account, Held(a) PROVE Gently(a, Quarantine(a), FALSE)
<1> DEFINE b == [a EXCEPT !.gate = "QUARANTINED"]
<1>1. Gently(a, b, FALSE)
  BY QuarantinedGate
<1>2. Gently(b, Fence(b), FALSE)
  BY <1>1, FenceGentle DEF Gently
<1>3. Gently(Fence(b), Quarantine(a), FALSE)
  BY <1>2, SetInterlockGentle DEF Gently, Quarantine
<1> QED BY <1>1, <1>2, <1>3 DEF Gently

LEMMA RestoreIfSafeGentle ==
  ASSUME NEW a \in Account, Held(a), NEW exposed \in BOOLEAN, NEW underFenced
  PROVE  Gently(a, RestoreIfSafe(a, exposed, underFenced), ~exposed)
<1>1. CASE a.custody \/ a.reasons # {} \/ exposed \/ underFenced
  BY <1>1, GentlyRefl DEF RestoreIfSafe
<1>2. CASE ~(a.custody \/ a.reasons # {} \/ exposed \/ underFenced)
  <2> DEFINE b == [a EXCEPT !.lock = "ELIGIBLE",
                            !.gate = IF @ = "QUARANTINED" THEN "OPEN" ELSE @]
  <2>1. RestoreIfSafe(a, exposed, underFenced) = b
    BY <1>2 DEF RestoreIfSafe
  <2>2. b \in Account /\ (b.custody <=> a.custody) /\ (b.recovering <=> a.recovering)
    BY DEF Account
  <2> HIDE DEF b
  <2> QED BY <1>2, <2>1, <2>2 DEF Gently, Held
<1> QED BY <1>1, <1>2

LEMMA RemoveReasonsGentle ==
  ASSUME NEW a \in Account, Held(a), NEW gone, NEW exposed \in BOOLEAN, NEW underFenced
  PROVE  Gently(a, RemoveReasons(a, gone, exposed, underFenced), ~exposed)
<1> DEFINE b == [a EXCEPT !.reasons = @ \ gone]
<1>1. Gently(a, b, FALSE)
  BY DEF Gently, Account, Held
<1> HIDE DEF b
<1>2. Gently(b, b, FALSE) /\ Gently(b, RestoreIfSafe(b, exposed, underFenced), ~exposed)
  BY <1>1, GentlyRefl, RestoreIfSafeGentle DEF Gently
<1>3. RemoveReasons(a, gone, exposed, underFenced)
          \in {b, RestoreIfSafe(b, exposed, underFenced)}
  BY DEF RemoveReasons, b
<1> QED BY <1>1, <1>2, <1>3 DEF Gently

LEMMA RestoreTemporaryGentle ==
  ASSUME NEW a \in Account, Held(a), NEW unresolved, NEW unconfirmed \in BOOLEAN,
         NEW underFenced
  PROVE  Gently(a, RestoreTemporary(a, unresolved, unconfirmed, underFenced), ~unconfirmed)
<1> DEFINE stays == \/ unresolved \/ unconfirmed \/ a.reasons # {} \/ a.custody
                    \/ a.gate # "QUARANTINED"
<1>1. CASE stays
  BY <1>1, GentlyRefl DEF RestoreTemporary
<1>2. CASE ~stays /\ underFenced
  <2>1. RestoreTemporary(a, unresolved, unconfirmed, underFenced)
            = [a EXCEPT !.gate = "FENCE_PENDING"]
    BY <1>2 DEF RestoreTemporary
  <2> QED BY <1>2, <2>1 DEF Gently, Held, Account
<1>3. CASE ~stays /\ ~underFenced
  <2>1. RestoreTemporary(a, unresolved, unconfirmed, underFenced)
            = [a EXCEPT !.gate = "OPEN", !.lock = "ELIGIBLE"]
    BY <1>3 DEF RestoreTemporary
  <2> QED BY <1>3, <2>1 DEF Gently, Held, Account
<1> QED BY <1>1, <1>2, <1>3

LEMMA CompleteRestartGentle ==
  ASSUME NEW a \in Account, Held(a), NEW unresolved
  PROVE  Gently(a, CompleteRestart(a, unresolved), a.recovering)
<1>1. CASE ~a.recovering \/ unresolved \/ a.custody
  BY <1>1, GentlyRefl DEF CompleteRestart
<1>2. CASE ~(~a.recovering \/ unresolved \/ a.custody)
  <2>1. CompleteRestart(a, unresolved) \in Account /\ ~CompleteRestart(a, unresolved).custody
    BY <1>2 DEF CompleteRestart, Account
  <2> QED BY <1>2, <2>1 DEF Gently, Held
<1> QED BY <1>1, <1>2

\* The start of restart recovery opens nothing.
LEMMA BeginRestartGentle ==
  ASSUME NEW a \in Account, Held(a)
  PROVE  /\ BeginRestart(a) \in Account /\ Held(BeginRestart(a))
         /\ a.custody => BeginRestart(a).custody
         /\ BeginRestart(a).gate = "OPEN" => a.gate = "OPEN"
  BY DEF BeginRestart, Account, Held

\* The custodian's recovery opens the gate over confirmed protection only.
LEMMA RecoverSafe ==
  ASSUME NEW a \in Account, Held(a), NEW exposed \in BOOLEAN, NEW underFenced
  PROVE  LET b == Recover(a, exposed, underFenced)
         IN  b \in Account /\ Held(b) /\ (b.gate = "OPEN" => a.gate = "OPEN" \/ ~exposed)
<1>1. CASE a.lock # "QUARANTINED"
  BY <1>1, RestoreIfSafeGentle DEF Recover, Gently
<1>2. CASE a.lock = "QUARANTINED" /\ exposed
  BY <1>2 DEF Recover
<1>3. CASE a.lock = "QUARANTINED" /\ ~exposed
  BY <1>3 DEF Recover, Account, Held
<1> QED BY <1>1, <1>2, <1>3

-----------------------------------------------------------------------------
(* The account over the steps of the coordinator.                          *)

AccountOK == acct \in Account /\ Held(acct)

\* The open positions after a step are protected, or a restart completes.
MayOpen == \/ \A o \in Orders \ closed' : prot'[o] \in {"NONE", "CONFIRMED"}
           \/ acct.recovering

LEMMA ExposedBoolean ==
  ASSUME NEW p PROVE Exposed(p) \in BOOLEAN /\ Unconfirmed(p) \in BOOLEAN
  BY DEF Exposed, Unconfirmed

LEMMA NotExposed ==
  ASSUME closed' = closed
  PROVE  /\ ~Exposed(prot') => MayOpen
         /\ ~Unconfirmed(prot') => MayOpen
         /\ prot' = prot /\ ~Exposed(prot) => MayOpen
  BY DEF Exposed, Unconfirmed, MayOpen

LEMMA RecordUnknownAccount ==
  ASSUME NEW S, NEW a \in Account, Held(a), NEW os, RecordUnknown(S, a, os)
  PROVE  Gently(a, acct', FALSE)
<1>1. acct' \in {a, Quarantine(a)}
  BY DEF RecordUnknown
<1> QED BY <1>1, GentlyRefl, QuarantineGentle

LEMMA HealthyAccount ==
  ASSUME AccountOK, acct' = Healthy(acct), prot' = prot, closed' = closed
  PROVE  Gently(acct, acct', MayOpen)
<1>1. Gently(acct, acct', ~Exposed(prot))
  BY RemoveReasonsGentle, ExposedBoolean DEF AccountOK, Healthy
<1> QED BY <1>1, NotExposed DEF Gently

LEMMA CompleteWorkAccount ==
  ASSUME NEW S, NEW a \in Account, Held(a), NEW os, NEW p
  PROVE  Gently(a, CompleteWork(S, a, os, p), ~Exposed(p) \/ ~Unconfirmed(p))
<1> DEFINE done == Converged(S, os)
           b == IF done = {} THEN a
                ELSE RemoveReasons(a, {"RECONCILIATION_PENDING"}, Exposed(p), underFence)
           left == Unresolved(work) \ done
<1>1. CompleteWork(S, a, os, p) = RestoreTemporary(b, left # {}, Unconfirmed(p), underFence)
  BY DEF CompleteWork
<1> HIDE DEF done, left
<1>2. Gently(a, b, ~Exposed(p))
  BY GentlyRefl, RemoveReasonsGentle, ExposedBoolean
<1> HIDE DEF b
<1>3. Gently(b, CompleteWork(S, a, os, p), ~Unconfirmed(p))
  BY <1>1, <1>2, RestoreTemporaryGentle, ExposedBoolean DEF Gently
<1> QED BY <1>2, <1>3 DEF Gently

LEMMA LoseSessionAccount ==
  ASSUME AccountOK, NEW clean \in BOOLEAN, LoseSession(clean)
  PROVE  Gently(acct, acct', FALSE)
<1>1. PICK a \in {acct, Quarantine(acct)} :
          acct' = IF clean THEN a ELSE SetInterlock(a, ConnectorReasons, FALSE)
  BY DEF LoseSession
<1>2. Gently(acct, a, FALSE)
  BY GentlyRefl, QuarantineGentle DEF AccountOK
<1>3. Gently(a, SetInterlock(a, ConnectorReasons, FALSE), FALSE)
  BY <1>2, SetInterlockGentle DEF Gently
<1> QED BY <1>1, <1>2, <1>3 DEF Gently

\* A raised gate, a fence and a lesser reason, in the orders the code has them.
LEMMA DoubtAccount ==
  ASSUME AccountOK
  PROVE  LET g == [acct EXCEPT !.gate = "QUARANTINED"]
         IN  /\ Gently(acct, SetInterlock(Fence(g), ProtectionReasons, FALSE), FALSE)
             /\ Gently(acct, SetInterlock(g, ProtectionReasons, FALSE), FALSE)
<1> DEFINE g == [acct EXCEPT !.gate = "QUARANTINED"]
<1>1. Gently(acct, g, FALSE)
  BY QuarantinedGate DEF AccountOK
<1> HIDE DEF g
<1>2. Gently(g, Fence(g), FALSE)
  BY <1>1, FenceGentle DEF Gently
<1>3. Gently(Fence(g), SetInterlock(Fence(g), ProtectionReasons, FALSE), FALSE)
  BY <1>2, SetInterlockGentle DEF Gently
<1>4. Gently(g, SetInterlock(g, ProtectionReasons, FALSE), FALSE)
  BY <1>1, SetInterlockGentle DEF Gently
<1>5. /\ Gently(acct, SetInterlock(Fence(g), ProtectionReasons, FALSE), FALSE)
      /\ Gently(acct, SetInterlock(g, ProtectionReasons, FALSE), FALSE)
  BY <1>1, <1>2, <1>3, <1>4 DEF Gently
<1> QED BY <1>5 DEF g

LEMMA FencedInterlock ==
  ASSUME AccountOK, NEW reasons \in SUBSET Reasons, NEW persistent \in BOOLEAN
  PROVE  Gently(acct, SetInterlock(Fence(acct), reasons, persistent), FALSE)
<1>1. Gently(acct, Fence(acct), FALSE)
  BY FenceGentle DEF AccountOK
<1>2. Gently(Fence(acct), SetInterlock(Fence(acct), reasons, persistent), FALSE)
  BY <1>1, SetInterlockGentle DEF Gently
<1> QED BY <1>1, <1>2 DEF Gently

LEMMA PositionsAccount ==
  ASSUME AccountOK, Positions PROVE Gently(acct, acct', MayOpen)
<1> PICK o \in Orders :
        \/ DoubtProtection(o) \/ ConfirmProtection(o) \/ Disconnected(o)
        \/ ClosePosition(o)
        \/ \E yes \in BOOLEAN : RecordFill(o, yes) \/ RepairProtection(o, yes)
  BY DEF Positions
<1>1. CASE DoubtProtection(o)
  BY <1>1, DoubtAccount DEF DoubtProtection, Gently
<1>2. CASE ConfirmProtection(o)
  <2> DEFINE a == RemoveReasons(acct, ProtectionReasons, Exposed(prot'), underFence)
             b == [a EXCEPT !.gate = "QUARANTINED"]
             c == RestoreTemporary(a, FALSE, Unconfirmed(prot'), underFence)
  <2>1. acct' = (IF Unresolved(work) # {} THEN b ELSE c) /\ closed' = closed
    BY <1>2 DEF ConfirmProtection
  <2>2. Gently(acct, a, ~Exposed(prot'))
    BY RemoveReasonsGentle, ExposedBoolean DEF AccountOK
  <2> HIDE DEF a
  <2>3. Gently(a, b, FALSE)
    BY <2>2, QuarantinedGate DEF Gently
  <2>4. Gently(a, c, ~Unconfirmed(prot'))
    BY <2>2, RestoreTemporaryGentle, ExposedBoolean DEF Gently
  <2> HIDE DEF b, c
  <2> QED BY <2>1, <2>2, <2>3, <2>4, NotExposed DEF Gently
<1>3. CASE Disconnected(o)
  <2>1. acct' \in {SetInterlock(Fence(acct), ConnectorReasons, FALSE),
                   SetInterlock([acct EXCEPT !.gate = "QUARANTINED"], ProtectionReasons, FALSE)}
    BY <1>3 DEF Disconnected
  <2> QED BY <2>1, DoubtAccount, FencedInterlock DEF Gently
<1>4. CASE ClosePosition(o)
  BY <1>4, GentlyRefl DEF ClosePosition, AccountOK
<1>5. ASSUME NEW yes \in BOOLEAN, RecordFill(o, yes) PROVE Gently(acct, acct', MayOpen)
  <2>1. acct' \in {acct, SetInterlock(Fence([acct EXCEPT !.gate = "QUARANTINED"]),
                                      ProtectionReasons, FALSE)}
    BY <1>5 DEF RecordFill
  <2> QED BY <2>1, DoubtAccount, GentlyRefl DEF Gently, AccountOK
<1>6. ASSUME NEW yes \in BOOLEAN, RepairProtection(o, yes) PROVE Gently(acct, acct', MayOpen)
  <2>1. /\ acct' \in {RemoveReasons(acct, ProtectionReasons, Exposed(prot'), underFence),
                      SetInterlock(Fence(acct), {"NATIVE_PROTECTION_UNVERIFIED"}, TRUE)}
        /\ closed' = closed
    BY <1>6 DEF RepairProtection
  <2>2. Gently(acct, RemoveReasons(acct, ProtectionReasons, Exposed(prot'), underFence),
               ~Exposed(prot'))
    BY RemoveReasonsGentle, ExposedBoolean DEF AccountOK
  <2>3. Gently(acct, SetInterlock(Fence(acct), {"NATIVE_PROTECTION_UNVERIFIED"}, TRUE), FALSE)
    BY FencedInterlock
  <2> QED BY <2>1, <2>2, <2>3, NotExposed DEF Gently
<1> QED BY <1>1, <1>2, <1>3, <1>4, <1>5, <1>6

LEMMA BareAccount ==
  ASSUME AccountOK, NEW bare PROVE Gently(acct, BareSeen(bare), FALSE)
<1>1. BareSeen(bare) \in
          {acct, SetInterlock([acct EXCEPT !.gate = "QUARANTINED"], ProtectionReasons, FALSE)}
  BY DEF BareSeen
<1> QED BY <1>1, DoubtAccount, GentlyRefl DEF AccountOK

LEMMA ReconciliationAccount ==
  ASSUME AccountOK, Reconciliation PROVE Gently(acct, acct', MayOpen)
<1>1. ASSUME NEW o \in Orders, RecoverOrder(o) PROVE Gently(acct, acct', MayOpen)
  <2> DEFINE os == [order EXCEPT ![o] = RecoveredRow(o)]
             a == CompleteWork({o}, acct, os, prot)
  <2>1. /\ acct' = CompleteRestart(a, Unresolved(work') # {})
        /\ prot' = prot /\ closed' = closed
    BY <1>1 DEF RecoverOrder
  <2>2. Gently(acct, a, ~Exposed(prot) \/ ~Unconfirmed(prot))
    BY CompleteWorkAccount DEF AccountOK
  <2> HIDE DEF a
  <2>3. Gently(a, acct', a.recovering)
    BY <2>1, <2>2, CompleteRestartGentle DEF Gently
  <2>4. a.recovering => MayOpen
    BY <2>2 DEF Gently, MayOpen
  <2> QED BY <2>1, <2>2, <2>3, <2>4, NotExposed DEF Gently
<1>2. ASSUME NEW S \in SUBSET Orders, NEW D \in SUBSET Deniable(S),
             NEW bare \in SUBSET Filled(S \ D), NEW complete \in BOOLEAN,
             Observe(S, D, bare, complete)
      PROVE  Gently(acct, acct', MayOpen)
  <2> DEFINE a == BareSeen(bare)
  <2>1. PICK os :
            LET b == CompleteWork(S, a, os, prot')
            IN  acct' = IF complete THEN CompleteRestart(b, Unresolved(work') # {}) ELSE b
    BY <1>2 DEF Observe
  <2>2. Gently(acct, a, FALSE)
    BY BareAccount
  <2> HIDE DEF a
  <2> DEFINE b == CompleteWork(S, a, os, prot')
  <2>3. Gently(a, b, ~Exposed(prot') \/ ~Unconfirmed(prot'))
    BY <2>2, CompleteWorkAccount DEF Gently
  <2>4. acct' = (IF complete THEN CompleteRestart(b, Unresolved(work') # {}) ELSE b)
        /\ closed' = closed
    BY <1>2, <2>1 DEF Observe
  <2> HIDE DEF b
  <2>5. Gently(b, CompleteRestart(b, Unresolved(work') # {}), b.recovering)
    BY <2>3, CompleteRestartGentle DEF Gently
  <2>6. b.recovering => MayOpen
    BY <2>2, <2>3 DEF Gently, MayOpen
  <2>7. ~Exposed(prot') \/ ~Unconfirmed(prot') => MayOpen
    BY <2>4, NotExposed
  <2> QED BY <2>2, <2>3, <2>4, <2>5, <2>6, <2>7 DEF Gently
<1>3. ASSUME NEW o \in Orders, Escalate(o) PROVE Gently(acct, acct', MayOpen)
  BY <1>3, GentlyRefl DEF Escalate, AccountOK
<1>4. ASSUME NEW S \in SUBSET Orders, NEW D \in SUBSET Deniable(S),
             NEW P \in SUBSET Filled(S \ D), NEW bare \in SUBSET P, ObserveRaises(S, D, P, bare)
      PROVE  Gently(acct, acct', MayOpen)
  BY <1>4, BareAccount DEF ObserveRaises, Gently
<1>5. ASSUME NEW S \in SUBSET Orders, NEW D \in SUBSET Deniable(S),
             \/ \E bare \in SUBSET Filled(S \ D), complete \in BOOLEAN :
                    Observe(S, D, bare, complete)
             \/ \E P \in SUBSET Filled(S \ D) : \E bare \in SUBSET P :
                    ObserveRaises(S, D, P, bare)
      PROVE  Gently(acct, acct', MayOpen)
  BY <1>2, <1>4, <1>5
<1> QED BY <1>1, <1>3, <1>5 DEF Reconciliation

LEMMA StreamAccount ==
  ASSUME AccountOK, StreamStep PROVE Gently(acct, acct', MayOpen)
<1>1. CASE OpenSession
  BY <1>1, HealthyAccount DEF OpenSession, ledger
<1>2. CASE Heartbeat
  BY <1>2, HealthyAccount DEF Heartbeat, ledger
<1>3. ASSUME NEW clean \in BOOLEAN, LoseSession(clean) PROVE Gently(acct, acct', MayOpen)
  BY <1>3, LoseSessionAccount DEF Gently
<1>4. ASSUME NEW o \in Orders,
             Prepare(o) \/ MarkSent(o) \/ \E effect \in Effects : Execute(o, effect)
      PROVE  Gently(acct, acct', MayOpen)
  BY <1>4, GentlyRefl DEF Prepare, MarkSent, Execute, AccountOK
<1>5. ASSUME NEW o \in Orders, NEW clear \in BOOLEAN, Result(o, clear)
      PROVE  Gently(acct, acct', MayOpen)
  <2>1. acct' = acct \/ \E os : RecordUnknown({o}, acct, os)
    BY <1>5 DEF Result
  <2> QED BY <2>1, GentlyRefl, RecordUnknownAccount DEF Gently, AccountOK
<1> QED BY <1>1, <1>2, <1>3, <1>4, <1>5 DEF StreamStep

LEMMA RuntimeHealthAccount ==
  ASSUME AccountOK, NEW reasons \in HealthReports, NEW persistent \in BOOLEAN,
         RuntimeHealth(reasons, persistent)
  PROVE  Gently(acct, acct', MayOpen)
<1>1. reasons \in SUBSET Reasons
  BY CoordinatorAssumption
<1>2. CASE reasons # {}
  <2>1. acct' = SetInterlock(acct, reasons, persistent)
    BY <1>2 DEF RuntimeHealth
  <2>2. Gently(acct, SetInterlock(acct, reasons, persistent), FALSE)
    BY <1>1, SetInterlockGentle DEF AccountOK
  <2> QED BY <2>1, <2>2 DEF Gently
<1>3. CASE reasons = {}
  <2>1. /\ acct' \in {acct, RemoveReasons(acct, RuntimeHealthReasons, Exposed(prot), underFence)}
        /\ prot' = prot /\ closed' = closed
    BY <1>3 DEF RuntimeHealth, ledger
  <2>2. Gently(acct, RemoveReasons(acct, RuntimeHealthReasons, Exposed(prot), underFence),
               ~Exposed(prot))
    BY RemoveReasonsGentle, ExposedBoolean DEF AccountOK
  <2>3. Gently(acct, acct, FALSE)
    BY GentlyRefl DEF AccountOK
  <2> QED BY <2>1, <2>2, <2>3, NotExposed DEF Gently
<1> QED BY <1>2, <1>3

\* What one step may do to the account.
LEMMA AccountStep ==
  ASSUME AccountOK, [Next]_vars
  PROVE  /\ AccountOK'
         /\ acct.custody => acct'.custody \/ CustodianRecovers
         /\ acct'.gate = "OPEN" => acct.gate = "OPEN" \/ MayOpen
<1> DEFINE Goal == /\ AccountOK'
                   /\ acct.custody => acct'.custody \/ CustodianRecovers
                   /\ acct'.gate = "OPEN" => acct.gate = "OPEN" \/ MayOpen
<1>1. ASSUME Gently(acct, acct', MayOpen) PROVE Goal
  BY <1>1 DEF Gently, AccountOK, Held
<1>2. ASSUME acct' = acct PROVE Gently(acct, acct', MayOpen)
  BY <1>2, GentlyRefl DEF AccountOK
<1>3. ASSUME NEW o \in Orders, Admit(o) \/ BrokerMoves(o) PROVE acct' = acct
  BY <1>3 DEF Admit, BrokerMoves
<1>4. ASSUME DirectDispatch PROVE Gently(acct, acct', MayOpen)
  <2>1. acct' = acct \/ \E os : RecordUnknown({inflight}, acct, os)
    BY <1>4 DEF DirectDispatch, BeginDispatch, CheckRefused, AnswerClear,
                AnswerAmbiguous, SendOrder
  <2> QED BY <2>1, GentlyRefl, RecordUnknownAccount DEF Gently, AccountOK
<1>5. ASSUME Supervision PROVE Goal
  <2>1. CASE EmergencyStop
    <3>1. Gently(acct, acct', FALSE)
      BY <2>1, FenceGentle DEF EmergencyStop, AccountOK
    <3> QED BY <1>1, <3>1 DEF Gently
  <2>2. CASE CustodianRecovers
    <3>1. /\ acct' = Recover(acct, Exposed(prot), underFence)
          /\ prot' = prot /\ closed' = closed
      BY <2>2 DEF CustodianRecovers, ledger
    <3>2. LET b == Recover(acct, Exposed(prot), underFence)
          IN  /\ b \in Account /\ Held(b)
              /\ b.gate = "OPEN" => acct.gate = "OPEN" \/ ~Exposed(prot)
      BY RecoverSafe, ExposedBoolean DEF AccountOK
    <3> QED BY <2>2, <3>1, <3>2, NotExposed DEF AccountOK, Held
  <2>3. ASSUME NEW reasons \in HealthReports, NEW persistent \in BOOLEAN,
               RuntimeHealth(reasons, persistent)
        PROVE  Goal
    BY <1>1, <2>3, RuntimeHealthAccount
  <2> QED BY <1>5, <2>1, <2>2, <2>3 DEF Supervision
<1>6. ASSUME Restart PROVE Goal
  <2> DEFINE a == BeginRestart(acct)
  <2>1. \E S, os : RecordUnknown(S, a, os)
    BY <1>6 DEF Restart
  <2>2. a \in Account /\ Held(a) /\ (acct.custody => a.custody)
        /\ (a.gate = "OPEN" => acct.gate = "OPEN")
    BY BeginRestartGentle DEF AccountOK
  <2> HIDE DEF a
  <2>3. Gently(a, acct', FALSE)
    BY <2>1, <2>2, RecordUnknownAccount
  <2> QED BY <2>2, <2>3 DEF Gently, AccountOK, Held
<1>7. ASSUME UNCHANGED vars PROVE acct' = acct
  BY <1>7 DEF vars
<1> QED
  BY <1>1, <1>2, <1>3, <1>4, <1>5, <1>6, <1>7, StreamAccount, ReconciliationAccount,
     PositionsAccount
  DEF Next

LEMMA AccountHolds == Spec => []AccountOK
<1>1. Init => AccountOK
  BY FreshType DEF Init, AccountOK
<1> QED BY <1>1, AccountStep, PTL DEF Spec

\* A quarantine that needs the custodian ends by the custodian's command only,
\* for any orders, health reports, sessions and restarts.
THEOREM CustodyIsKept == Spec => CustodianOnly
<1> DEFINE Kept == acct.custody => (acct'.custody /\ acct'.gate = "QUARANTINED")
                                   \/ CustodianRecovers
<1>1. AccountOK /\ [Next]_vars => [Kept]_vars
  BY AccountStep DEF AccountOK, Held
<1>2. CustodianOnly <=> [][Kept]_vars
  BY DEF CustodianOnly
<1> QED BY <1>1, <1>2, AccountHolds, PTL DEF Spec

\* But for the completion of a restart, the gate opens only over open positions
\* with confirmed protection, whatever the number of orders and positions.
THEOREM OpeningIsProtected == Spec => GateOpensProtected
<1> DEFINE Protected == acct.gate # "OPEN" /\ acct'.gate = "OPEN" /\ ~acct.recovering
               => \A o \in Orders \ closed' : prot'[o] \in {"NONE", "CONFIRMED"}
<1>1. AccountOK /\ [Next]_vars => [Protected]_vars
  BY AccountStep DEF MayOpen
<1>2. GateOpensProtected <=> [][Protected]_vars
  BY DEF GateOpensProtected
<1> QED BY <1>1, <1>2, AccountHolds, PTL DEF Spec

-----------------------------------------------------------------------------
(* Orders: each is handed over once, and what has an effect keeps its risk. *)

\* An order whose hand-over has not begun, by the record that says so in its transport.
Fresh(o) == IF Transport = "stream" THEN order[o].record \in {"NONE", "QUEUED"}
            ELSE order[o].event \in {"NONE", "PENDING"}

RowsOK == \A o \in Orders :
    /\ order[o].status = "ABSENT" => Fresh(o) /\ order[o].record = "NONE"
    /\ Fresh(o) => /\ sends[o] = 0 /\ order[o].status \in {"ABSENT", "INTENT"}
                   /\ order[o].journal = "NONE" /\ order[o].resv # "RELEASED"
    /\ sends[o] = 0 => broker[o] = "none"
    /\ sends[o] <= 1
    /\ broker[o] \in {"working", "filled"} => order[o].resv # "RELEASED" \/ o \in denied
    /\ o \in handler => /\ Transport = "stream" /\ order[o].record = "NONE"
                        /\ order[o].status # "ABSENT"
    /\ o \in wire => /\ Transport = "stream" /\ sends[o] # 0
                     /\ order[o].resv # "RELEASED" /\ ~Fresh(o)
    /\ work[o] # "NONE" => ~Fresh(o)

\* dispatch_next works on one order, which was not handed over before its check.
DispatchOK ==
    /\ Transport = "direct" => session = "closed"
    /\ (stage = "idle") <=> (inflight = NoOrder)
    /\ stage # "idle" => Transport = "direct" /\ order[inflight].event = "DISPATCHING"
    /\ stage = "check" => /\ sends[inflight] = 0 /\ order[inflight].resv # "RELEASED"
                          /\ \A p \in Orders : order[p].status # "UNKNOWN"

OrderInv == AccountOK /\ TypeOK /\ RowsOK /\ DispatchOK

LEMMA OrderInit == Init => OrderInv
<1> SUFFICES ASSUME Init PROVE OrderInv
  OBVIOUS
<1>1. AccountOK
  BY FreshType DEF Init, AccountOK
<1>2. TypeOK
  <2>1. order \in [Orders -> OrderRow]
    BY DEF Init, NoOrderRow, OrderRow, Statuses
  <2>2. work \in [Orders -> WorkStates] /\ prot \in [Orders -> Protection]
        /\ broker \in [Orders -> Effects \cup {"none", "cancelled"}] /\ sends \in [Orders -> Nat]
    BY DEF Init, WorkStates, Protection
  <2>3. restarts \in 0..MaxRestarts /\ admitted \in Seq(Orders)
    BY CoordinatorAssumption DEF Init
  <2>4. /\ underFence \in BOOLEAN /\ closed \subseteq Orders /\ handler \subseteq Orders
        /\ inflight \in Orders \cup {NoOrder} /\ stage \in {"idle", "check", "called"}
        /\ session \in {"closed", "open", "seen", "ready"} /\ wire \subseteq Orders
        /\ orphans \subseteq Orders /\ stopped \in BOOLEAN /\ overridden \in BOOLEAN
        /\ denied \subseteq Orders
    BY DEF Init
  <2> QED
    BY <1>1, <2>1, <2>2, <2>3, <2>4 DEF AccountOK, TypeOK
<1>3. RowsOK
  BY DEF Init, RowsOK, Fresh, NoOrderRow
<1>4. DispatchOK
  BY DEF Init, DispatchOK
<1> QED
  BY <1>1, <1>2, <1>3, <1>4 DEF OrderInv

\* What the operations make of an order's row.
LEMMA RowFacts ==
  ASSUME NEW r \in OrderRow
  PROVE  /\ RejectedRow(r) \in OrderRow /\ RejectedRow(r).event = "ABORTED"
         /\ RejectedRow(r).status = "REJECTED" /\ RejectedRow(r).record = r.record
         /\ AcceptedRow(r) \in OrderRow /\ AcceptedRow(r).record = "ACCEPTED"
         /\ AcceptedRow(r).status = "SUBMITTED" /\ AcceptedRow(r).resv = r.resv
         /\ RefusedRow(r) \in OrderRow /\ RefusedRow(r).record = "REJECTED"
         /\ RefusedRow(r).status = "REJECTED"
         /\ DoubtfulRow(r) \in OrderRow /\ DoubtfulRow(r).record = "UNKNOWN"
         /\ DoubtfulRow(r).status = "UNKNOWN" /\ DoubtfulRow(r).resv = r.resv
  BY DEF OrderRow, Statuses, RejectedRow, AcceptedRow, RefusedRow, DoubtfulRow

LEMMA MarkedRow ==
  ASSUME NEW r \in OrderRow
  PROVE  LET q == [r EXCEPT !.journal = "DISPATCHING"]
             u == [r EXCEPT !.status = "UNKNOWN"]
         IN  /\ q \in OrderRow /\ q.status = r.status /\ q.event = r.event
             /\ q.record = r.record /\ q.resv = r.resv
             /\ u \in OrderRow /\ u.status = "UNKNOWN" /\ u.event = r.event
             /\ u.record = r.record /\ u.resv = r.resv
  BY DEF OrderRow, Statuses

LEMMA ObservedRow ==
  ASSUME NEW r \in OrderRow, r.status # "ABSENT", NEW D, NEW o
  PROVE  LET q == ApplyObservation(r, Observed(o, D))
         IN  /\ q \in OrderRow /\ q.status # "ABSENT" /\ q.event = r.event
             /\ q.record = r.record
             /\ q.resv = "RELEASED" =>
                    \/ r.resv = "RELEASED"
                    \/ broker[o] \notin {"working", "filled"}
                    \/ o \in D /\ q.status = "REJECTED"
<1> DEFINE x == Observed(o, D)
<1>1. /\ x \in {"FILLED", "SUBMITTED", "CANCELLED", "REJECTED"}
      /\ x \in {"CANCELLED", "REJECTED"} =>
             broker[o] \notin {"working", "filled"} \/ (o \in D /\ x = "REJECTED")
  BY DEF Observed
<1> HIDE DEF x
<1>2. ApplyObservation(r, x) = r \/ ApplyObservation(r, x) = 
          [r EXCEPT !.status = x, !.resv = CASE x = "FILLED" -> "CONSUMED"
                                             [] x \in {"REJECTED", "CANCELLED"} -> "RELEASED"
                                             [] OTHER -> r.resv]
  BY DEF ApplyObservation
<1> QED
  BY <1>1, <1>2 DEF OrderRow, Statuses, x

LEMMA RecordUnknownRows ==
  ASSUME TypeOK, NEW S \in SUBSET Orders, NEW a, NEW os \in [Orders -> OrderRow],
         RecordUnknown(S, a, os)
  PROVE  /\ order' \in [Orders -> OrderRow] /\ work' \in [Orders -> WorkStates]
         /\ underFence' \in BOOLEAN
         /\ \A o \in Orders : /\ order'[o].status = os[o].status /\ order'[o].event = os[o].event
                              /\ order'[o].record = os[o].record /\ order'[o].resv = os[o].resv
                              /\ o \notin S => order'[o] = os[o]
                              /\ work'[o] # "NONE" => work[o] # "NONE" \/ o \in S
<1>1. /\ work' \in [Orders -> WorkStates]
      /\ \A o \in Orders : work'[o] # "NONE" => work[o] # "NONE" \/ o \in S
  BY DEF TypeOK, RecordUnknown, WorkStates
<1>2. underFence' \in BOOLEAN
  BY DEF RecordUnknown
<1>3. \A o \in Orders : /\ order'[o] \in {os[o], [os[o] EXCEPT !.journal = "DISPATCHING"]}
                        /\ o \notin S => order'[o] = os[o]
  BY DEF RecordUnknown
<1>4. order' = [o \in Orders |-> order'[o]]
  BY DEF RecordUnknown
<1>5. ASSUME NEW o \in Orders
      PROVE  /\ order'[o] \in OrderRow
             /\ order'[o].status = os[o].status /\ order'[o].event = os[o].event
             /\ order'[o].record = os[o].record /\ order'[o].resv = os[o].resv
  BY <1>3, MarkedRow
<1> QED
  BY <1>1, <1>2, <1>3, <1>4, <1>5

\* Rows of orders whose hand-over has begun may change, but risk is released only
\* for what has no effect and will have none.
LEMMA RowsMove ==
  ASSUME OrderInv, order' \in [Orders -> OrderRow], UNCHANGED <<broker, sends>>,
         handler' \subseteq handler, wire' \subseteq wire, denied \subseteq denied',
         \A o \in Orders :
             \/ order'[o] = order[o]
             \/ /\ ~Fresh(o) \/ Transport = "direct"
                /\ ~Fresh(o)' /\ order'[o].status # "ABSENT"
                /\ order'[o].resv = "RELEASED" =>
                       \/ order[o].resv = "RELEASED"
                       \/ broker[o] \notin {"working", "filled"} /\ o \notin wire
                       \/ o \in denied' /\ o \notin wire,
         \A o \in Orders : work'[o] # "NONE" => work[o] # "NONE" \/ ~Fresh(o)'
  PROVE  RowsOK'
<1> SUFFICES ASSUME NEW o \in Orders
             PROVE  /\ order'[o].status = "ABSENT" => Fresh(o)' /\ order'[o].record = "NONE"
                    /\ Fresh(o)' => /\ sends[o] = 0 /\ order'[o].status \in {"ABSENT", "INTENT"}
                                    /\ order'[o].journal = "NONE" /\ order'[o].resv # "RELEASED"
                    /\ sends[o] = 0 => broker[o] = "none"
                    /\ sends[o] <= 1
                    /\ broker[o] \in {"working", "filled"} =>
                           order'[o].resv # "RELEASED" \/ o \in denied'
                    /\ o \in handler' => /\ Transport = "stream" /\ order'[o].record = "NONE"
                                         /\ order'[o].status # "ABSENT"
                    /\ o \in wire' => /\ Transport = "stream" /\ sends[o] # 0
                                      /\ order'[o].resv # "RELEASED" /\ ~Fresh(o)'
                    /\ work'[o] # "NONE" => ~Fresh(o)'
  BY DEF RowsOK
<1>1. CASE order'[o] = order[o]
  BY <1>1 DEF OrderInv, RowsOK, Fresh
<1>2. CASE order'[o] # order[o]
  <2>1. o \notin handler
    BY <1>2 DEF OrderInv, RowsOK, Fresh
  <2> QED
    BY <1>2, <2>1 DEF OrderInv, RowsOK
<1> QED
  BY <1>1, <1>2

LEMMA OrdersAlone ==
  ASSUME OrderInv, UNCHANGED <<order, call, session, wire, broker, sends, denied>>,
         \A o \in Orders : work'[o] # "NONE" => work[o] # "NONE"
  PROVE  RowsOK' /\ DispatchOK'
  BY DEF OrderInv, RowsOK, DispatchOK, Fresh, call

\* After an operation that ends with the lock free.
LEMMA IdleAfter ==
  ASSUME OrderInv, stage' = "idle", inflight' = NoOrder,
         Transport = "direct" => session' = "closed"
  PROVE  DispatchOK'
  BY DEF DispatchOK

LEMMA IdleFacts ==
  ASSUME OrderInv, Unlocked \/ Transport = "stream"
  PROVE  stage = "idle" /\ inflight = NoOrder
  BY DEF OrderInv, DispatchOK, Unlocked

LEMMA StreamFacts ==
  ASSUME OrderInv
  PROVE  /\ session # "closed" => Transport = "stream"
         /\ handler # {} => Transport = "stream"
         /\ wire # {} => Transport = "stream"
         /\ Transport = "stream" \/ Transport = "direct"
  BY CoordinatorAssumption DEF OrderInv, DispatchOK, RowsOK, TypeOK

-----------------------------------------------------------------------------
(* The invariant of orders, operation by operation.                        *)

LEMMA AdmitKeeps ==
  ASSUME OrderInv, AccountOK', NEW o \in Orders, Admit(o)
  PROVE  OrderInv'
<1> USE DEF OrderInv
<1>1. /\ stage = "idle" /\ inflight = NoOrder /\ Fresh(o) /\ order[o].record = "NONE"
      /\ sends[o] = 0 /\ o \notin wire /\ work[o] = "NONE"
  BY IdleFacts DEF Admit, RowsOK
<1>2. order' \in [Orders -> OrderRow] /\ admitted' \in Seq(Orders)
  BY DEF Admit, TypeOK, OrderRow, Statuses
<1>3. handler' \subseteq Orders /\ handler' \subseteq handler \cup {o}
      /\ (o \in handler' => Transport = "stream")
  BY DEF Admit, TypeOK, RowsOK
<1>4. TypeOK'
  BY <1>2, <1>3 DEF Admit, TypeOK, AccountOK, stream, world, history
<1>5. RowsOK'
  <2> SUFFICES ASSUME NEW p \in Orders
               PROVE  /\ order'[p].status = "ABSENT" => Fresh(p)' /\ order'[p].record = "NONE"
                      /\ Fresh(p)' => /\ sends[p] = 0 /\ order'[p].status \in {"ABSENT", "INTENT"}
                                      /\ order'[p].journal = "NONE" /\ order'[p].resv # "RELEASED"
                      /\ sends[p] = 0 => broker[p] = "none"
                      /\ sends[p] <= 1
                      /\ broker[p] \in {"working", "filled"} =>
                             order'[p].resv # "RELEASED" \/ p \in denied
                      /\ p \in handler' => /\ Transport = "stream" /\ order'[p].record = "NONE"
                                           /\ order'[p].status # "ABSENT"
                      /\ p \in wire => /\ Transport = "stream" /\ sends[p] # 0
                                       /\ order'[p].resv # "RELEASED" /\ ~Fresh(p)'
                      /\ work[p] # "NONE" => ~Fresh(p)'
    BY DEF RowsOK, Admit, stream, world, history
  <2>1. CASE p = o
    <3>1. order'[o] = [status |-> "INTENT", event |-> "PENDING", resv |-> "ACTIVE",
                       record |-> "NONE", journal |-> "NONE"]
      BY DEF Admit, TypeOK
    <3> QED
      BY <1>1, <1>3, <2>1, <3>1 DEF RowsOK
  <2>2. CASE p # o
    <3>1. order'[p] = order[p]
      BY <2>2 DEF Admit, TypeOK
    <3> QED
      BY <1>3, <2>2, <3>1 DEF RowsOK, Fresh
  <2> QED
    BY <2>1, <2>2
<1>6. DispatchOK'
  BY <1>1, IdleAfter DEF Admit, DispatchOK, stream
<1> QED
  BY <1>4, <1>5, <1>6

LEMMA PrepareKeeps ==
  ASSUME OrderInv, AccountOK', NEW o \in Orders, Prepare(o)
  PROVE  OrderInv'
<1> USE DEF OrderInv
<1>1. /\ stage = "idle" /\ inflight = NoOrder /\ Transport = "stream"
      /\ order[o].record = "NONE" /\ order[o].status # "ABSENT" /\ Fresh(o) /\ o \notin wire
      /\ work[o] = "NONE"
  BY IdleFacts DEF Prepare, RowsOK, Fresh
<1>2. /\ order' \in [Orders -> OrderRow]
      /\ order'[o] = [order[o] EXCEPT !.record = "QUEUED"]
      /\ \A p \in Orders : p # o => order'[p] = order[p]
  BY DEF Prepare, TypeOK, OrderRow
<1>3. TypeOK'
  BY <1>2 DEF Prepare, TypeOK, AccountOK, stream, world, history
<1>4. /\ order'[o].record = "QUEUED" /\ order'[o].status = order[o].status
      /\ order'[o].journal = order[o].journal /\ order'[o].resv = order[o].resv
  BY <1>2 DEF TypeOK, OrderRow
<1>5. RowsOK'
  BY <1>1, <1>2, <1>4 DEF Prepare, RowsOK, Fresh, stream, world, history
<1>6. DispatchOK'
  BY <1>1, IdleAfter DEF Prepare, DispatchOK, stream
<1> QED
  BY <1>3, <1>5, <1>6

LEMMA BeginDispatchKeeps ==
  ASSUME OrderInv, AccountOK', BeginDispatch
  PROVE  OrderInv'
<1> USE DEF OrderInv
<1>1. PICK o \in Orders :
         /\ HeadOfOutbox(o) /\ inflight' = o
         /\ order' = [order EXCEPT ![o].status = "DISPATCHING", ![o].event = "DISPATCHING",
                                   ![o].journal = "DISPATCHING"]
  BY DEF BeginDispatch
<1>2. Transport = "direct" /\ order[o].event = "PENDING" /\ o # NoOrder
  BY <1>1, CoordinatorAssumption DEF BeginDispatch, HeadOfOutbox
<1>3. Fresh(o) /\ sends[o] = 0 /\ order[o].resv # "RELEASED"
  BY <1>2 DEF Fresh, RowsOK
<1>4. /\ order' \in [Orders -> OrderRow]
      /\ order'[o].status = "DISPATCHING" /\ order'[o].event = "DISPATCHING"
      /\ order'[o].resv = order[o].resv
      /\ \A p \in Orders : p # o => order'[p] = order[p]
  <2> DEFINE q == [order[o] EXCEPT !.status = "DISPATCHING", !.event = "DISPATCHING",
                                   !.journal = "DISPATCHING"]
  <2>1. /\ q \in OrderRow /\ q.status = "DISPATCHING" /\ q.event = "DISPATCHING"
        /\ q.resv = order[o].resv
    <3>1. order[o] \in OrderRow
      BY DEF TypeOK
    <3> QED
      BY <3>1 DEF OrderRow, Statuses
  <2>2. order' = [order EXCEPT ![o] = q]
    BY <1>1
  <2> HIDE DEF q
  <2> QED
    BY <2>1, <2>2 DEF TypeOK
<1>5. TypeOK'
  BY <1>1, <1>4 DEF BeginDispatch, TypeOK, AccountOK, stream, world, history
<1>6. RowsOK'
  <2>1. ~Fresh(o)'
    BY <1>2, <1>4 DEF Fresh
  <2> QED
    BY <1>2, <1>3, <1>4, <2>1, RowsMove DEF BeginDispatch, stream, world, history
<1>7. DispatchOK'
  BY <1>1, <1>2, <1>3, <1>4 DEF BeginDispatch, DispatchOK, stream, world
<1> QED
  BY <1>5, <1>6, <1>7

\* dispatch_next settles or doubts the order it works on.
LEMMA DispatchFacts ==
  ASSUME OrderInv, stage # "idle"
  PROVE  /\ inflight \in Orders /\ order[inflight] \in OrderRow /\ ~Fresh(inflight)
         /\ order[inflight].event = "DISPATCHING" /\ Transport = "direct" /\ session = "closed"
         /\ wire = {} /\ handler = {}
  BY StreamFacts DEF OrderInv, DispatchOK, TypeOK, Fresh

LEMMA CheckRefusedKeeps ==
  ASSUME OrderInv, AccountOK', CheckRefused
  PROVE  OrderInv'
<1> USE DEF OrderInv
<1>1. /\ inflight \in Orders /\ order[inflight] \in OrderRow /\ ~Fresh(inflight)
      /\ Transport = "direct" /\ session = "closed"
  BY DispatchFacts DEF CheckRefused
<1>2. broker[inflight] = "none" /\ inflight \notin wire
  BY <1>1, DispatchFacts DEF CheckRefused, DispatchOK, RowsOK
<1>3. /\ order' \in [Orders -> OrderRow] /\ order'[inflight] = RejectedRow(order[inflight])
      /\ \A p \in Orders : p # inflight => order'[p] = order[p]
  BY <1>1, RowFacts DEF CheckRefused, TypeOK
<1>4. TypeOK'
  BY <1>3 DEF CheckRefused, DispatchOver, TypeOK, AccountOK, stream, world, history
<1>5. \A p \in Orders : p = inflight =>
         ~Fresh(p)' /\ order'[p].status # "ABSENT"
  BY <1>1, <1>3, RowFacts DEF Fresh
<1>6. RowsOK'
  BY <1>1, <1>2, <1>3, <1>5, RowsMove DEF CheckRefused, DispatchOver, stream, world, history
<1>7. DispatchOK'
  BY <1>1, IdleAfter DEF CheckRefused, DispatchOver, stream
<1> QED
  BY <1>4, <1>6, <1>7

LEMMA SendOrderKeeps ==
  ASSUME OrderInv, AccountOK', NEW effect \in Effects \cup {"none"}, SendOrder(effect)
  PROVE  OrderInv'
<1> USE DEF OrderInv
<1>1. /\ inflight \in Orders /\ ~Fresh(inflight) /\ Transport = "direct"
      /\ wire = {} /\ handler = {}
      /\ sends[inflight] = 0 /\ order[inflight].resv # "RELEASED"
  BY DispatchFacts DEF SendOrder, DispatchOK
<1>2. /\ broker' \in [Orders -> Effects \cup {"none", "cancelled"}] /\ sends' \in [Orders -> Nat]
      /\ sends'[inflight] = 1
      /\ \A p \in Orders : p # inflight => broker'[p] = broker[p] /\ sends'[p] = sends[p]
  BY <1>1 DEF SendOrder, TypeOK
<1>3. TypeOK'
  BY <1>2 DEF SendOrder, ledger, TypeOK, AccountOK, stream, history
<1>4. RowsOK'
  BY <1>1, <1>2 DEF SendOrder, ledger, stream, RowsOK, Fresh, history
<1>5. DispatchOK'
  BY DEF SendOrder, ledger, stream, DispatchOK
<1> QED
  BY <1>3, <1>4, <1>5

LEMMA AnswerClearKeeps ==
  ASSUME OrderInv, AccountOK', AnswerClear
  PROVE  OrderInv'
<1> USE DEF OrderInv
<1>1. /\ inflight \in Orders /\ order[inflight] \in OrderRow /\ ~Fresh(inflight)
      /\ Transport = "direct" /\ session = "closed" /\ inflight \notin wire
  BY DispatchFacts DEF AnswerClear
<1> DEFINE q == IF broker[inflight] = "refused" THEN RejectedRow(order[inflight])
                ELSE [order[inflight] EXCEPT !.status = IF broker[inflight] = "filled"
                                                        THEN "FILLED" ELSE "SUBMITTED",
                                             !.event = "PUBLISHED", !.journal = "ACCEPTED"]
<1>2. /\ order' = [order EXCEPT ![inflight] = q]
  BY DEF AnswerClear
<1>3. /\ q \in OrderRow /\ q.event \in {"ABORTED", "PUBLISHED"} /\ q.status # "ABSENT"
      /\ q.resv = "RELEASED" => order[inflight].resv = "RELEASED" \/ broker[inflight] = "refused"
  <2>1. CASE broker[inflight] = "refused"
    BY <1>1, <2>1, RowFacts
  <2>2. CASE broker[inflight] # "refused"
    BY <1>1, <2>2 DEF OrderRow, Statuses
  <2> QED
    BY <2>1, <2>2
<1> HIDE DEF q
<1>4. /\ order' \in [Orders -> OrderRow] /\ order'[inflight] = q
      /\ \A p \in Orders : p # inflight => order'[p] = order[p]
  BY <1>1, <1>2, <1>3 DEF TypeOK
<1>5. TypeOK'
  BY <1>4 DEF AnswerClear, DispatchOver, TypeOK, AccountOK, stream, world, history
<1>6. \A p \in Orders : p = inflight => ~Fresh(p)' /\ order'[p].status # "ABSENT"
  BY <1>1, <1>3, <1>4 DEF Fresh
<1>7. RowsOK'
  BY <1>1, <1>3, <1>4, <1>6, RowsMove DEF AnswerClear, DispatchOver, stream, world, history
<1>8. DispatchOK'
  BY <1>1, IdleAfter DEF AnswerClear, DispatchOver, stream
<1> QED
  BY <1>5, <1>7, <1>8

LEMMA AnswerAmbiguousKeeps ==
  ASSUME OrderInv, AccountOK', AnswerAmbiguous
  PROVE  OrderInv'
<1> USE DEF OrderInv
<1> DEFINE os == [order EXCEPT ![inflight].status = "UNKNOWN"]
<1>1. /\ inflight \in Orders /\ order[inflight] \in OrderRow /\ ~Fresh(inflight)
      /\ order[inflight].event = "DISPATCHING"
      /\ Transport = "direct" /\ session = "closed" /\ inflight \notin wire
  BY DispatchFacts DEF AnswerAmbiguous
<1>2. /\ os \in [Orders -> OrderRow] /\ os[inflight].status = "UNKNOWN"
      /\ os[inflight].event = "DISPATCHING" /\ os[inflight].resv = order[inflight].resv
      /\ \A p \in Orders : p # inflight => os[p] = order[p]
  BY <1>1, MarkedRow DEF TypeOK
<1>3. RecordUnknown({inflight}, acct, os)
  BY DEF AnswerAmbiguous
<1> HIDE DEF os
<1>4. /\ order' \in [Orders -> OrderRow] /\ work' \in [Orders -> WorkStates]
      /\ underFence' \in BOOLEAN
      /\ order'[inflight].status = "UNKNOWN" /\ order'[inflight].event = "DISPATCHING"
      /\ order'[inflight].resv = order[inflight].resv
      /\ \A p \in Orders : p # inflight => order'[p] = order[p]
      /\ \A p \in Orders : work'[p] # "NONE" => work[p] # "NONE" \/ p = inflight
  <2>1. {inflight} \in SUBSET Orders
    BY <1>1
  <2>2. /\ order' \in [Orders -> OrderRow] /\ work' \in [Orders -> WorkStates]
        /\ underFence' \in BOOLEAN
        /\ \A o \in Orders :
               /\ order'[o].status = os[o].status /\ order'[o].event = os[o].event
               /\ order'[o].record = os[o].record /\ order'[o].resv = os[o].resv
               /\ o \notin {inflight} => order'[o] = os[o]
               /\ work'[o] # "NONE" => work[o] # "NONE" \/ o \in {inflight}
    BY <1>2, <1>3, <2>1, RecordUnknownRows
  <2> QED
    BY <1>1, <1>2, <2>2
<1>5. TypeOK'
  BY <1>4 DEF AnswerAmbiguous, DispatchOver, TypeOK, AccountOK, stream, world, history
<1>6. \A p \in Orders : p = inflight => ~Fresh(p)' /\ order'[p].status # "ABSENT"
  BY <1>1, <1>4 DEF Fresh
<1>7. RowsOK'
  BY <1>1, <1>4, <1>6, RowsMove DEF AnswerAmbiguous, DispatchOver, stream, world, history
<1>8. DispatchOK'
  BY <1>1, IdleAfter DEF AnswerAmbiguous, DispatchOver, stream
<1> QED
  BY <1>5, <1>7, <1>8

\* Operations that leave the orders and the stream alone.
LEMMA AloneKeeps ==
  ASSUME OrderInv, AccountOK', TypeOK',
         UNCHANGED <<order, call, session, wire, broker, sends, denied>>,
         \A o \in Orders : work'[o] # "NONE" => work[o] # "NONE"
  PROVE  OrderInv'
  BY OrdersAlone DEF OrderInv

LEMMA OpenSessionKeeps ==
  ASSUME OrderInv, AccountOK', OpenSession
  PROVE  OrderInv'
<1> USE DEF OrderInv
<1>1. stage = "idle" /\ inflight = NoOrder
  BY IdleFacts DEF OpenSession
<1>2. TypeOK'
  BY DEF OpenSession, ledger, call, TypeOK, AccountOK, world, history
<1>3. RowsOK'
  BY DEF OpenSession, ledger, call, world, RowsOK, Fresh, history
<1>4. DispatchOK'
  BY <1>1, IdleAfter, CoordinatorAssumption DEF OpenSession, call
<1> QED
  BY <1>2, <1>3, <1>4

LEMMA MarkSentKeeps ==
  ASSUME OrderInv, AccountOK', NEW o \in Orders, MarkSent(o)
  PROVE  OrderInv'
<1> USE DEF OrderInv
<1>1. Transport = "stream" /\ stage = "idle" /\ inflight = NoOrder
  BY StreamFacts, IdleFacts DEF MarkSent
<1>2. /\ sends[o] = 0 /\ order[o].resv # "RELEASED" /\ order[o].status # "ABSENT"
      /\ o \notin handler
  BY <1>1 DEF MarkSent, RowsOK, Fresh
<1>3. order[o] \in OrderRow
  BY DEF TypeOK
<1>4. /\ order' \in [Orders -> OrderRow]
      /\ order'[o].record = "SENT" /\ order'[o].status = order[o].status
      /\ order'[o].resv = order[o].resv
      /\ \A p \in Orders : p # o => order'[p] = order[p]
  BY <1>3 DEF MarkSent, TypeOK, OrderRow
<1>5. /\ sends' \in [Orders -> Nat] /\ sends'[o] = 1
      /\ \A p \in Orders : p # o => sends'[p] = sends[p]
  BY <1>2 DEF MarkSent, TypeOK
<1>6. TypeOK'
  BY <1>4, <1>5 DEF MarkSent, call, TypeOK, AccountOK, history
<1>7. RowsOK'
  BY <1>1, <1>2, <1>4, <1>5 DEF MarkSent, call, RowsOK, Fresh, history
<1>8. DispatchOK'
  BY <1>1, IdleAfter, CoordinatorAssumption DEF MarkSent, call, DispatchOK
<1> QED
  BY <1>6, <1>7, <1>8

LEMMA ExecuteKeeps ==
  ASSUME OrderInv, AccountOK', NEW o \in Orders, NEW effect \in Effects, Execute(o, effect)
  PROVE  OrderInv'
<1> USE DEF OrderInv
<1>1. Transport = "stream" /\ stage = "idle" /\ inflight = NoOrder
  BY StreamFacts, IdleFacts DEF Execute
<1>2. sends[o] # 0 /\ order[o].resv # "RELEASED"
  BY DEF Execute, RowsOK
<1>3. /\ broker' \in [Orders -> Effects \cup {"none", "cancelled"}]
      /\ \A p \in Orders : p # o => broker'[p] = broker[p]
  BY DEF Execute, TypeOK
<1>4. TypeOK'
  BY <1>3 DEF Execute, ledger, call, TypeOK, AccountOK, history
<1>5. RowsOK'
  BY <1>2, <1>3 DEF Execute, ledger, call, RowsOK, Fresh, history
<1>6. DispatchOK'
  BY <1>1, IdleAfter DEF Execute, call, DispatchOK
<1> QED
  BY <1>4, <1>5, <1>6

LEMMA BrokerMovesKeeps ==
  ASSUME OrderInv, AccountOK', NEW o \in Orders, BrokerMoves(o)
  PROVE  OrderInv'
<1> USE DEF OrderInv
<1>1. /\ broker' \in [Orders -> Effects \cup {"none", "cancelled"}]
      /\ \A p \in Orders : p # o => broker'[p] = broker[p]
  BY DEF BrokerMoves, TypeOK, Effects
<1>2. broker[o] = "working"
  BY DEF BrokerMoves
<1>3. TypeOK'
  BY <1>1 DEF BrokerMoves, ledger, call, stream, TypeOK, AccountOK, history
<1>4. RowsOK'
  BY <1>1, <1>2 DEF BrokerMoves, ledger, call, stream, RowsOK, Fresh, history
<1>5. DispatchOK'
  BY DEF BrokerMoves, ledger, call, stream, DispatchOK
<1> QED
  BY <1>3, <1>4, <1>5

LEMMA ResultKeeps ==
  ASSUME OrderInv, AccountOK', NEW o \in Orders, NEW clear \in BOOLEAN, Result(o, clear)
  PROVE  OrderInv'
<1> USE DEF OrderInv
<1>1. /\ Transport = "stream" /\ stage = "idle" /\ inflight = NoOrder
      /\ order[o] \in OrderRow /\ ~Fresh(o) /\ o \notin wire
  BY StreamFacts, IdleFacts DEF Result, Fresh, TypeOK
<1>2. /\ order' \in [Orders -> OrderRow] /\ work' \in [Orders -> WorkStates]
      /\ underFence' \in BOOLEAN
      /\ order'[o].record \in {"ACCEPTED", "REJECTED", "UNKNOWN"} /\ order'[o].status # "ABSENT"
      /\ order'[o].resv = "RELEASED" => order[o].resv = "RELEASED" \/ broker[o] = "refused"
      /\ \A p \in Orders : p # o => order'[p] = order[p]
      /\ \A p \in Orders : work'[p] # "NONE" => work[p] # "NONE" \/ p = o
  <2>1. CASE clear
    <3> DEFINE q == IF broker[o] = "refused" THEN RefusedRow(order[o]) ELSE AcceptedRow(order[o])
    <3>1. order' = [order EXCEPT ![o] = q] /\ work' = work /\ underFence' = underFence
      BY <2>1 DEF Result
    <3>2. /\ q \in OrderRow /\ q.record \in {"ACCEPTED", "REJECTED"} /\ q.status # "ABSENT"
          /\ q.resv = "RELEASED" => order[o].resv = "RELEASED" \/ broker[o] = "refused"
      BY <1>1, RowFacts
    <3> HIDE DEF q
    <3> QED
      BY <3>1, <3>2 DEF TypeOK
  <2>2. CASE ~clear
    <3> DEFINE os == [order EXCEPT ![o] = DoubtfulRow(@)]
    <3>1. RecordUnknown({o}, acct, os) /\ {o} \in SUBSET Orders
      BY <2>2 DEF Result
    <3>2. /\ os \in [Orders -> OrderRow] /\ os[o] = DoubtfulRow(order[o])
          /\ \A p \in Orders : p # o => os[p] = order[p]
      BY <1>1, RowFacts DEF TypeOK
    <3> HIDE DEF os
    <3>3. /\ order' \in [Orders -> OrderRow] /\ work' \in [Orders -> WorkStates]
          /\ underFence' \in BOOLEAN
          /\ \A p \in Orders :
                 /\ order'[p].status = os[p].status /\ order'[p].event = os[p].event
                 /\ order'[p].record = os[p].record /\ order'[p].resv = os[p].resv
                 /\ p \notin {o} => order'[p] = os[p]
                 /\ work'[p] # "NONE" => work[p] # "NONE" \/ p \in {o}
      BY <3>1, <3>2, RecordUnknownRows
    <3> QED
      BY <1>1, <3>2, <3>3, RowFacts
  <2> QED
    BY <2>1, <2>2
<1>3. TypeOK'
  BY <1>2 DEF Result, call, stream, world, TypeOK, AccountOK, history
<1>4. ~Fresh(o)'
  BY <1>1, <1>2 DEF Fresh
<1>5. \A p \in Orders : p = o => ~Fresh(p)' /\ order'[p].status # "ABSENT"
  BY <1>2, <1>4
<1>6. RowsOK'
  BY <1>1, <1>2, <1>5, RowsMove DEF Result, call, stream, world, history
<1>7. DispatchOK'
  BY <1>1, IdleAfter, CoordinatorAssumption DEF Result, call, stream
<1> QED
  BY <1>3, <1>6, <1>7

LEMMA LoseSessionKeeps ==
  ASSUME OrderInv, AccountOK', NEW clean \in BOOLEAN, LoseSession(clean)
  PROVE  OrderInv'
<1> USE DEF OrderInv
<1>1. Transport = "stream" /\ stage = "idle" /\ inflight = NoOrder
  BY StreamFacts, IdleFacts DEF LoseSession
<1> DEFINE sent == {o \in Orders : order[o].record = "SENT"}
           new == sent \ Unresolved(work)
           Lost(o) == [DoubtfulRow(order[o]) EXCEPT !.journal =
                           IF @ = "NONE" /\ o \in new THEN "DISPATCHING" ELSE @]
<1>2. order' = [o \in Orders |-> IF o \notin sent THEN order[o] ELSE Lost(o)]
  BY DEF LoseSession
<1>3. ASSUME NEW o \in Orders
      PROVE  /\ Lost(o) \in OrderRow /\ Lost(o).record = "UNKNOWN" /\ Lost(o).status = "UNKNOWN"
             /\ Lost(o).resv = order[o].resv
  <2>1. order[o] \in OrderRow
    BY DEF TypeOK
  <2>2. /\ DoubtfulRow(order[o]) \in OrderRow /\ DoubtfulRow(order[o]).record = "UNKNOWN"
        /\ DoubtfulRow(order[o]).status = "UNKNOWN"
        /\ DoubtfulRow(order[o]).resv = order[o].resv
    BY <2>1, RowFacts
  <2>3. Lost(o) \in {DoubtfulRow(order[o]),
                     [DoubtfulRow(order[o]) EXCEPT !.journal = "DISPATCHING"]}
    BY <2>2 DEF OrderRow
  <2> HIDE DEF Lost
  <2> QED
    BY <2>2, <2>3, MarkedRow
<1>4. /\ work' \in [Orders -> WorkStates] /\ underFence' \in BOOLEAN
      /\ \A o \in Orders : work'[o] # "NONE" => work[o] # "NONE" \/ o \in sent
  BY DEF LoseSession, TypeOK, WorkStates
<1>5. order' \in [Orders -> OrderRow]
  <2> HIDE DEF Lost, sent
  <2> QED
    BY <1>2, <1>3 DEF TypeOK
<1>6. TypeOK'
  BY <1>4, <1>5 DEF LoseSession, call, world, TypeOK, AccountOK, history
<1>7. ASSUME NEW o \in Orders, order'[o] # order[o]
      PROVE  /\ ~Fresh(o) /\ ~Fresh(o)' /\ order'[o].status # "ABSENT"
             /\ order'[o].resv = order[o].resv
  <2>1. order[o].record = "SENT" /\ order'[o] = Lost(o)
    BY <1>2, <1>7
  <2> HIDE DEF Lost
  <2> QED
    BY <1>1, <1>3, <2>1 DEF Fresh
<1>8. RowsOK'
  <2>1. ASSUME NEW o \in Orders, work'[o] # "NONE" PROVE work[o] # "NONE" \/ ~Fresh(o)'
    <3>1. o \in sent => order'[o] = Lost(o)
      BY <1>2
    <3> HIDE DEF Lost
    <3> QED
      BY <1>1, <1>3, <1>4, <2>1, <3>1 DEF Fresh
  <2> QED
    BY <1>5, <1>7, <2>1, RowsMove DEF LoseSession, call, world, history
<1>9. DispatchOK'
  BY <1>1, IdleAfter DEF LoseSession, call
<1> QED
  BY <1>6, <1>8, <1>9

LEMMA RestartKeeps ==
  ASSUME OrderInv, AccountOK', Restart
  PROVE  OrderInv'
<1> USE DEF OrderInv
<1> DEFINE doubtful == {o \in Orders : InFlightRow(order[o])}
           os == [o \in Orders |-> IF o \in doubtful THEN [order[o] EXCEPT !.status = "UNKNOWN"]
                                   ELSE order[o]]
<1>1. RecordUnknown(doubtful, BeginRestart(acct), os) /\ doubtful \in SUBSET Orders
  BY DEF Restart
<1>2. \A o \in doubtful : ~Fresh(o)
  BY DEF InFlightRow, RowsOK
<1>3. \A o \in Orders : order[o] \in OrderRow
  BY DEF TypeOK
<1> HIDE DEF doubtful
<1>4. \A o \in Orders :
         /\ os[o] \in OrderRow /\ os[o].event = order[o].event
         /\ os[o].record = order[o].record /\ os[o].resv = order[o].resv
         /\ o \in doubtful => os[o].status = "UNKNOWN"
         /\ o \notin doubtful => os[o] = order[o]
  BY <1>3, MarkedRow
<1>5. os \in [Orders -> OrderRow]
  BY <1>4
<1> HIDE DEF os
<1>6. /\ order' \in [Orders -> OrderRow] /\ work' \in [Orders -> WorkStates]
      /\ underFence' \in BOOLEAN
      /\ \A o \in Orders :
             /\ order'[o].status = os[o].status /\ order'[o].event = os[o].event
             /\ order'[o].record = os[o].record /\ order'[o].resv = os[o].resv
             /\ o \notin doubtful => order'[o] = os[o]
             /\ work'[o] # "NONE" => work[o] # "NONE" \/ o \in doubtful
  BY <1>1, <1>5, RecordUnknownRows
<1>7. restarts' \in 0..MaxRestarts /\ orphans' \subseteq Orders
  BY CoordinatorAssumption DEF Restart, TypeOK
<1>8. TypeOK'
  BY <1>6, <1>7 DEF Restart, TypeOK, AccountOK, history
<1>9. ASSUME NEW o \in Orders, order'[o] # order[o]
      PROVE  /\ ~Fresh(o) /\ ~Fresh(o)' /\ order'[o].status # "ABSENT"
             /\ order'[o].resv = order[o].resv
  <2>1. o \in doubtful
    BY <1>4, <1>6, <1>9
  <2>2. /\ order'[o].event = order[o].event /\ order'[o].record = order[o].record
        /\ order'[o].resv = order[o].resv /\ order'[o].status = "UNKNOWN"
    BY <1>4, <1>6, <2>1
  <2> QED
    BY <1>2, <2>1, <2>2 DEF Fresh
<1>10. RowsOK'
  <2>1. \A o \in Orders : work'[o] # "NONE" => work[o] # "NONE" \/ ~Fresh(o)'
    BY <1>2, <1>4, <1>6 DEF Fresh
  <2> QED
    BY <1>6, <1>9, <2>1, RowsMove DEF Restart, history
<1>11. DispatchOK'
  BY IdleAfter DEF Restart
<1> QED
  BY <1>8, <1>10, <1>11

LEMMA WorkAfterType ==
  ASSUME TypeOK, NEW S, NEW os
  PROVE  /\ WorkAfter(S, os) \in [Orders -> WorkStates]
         /\ \A o \in Orders : WorkAfter(S, os)[o] # "NONE" => work[o] # "NONE"
  BY DEF TypeOK, WorkAfter, WorkStates, Converged

LEMMA RecoverOrderKeeps ==
  ASSUME OrderInv, AccountOK', NEW o \in Orders, RecoverOrder(o)
  PROVE  OrderInv'
<1> USE DEF OrderInv
<1> DEFINE q == RecoveredRow(o)
<1>1. /\ stage = "idle" /\ inflight = NoOrder /\ Transport = "direct"
      /\ order[o] \in OrderRow /\ o \notin wire
  BY IdleFacts DEF RecoverOrder, TypeOK, RowsOK
<1>2. /\ order' = [order EXCEPT ![o] = q] /\ work' \in [Orders -> WorkStates]
      /\ \A p \in Orders : work'[p] # "NONE" => work[p] # "NONE"
  BY WorkAfterType DEF RecoverOrder
<1>3. q = order[o] \/ /\ order[o].status = "UNKNOWN" /\ q \in OrderRow
                      /\ q.event \in {"PUBLISHED", "ABORTED"} /\ q.status # "ABSENT"
                      /\ q.resv = "RELEASED" => \/ order[o].resv = "RELEASED"
                                                \/ broker[o] \notin {"working", "filled"}
  <2>1. CASE order[o].status # "UNKNOWN"
    BY <2>1 DEF RecoveredRow
  <2>2. CASE order[o].status = "UNKNOWN" /\ broker[o] = "filled"
    BY <1>1, <2>2 DEF RecoveredRow, OrderRow, Statuses
  <2>3. CASE order[o].status = "UNKNOWN" /\ broker[o] = "working"
    BY <1>1, <2>3 DEF RecoveredRow, OrderRow, Statuses
  <2>4. CASE order[o].status = "UNKNOWN" /\ broker[o] \notin {"working", "filled"}
    <3>1. q = RejectedRow(order[o])
      BY <2>4 DEF RecoveredRow
    <3> QED
      BY <1>1, <2>4, <3>1, RowFacts
  <2> QED
    BY <2>1, <2>2, <2>3, <2>4
<1> HIDE DEF q
<1>4. /\ order' \in [Orders -> OrderRow] /\ order'[o] = q
      /\ \A p \in Orders : p # o => order'[p] = order[p]
  BY <1>1, <1>2, <1>3 DEF TypeOK
<1>5. TypeOK'
  BY <1>2, <1>4 DEF RecoverOrder, call, stream, world, TypeOK, AccountOK, history
<1>6. ASSUME NEW p \in Orders, order'[p] # order[p]
      PROVE  /\ p = o /\ ~Fresh(p)' /\ order'[p].status # "ABSENT"
             /\ order'[p].resv = "RELEASED" => \/ order[p].resv = "RELEASED"
                                               \/ broker[p] \notin {"working", "filled"}
  BY <1>1, <1>3, <1>4, <1>6 DEF Fresh
<1>7. RowsOK'
  BY <1>1, <1>2, <1>4, <1>6, RowsMove DEF RecoverOrder, call, stream, world, history
<1>8. DispatchOK'
  BY <1>1, IdleAfter DEF RecoverOrder, call, stream, DispatchOK
<1> QED
  BY <1>5, <1>7, <1>8

\* The rows after a snapshot, whether or not it was read to its end.
LEMMA SeenKeeps ==
  ASSUME OrderInv, NEW S \in SUBSET Orders, NEW D \in SUBSET S, Snapshot(S),
         order' = RowsSeen(S, D), denied' = DeniedAfter(D, order'),
         UNCHANGED <<broker, sends, handler, wire>>,
         \A o \in Orders : work'[o] # "NONE" => work[o] # "NONE"
  PROVE  order' \in [Orders -> OrderRow] /\ RowsOK' /\ denied' \subseteq Orders
<1> USE DEF OrderInv
<1>1. ASSUME NEW o \in S
      PROVE  order[o] \in OrderRow /\ order[o].status # "ABSENT" /\ ~Fresh(o) /\ o \notin wire
  <2>1. /\ o \in Orders /\ o \notin wire
        /\ (o \in Known /\ sends[o] > 0) \/ o \in Unresolved(work)
    BY DEF Snapshot
  <2>2. ~Fresh(o)
    BY <2>1 DEF RowsOK, Unresolved
  <2> QED
    BY <2>1, <2>2 DEF RowsOK, TypeOK
<1>2. \A o \in S : order'[o] = ApplyObservation(order[o], Observed(o, D))
  BY DEF RowsSeen
<1>3. \A o \in Orders \ S : order'[o] = order[o]
  BY DEF RowsSeen
<1>4. \A o \in S : /\ order'[o] \in OrderRow /\ order'[o].status # "ABSENT"
                   /\ order'[o].event = order[o].event /\ order'[o].record = order[o].record
                   /\ order'[o].resv = "RELEASED" =>
                          \/ order[o].resv = "RELEASED"
                          \/ broker[o] \notin {"working", "filled"}
                          \/ o \in D /\ order'[o].status = "REJECTED"
  BY <1>1, <1>2, ObservedRow
<1>5. /\ denied \subseteq denied' /\ denied' \subseteq Orders
      /\ \A o \in D : order'[o].status = "REJECTED" /\ broker[o] \in {"working", "filled"}
             => o \in denied'
  BY DEF DeniedAfter, TypeOK
<1>6. order' \in [Orders -> OrderRow]
  BY <1>3, <1>4 DEF RowsSeen, TypeOK
<1>7. \A o \in S : ~Fresh(o)'
  BY <1>1, <1>4 DEF Fresh
<1>8. \A o \in Orders :
         \/ order'[o] = order[o]
         \/ /\ ~Fresh(o) /\ ~Fresh(o)' /\ order'[o].status # "ABSENT"
            /\ order'[o].resv = "RELEASED" =>
                   \/ order[o].resv = "RELEASED"
                   \/ broker[o] \notin {"working", "filled"} /\ o \notin wire
                   \/ o \in denied' /\ o \notin wire
  BY <1>1, <1>3, <1>4, <1>5, <1>7
<1> QED
  BY <1>5, <1>6, <1>8, RowsMove

LEMMA ObserveKeeps ==
  ASSUME OrderInv, AccountOK', NEW S \in SUBSET Orders, NEW D \in SUBSET Deniable(S),
         NEW P, NEW bare,
         \/ \E complete \in BOOLEAN : Observe(S, D, bare, complete)
         \/ ObserveRaises(S, D, P, bare)
  PROVE  OrderInv'
<1> USE DEF OrderInv
<1>1. stage = "idle" /\ inflight = NoOrder /\ D \in SUBSET S
  BY IdleFacts DEF Observe, ObserveRaises, Snapshot, Deniable
<1>2. /\ Snapshot(S) /\ order' = RowsSeen(S, D) /\ denied' = DeniedAfter(D, order')
      /\ prot' \in {PositionsSeen(P, bare), PositionsSeen(Filled(S \ D), bare)}
      /\ work' = work \/ work' = WorkAfter(S, order')
      /\ UNCHANGED <<admitted, underFence, closed, call, wire, orphans, broker, sends, stopped,
                     overridden, restarts>>
  BY DEF Observe, ObserveRaises
<1>3. /\ work' \in [Orders -> WorkStates] /\ prot' \in [Orders -> Protection]
      /\ \A o \in Orders : work'[o] # "NONE" => work[o] # "NONE"
  BY <1>2, WorkAfterType DEF PositionsSeen, TypeOK, Protection
<1>4. session' \in {"closed", "open", "seen", "ready"}
      /\ (Transport = "direct" => session' = "closed")
  BY DEF Observe, ObserveRaises, TypeOK, DispatchOK
<1>5. order' \in [Orders -> OrderRow] /\ RowsOK' /\ denied' \subseteq Orders
  BY <1>1, <1>2, <1>3, SeenKeeps DEF call
<1>6. TypeOK'
  BY <1>2, <1>3, <1>4, <1>5 DEF call, TypeOK, AccountOK
<1>7. DispatchOK'
  BY <1>1, <1>2, <1>4, IdleAfter DEF call
<1> QED
  BY <1>5, <1>6, <1>7

LEMMA RecordFillKeeps ==
  ASSUME OrderInv, AccountOK', NEW o \in Orders, NEW yes \in BOOLEAN, RecordFill(o, yes)
  PROVE  OrderInv'
<1> USE DEF OrderInv
<1>1. /\ stage = "idle" /\ inflight = NoOrder /\ Transport = "direct"
      /\ order[o] \in OrderRow /\ ~Fresh(o)
  BY IdleFacts DEF RecordFill, RowsOK, TypeOK
<1>2. /\ order' \in [Orders -> OrderRow]
      /\ order'[o].status = "FILLED" /\ order'[o].resv = "CONSUMED"
      /\ order'[o].event = order[o].event
      /\ \A p \in Orders : p # o => order'[p] = order[p]
  <2> DEFINE q == [order[o] EXCEPT !.status = "FILLED", !.resv = "CONSUMED"]
  <2>1. /\ q \in OrderRow /\ q.status = "FILLED" /\ q.resv = "CONSUMED"
        /\ q.event = order[o].event
    BY <1>1 DEF OrderRow, Statuses
  <2>2. order' = [order EXCEPT ![o] = q]
    BY DEF RecordFill
  <2> HIDE DEF q
  <2> QED
    BY <2>1, <2>2 DEF TypeOK
<1>3. prot' \in [Orders -> Protection]
  BY DEF RecordFill, TypeOK, Protection
<1>4. TypeOK'
  BY <1>2, <1>3 DEF RecordFill, call, stream, world, TypeOK, AccountOK, history
<1>5. ~Fresh(o)'
  BY <1>1, <1>2 DEF Fresh
<1>6. \A p \in Orders : p = o => ~Fresh(p)'
  BY <1>5
<1>7. RowsOK'
  BY <1>1, <1>2, <1>6, RowsMove DEF RecordFill, call, stream, world, history
<1>8. DispatchOK'
  BY <1>1, IdleAfter DEF RecordFill, call, stream, DispatchOK
<1> QED
  BY <1>4, <1>7, <1>8

LEMMA PositionsKeep ==
  ASSUME OrderInv, AccountOK', Positions
  PROVE  OrderInv'
<1> USE DEF OrderInv
<1> PICK o \in Orders :
        \/ DoubtProtection(o) \/ ConfirmProtection(o) \/ Disconnected(o)
        \/ ClosePosition(o)
        \/ \E yes \in BOOLEAN : RecordFill(o, yes) \/ RepairProtection(o, yes)
  BY DEF Positions
<1>1. ASSUME \/ DoubtProtection(o) \/ ConfirmProtection(o) \/ Disconnected(o)
             \/ ClosePosition(o) \/ \E yes \in BOOLEAN : RepairProtection(o, yes)
      PROVE  OrderInv'
  <2>1. prot' \in [Orders -> Protection] /\ closed' \subseteq Orders
    BY <1>1 DEF DoubtProtection, ConfirmProtection, Disconnected, ClosePosition,
                RepairProtection, TypeOK, Protection
  <2>2. UNCHANGED <<order, admitted, work, underFence, call, stream, world>>
    BY <1>1 DEF DoubtProtection, ConfirmProtection, Disconnected, ClosePosition, RepairProtection
  <2>3. TypeOK'
    BY <2>1, <2>2 DEF call, stream, world, history, TypeOK, AccountOK
  <2> QED
    BY <2>2, <2>3, AloneKeeps DEF stream, world, history
<1> QED
  BY <1>1, RecordFillKeeps

LEMMA SupervisionKeeps ==
  ASSUME OrderInv, AccountOK', Supervision \/ Heartbeat \/ \E o \in Orders : Escalate(o)
  PROVE  OrderInv'
<1> USE DEF OrderInv
<1>1. /\ work' \in [Orders -> WorkStates] /\ stopped' \in BOOLEAN /\ overridden' \in BOOLEAN
      /\ \A o \in Orders : work'[o] # "NONE" => work[o] # "NONE"
      /\ UNCHANGED <<order, admitted, underFence, prot, closed, call, stream, broker, sends,
                     denied, restarts>>
  BY DEF Supervision, EmergencyStop, CustodianRecovers, RuntimeHealth, Heartbeat, Escalate,
         TypeOK, ledger, world, history, WorkStates
<1>2. TypeOK'
  BY <1>1 DEF TypeOK, AccountOK, call, stream
<1> QED
  BY <1>1, <1>2, AloneKeeps DEF stream

LEMMA OrderStep == OrderInv /\ [Next]_vars => OrderInv'
<1> SUFFICES ASSUME OrderInv, [Next]_vars PROVE OrderInv'
  OBVIOUS
<1>0. AccountOK'
  BY AccountStep DEF OrderInv
<1>1. CASE \E o \in Orders : Admit(o) \/ BrokerMoves(o)
  BY <1>0, <1>1, AdmitKeeps, BrokerMovesKeeps
<1>2. CASE DirectDispatch
  BY <1>0, <1>2, BeginDispatchKeeps, CheckRefusedKeeps, AnswerClearKeeps, AnswerAmbiguousKeeps,
     SendOrderKeeps
  DEF DirectDispatch
<1>3. CASE StreamStep
  BY <1>0, <1>3, OpenSessionKeeps, SupervisionKeeps, LoseSessionKeeps, PrepareKeeps,
     MarkSentKeeps, ExecuteKeeps, ResultKeeps
  DEF StreamStep
<1>4. CASE Reconciliation
  BY <1>0, <1>4, RecoverOrderKeeps, SupervisionKeeps, ObserveKeeps DEF Reconciliation
<1>5. CASE Positions \/ Supervision
  BY <1>0, <1>5, PositionsKeep, SupervisionKeeps
<1>6. CASE Restart
  BY <1>0, <1>6, RestartKeeps
<1>7. CASE UNCHANGED vars
  <2>1. TypeOK'
    BY <1>7 DEF vars, ledger, call, stream, world, history, OrderInv, TypeOK
  <2> QED
    BY <1>0, <1>7, <2>1, AloneKeeps DEF vars, ledger, stream, world, history
<1> QED
  BY <1>1, <1>2, <1>3, <1>4, <1>5, <1>6, <1>7 DEF Next

LEMMA OrdersHold == Spec => []OrderInv
  BY OrderInit, OrderStep, PTL DEF Spec

\* Every variable of the coordinator keeps its type.
THEOREM TypeCorrect == Spec => []TypeOK
<1>1. OrderInv => TypeOK
  BY DEF OrderInv
<1> QED
  BY <1>1, OrdersHold, PTL

\* Over either transport, and across any number of restarts, lost sessions and
\* reconciliations, an order is handed to the broker side at most once.
THEOREM HandedOverOnce == Spec => []SentOnce
<1>1. OrderInv => SentOnce
  BY DEF OrderInv, RowsOK, SentOnce
<1> QED
  BY <1>1, OrdersHold, PTL

\* What works or is filled at the broker keeps its reservation, whatever became of
\* the calls, results and snapshots in between, unless a snapshot denied its effect:
\* the denial is the only way in which risk is freed under a live order.
THEOREM RiskIsHeld == Spec => []ExposureIsReserved
<1>1. OrderInv => ExposureIsReserved
  BY DEF OrderInv, RowsOK, ExposureIsReserved
<1> QED
  BY <1>1, OrdersHold, PTL

\* dispatch_next hands nothing over while some order is UNKNOWN: it looks before it
\* takes the order up, and nothing that may run during the call puts an order in doubt.
THEOREM NothingSentInDoubt == Transport = "direct" => (Spec => NoSendInDoubt)
<1> SUFFICES ASSUME Transport = "direct" PROVE Spec => NoSendInDoubt
  OBVIOUS
<1> DEFINE Careful == \A o, p \in Orders : sends'[o] > sends[o] => order[p].status # "UNKNOWN"
<1>1. OrderInv /\ [Next]_vars => [Careful]_vars
  <2> SUFFICES ASSUME OrderInv, Next, NEW o \in Orders, NEW p \in Orders, sends'[o] > sends[o]
               PROVE  order[p].status # "UNKNOWN"
    OBVIOUS
  <2>1. sends[o] \in Nat /\ sends' # sends
    BY DEF OrderInv, TypeOK
  <2>2. ~StreamStep
    BY <2>1, StreamFacts
    DEF StreamStep, OpenSession, Heartbeat, LoseSession, Prepare, MarkSent, Execute, Result, world
  <2>3. ~Reconciliation
    <3>1. \A S, D, P, bare, complete :
             ~Observe(S, D, bare, complete) /\ ~ObserveRaises(S, D, P, bare)
      BY <2>1 DEF Observe, ObserveRaises
    <3> QED
      BY <2>1, <3>1 DEF Reconciliation, RecoverOrder, Escalate, world
  <2>4. \E effect \in Effects \cup {"none"} : SendOrder(effect)
    BY <2>1, <2>2, <2>3
    DEF Next, Admit, BrokerMoves, DirectDispatch, BeginDispatch, CheckRefused, AnswerClear,
        AnswerAmbiguous, Positions, DoubtProtection, ConfirmProtection, Disconnected,
        ClosePosition, RecordFill, RepairProtection, Supervision, EmergencyStop,
        CustodianRecovers, RuntimeHealth, Restart, world
  <2> QED
    BY <2>4 DEF SendOrder, OrderInv, DispatchOK
<1>2. NoSendInDoubt <=> [][Careful]_vars
  BY DEF NoSendInDoubt
<1> QED
  BY <1>1, <1>2, OrdersHold, PTL DEF Spec

-----------------------------------------------------------------------------
(* Doubt keeps the gate closed until some of it has converged.             *)

\* What keeps an account from being eligible on account of work in doubt: the reason
\* that _record_unknown sets, or the custodian's quarantine, which that reason may
\* not touch.
Fenced(a) == a.custody \/ "RECONCILIATION_PENDING" \in a.reasons

DoubtOK == \/ overridden \/ Unresolved(work) = {}
           \/ \E o \in Orders : work[o] = "RECOVERED"
           \/ Fenced(acct)

LEMMA RestoreFenced ==
  ASSUME NEW a \in Account, NEW x, NEW y, NEW z
  PROVE  /\ Fenced(RestoreIfSafe(a, x, y)) <=> Fenced(a)
         /\ Fenced(RestoreTemporary(a, x, y, z)) <=> Fenced(a)
         /\ Fenced(CompleteRestart(a, x)) <=> Fenced(a)
         /\ Fenced(BeginRestart(a)) <=> Fenced(a)
         /\ Fenced(Fence(a)) <=> Fenced(a)
         /\ Fenced([a EXCEPT !.gate = "QUARANTINED"]) <=> Fenced(a)
<1>1. \A g \in Gates, l \in Locks :
         /\ Fenced([a EXCEPT !.gate = g]) <=> Fenced(a)
         /\ Fenced([a EXCEPT !.lock = l, !.gate = g]) <=> Fenced(a)
  BY DEF Account, Fenced
<1>2. Fenced(RestoreIfSafe(a, x, y)) <=> Fenced(a)
  BY DEF RestoreIfSafe, Fenced, Account
<1>3. Fenced(RestoreTemporary(a, x, y, z)) <=> Fenced(a)
  BY DEF RestoreTemporary, Fenced, Account
<1>4. Fenced(CompleteRestart(a, x)) <=> Fenced(a)
  BY DEF CompleteRestart, Fenced, Account
<1>5. Fenced(BeginRestart(a)) <=> Fenced(a)
  BY DEF BeginRestart, Fenced, Account
<1>6. Fenced(Fence(a)) <=> Fenced(a)
  BY DEF Fence, Fenced, Account
<1> QED
  BY <1>1, <1>2, <1>3, <1>4, <1>5, <1>6

LEMMA RemoveFenced ==
  ASSUME NEW a \in Account, NEW gone, "RECONCILIATION_PENDING" \notin gone, NEW x, NEW y,
         Fenced(a)
  PROVE  Fenced(RemoveReasons(a, gone, x, y))
<1> DEFINE b == [a EXCEPT !.reasons = @ \ gone]
<1>1. b \in Account /\ Fenced(b)
  BY DEF Account, Fenced
<1>2. RemoveReasons(a, gone, x, y) \in {b, RestoreIfSafe(b, x, y)}
  BY DEF RemoveReasons
<1> HIDE DEF b
<1> QED
  BY <1>1, <1>2, RestoreFenced

LEMMA SetFenced ==
  ASSUME NEW a \in Account, NEW reasons \in SUBSET Reasons, NEW persistent \in BOOLEAN
  PROVE  /\ Fenced(a) => Fenced(SetInterlock(a, reasons, persistent))
         /\ "RECONCILIATION_PENDING" \in reasons => Fenced(SetInterlock(a, reasons, persistent))
<1>1. CASE a.custody /\ ~persistent
  BY <1>1 DEF SetInterlock, Fenced
<1>2. CASE ~(a.custody /\ ~persistent)
  BY <1>2 DEF SetInterlock, Fenced, Account
<1> QED
  BY <1>1, <1>2

LEMMA QuarantineFenced ==
  ASSUME NEW a \in Account, Held(a)
  PROVE  Fenced(Quarantine(a))
<1>1. Fence([a EXCEPT !.gate = "QUARANTINED"]) \in Account
  BY QuarantinedGate, FenceGentle DEF Gently
<1> QED
  BY <1>1, SetFenced DEF Quarantine

\* New doubt fences the account; without any, doubt and account are as before.
LEMMA RecordUnknownDoubt ==
  ASSUME DoubtOK, NEW S, NEW a \in Account, Held(a), Fenced(acct) => Fenced(a), NEW os,
         RecordUnknown(S, a, os), overridden' = overridden, TypeOK
  PROVE  DoubtOK'
<1>1. CASE S \ Unresolved(work) = {}
  <2>1. work' = work /\ acct' = a
    BY <1>1 DEF RecordUnknown, TypeOK
  <2> QED
    BY <2>1 DEF DoubtOK, Unresolved
<1>2. CASE S \ Unresolved(work) # {}
  <2>1. acct' = Quarantine(a)
    BY <1>2 DEF RecordUnknown
  <2> QED
    BY <2>1, QuarantineFenced DEF DoubtOK
<1> QED
  BY <1>1, <1>2

\* Work that converges is RECOVERED; without any, the fence stays.
LEMMA CompleteWorkDoubt ==
  ASSUME DoubtOK, TypeOK, NEW S \in SUBSET Orders, NEW a \in Account, Held(a),
         Fenced(acct) => Fenced(a), NEW os, NEW p,
         work' = WorkAfter(S, os), overridden' = overridden,
         Fenced(CompleteWork(S, a, os, p)) => Fenced(acct')
  PROVE  DoubtOK'
<1>1. CASE Converged(S, os) = {}
  <2>1. work' = work
    BY <1>1 DEF WorkAfter, TypeOK
  <2>2. CompleteWork(S, a, os, p)
            = RestoreTemporary(a, Unresolved(work) # {}, Unconfirmed(p), underFence)
    BY <1>1 DEF CompleteWork
  <2>3. Fenced(RestoreTemporary(a, Unresolved(work) # {}, Unconfirmed(p), underFence))
            <=> Fenced(a)
    BY RestoreFenced
  <2>4. Fenced(a) => Fenced(acct')
    BY <2>2, <2>3
  <2> QED
    BY <2>1, <2>4 DEF DoubtOK, Unresolved
<1>2. CASE Converged(S, os) # {}
  <2>1. PICK o \in Orders : o \in Converged(S, os)
    BY <1>2 DEF Converged
  <2>2. work'[o] = "RECOVERED"
    BY <2>1 DEF WorkAfter
  <2> QED
    BY <2>2 DEF DoubtOK
<1> QED
  BY <1>1, <1>2

LEMMA DoubtAlone ==
  ASSUME DoubtOK, UNCHANGED <<work, overridden>>, Fenced(acct) => Fenced(acct')
  PROVE  DoubtOK'
  BY DEF DoubtOK, Unresolved

LEMMA StreamDoubt ==
  ASSUME OrderInv, DoubtOK, StreamStep
  PROVE  DoubtOK'
<1> acct \in Account /\ Held(acct) /\ TypeOK
  BY DEF OrderInv, AccountOK
<1>1. CASE OpenSession \/ Heartbeat
  <2>1. Fenced(acct) => Fenced(Healthy(acct))
    BY RemoveFenced DEF Healthy
  <2> QED
    BY <1>1, <2>1, DoubtAlone DEF OpenSession, Heartbeat, ledger, world, history
<1>2. ASSUME NEW clean \in BOOLEAN, LoseSession(clean) PROVE DoubtOK'
  <2> DEFINE sent == {o \in Orders : order[o].record = "SENT"}
             new == sent \ Unresolved(work)
             a == IF new = {} THEN acct ELSE Quarantine(acct)
  <2>1. /\ work' = [o \in Orders |-> IF o \in new THEN "PENDING" ELSE work[o]]
        /\ acct' = IF clean THEN a ELSE SetInterlock(a, ConnectorReasons, FALSE)
        /\ overridden' = overridden
    BY <1>2 DEF LoseSession, world, history
  <2> HIDE DEF sent
  <2>2. a \in Account
    BY QuarantineGentle DEF Gently
  <2>3. Fenced(a) => Fenced(acct')
    <3> HIDE DEF a
    <3> QED
      BY <2>1, <2>2, SetFenced
  <2>4. CASE new = {}
    <3>1. work' = work
      BY <2>1, <2>4 DEF TypeOK
    <3> QED
      BY <2>1, <2>3, <2>4, <3>1, DoubtAlone
  <2>5. CASE new # {}
    BY <2>3, <2>5, QuarantineFenced DEF DoubtOK
  <2> QED
    BY <2>4, <2>5
<1>3. ASSUME NEW o \in Orders,
             Prepare(o) \/ MarkSent(o) \/ \E effect \in Effects : Execute(o, effect)
      PROVE  DoubtOK'
  BY <1>3, DoubtAlone DEF Prepare, MarkSent, Execute, ledger, world, history
<1>4. ASSUME NEW o \in Orders, NEW clear \in BOOLEAN, Result(o, clear)
      PROVE  DoubtOK'
  <2>1. overridden' = overridden
    BY <1>4 DEF Result, world, history
  <2>2. CASE clear
    BY <1>4, <2>1, <2>2, DoubtAlone DEF Result
  <2>3. CASE ~clear
    <3>1. PICK os : RecordUnknown({o}, acct, os)
      BY <1>4, <2>3 DEF Result
    <3> QED
      BY <2>1, <3>1, RecordUnknownDoubt
  <2> QED
    BY <2>2, <2>3
<1> QED
  BY <1>1, <1>2, <1>3, <1>4 DEF StreamStep

LEMMA BareFenced ==
  ASSUME acct \in Account, NEW bare, Fenced(acct) PROVE Fenced(BareSeen(bare))
<1>1. [acct EXCEPT !.gate = "QUARANTINED"] \in Account
  BY QuarantinedGate DEF Gently
<1> QED
  BY <1>1, SetFenced, RestoreFenced DEF BareSeen

LEMMA ReconciliationDoubt ==
  ASSUME OrderInv, DoubtOK, Reconciliation
  PROVE  DoubtOK'
<1> acct \in Account /\ Held(acct) /\ TypeOK /\ AccountOK
  BY DEF OrderInv, AccountOK
<1>1. ASSUME NEW o \in Orders, RecoverOrder(o) PROVE DoubtOK'
  <2> DEFINE os == [order EXCEPT ![o] = RecoveredRow(o)]
             a == CompleteWork({o}, acct, os, prot)
  <2>1. /\ work' = WorkAfter({o}, os) /\ overridden' = overridden
        /\ acct' = CompleteRestart(a, Unresolved(work') # {})
    BY <1>1 DEF RecoverOrder, world, history
  <2> HIDE DEF os
  <2>2. a \in Account
    BY CompleteWorkAccount DEF Gently
  <2>3. Fenced(a) => Fenced(acct')
    <3> HIDE DEF a
    <3> QED
      BY <2>1, <2>2, RestoreFenced
  <2> QED
    BY <2>1, <2>3, CompleteWorkDoubt
<1>2. ASSUME NEW S \in SUBSET Orders, NEW D, NEW bare, NEW complete,
             Observe(S, D, bare, complete)
      PROVE  DoubtOK'
  <2> DEFINE a == BareSeen(bare)
             b == CompleteWork(S, a, order', prot')
  <2>1. /\ work' = WorkAfter(S, order') /\ overridden' = overridden
        /\ acct' = IF complete THEN CompleteRestart(b, Unresolved(work') # {}) ELSE b
    BY <1>2 DEF Observe
  <2>2. Gently(acct, a, FALSE)
    BY BareAccount
  <2>3. Fenced(acct) => Fenced(a)
    BY BareFenced
  <2> HIDE DEF a
  <2>4. b \in Account
    BY <2>2, CompleteWorkAccount DEF Gently
  <2>5. Fenced(b) => Fenced(acct')
    <3> HIDE DEF b
    <3> QED
      BY <2>1, <2>4, RestoreFenced
  <2> QED
    BY <2>1, <2>2, <2>3, <2>5, CompleteWorkDoubt DEF Gently
<1>3. ASSUME NEW o \in Orders, Escalate(o) PROVE DoubtOK'
  <2>1. /\ work[o] = "PENDING" /\ work' = [work EXCEPT ![o] = "ESCALATED"]
        /\ acct' = acct /\ overridden' = overridden
    BY <1>3 DEF Escalate, world, history
  <2>2. \A p \in Orders : work[p] = "RECOVERED" => work'[p] = "RECOVERED"
    BY <2>1 DEF TypeOK
  <2>3. Unresolved(work) # {}
    BY <2>1 DEF Unresolved
  <2> QED
    BY <2>1, <2>2, <2>3 DEF DoubtOK
<1>4. ASSUME NEW S, NEW D, NEW P, NEW bare, ObserveRaises(S, D, P, bare)
      PROVE  DoubtOK'
  BY <1>4, BareFenced, DoubtAlone DEF ObserveRaises
<1>5. CASE \E S \in SUBSET Orders : \E D, P, bare, complete :
               Observe(S, D, bare, complete) \/ ObserveRaises(S, D, P, bare)
  BY <1>2, <1>4, <1>5
<1> QED
  BY <1>1, <1>3, <1>5 DEF Reconciliation

LEMMA PositionsDoubt ==
  ASSUME OrderInv, DoubtOK, Positions
  PROVE  DoubtOK'
<1> DEFINE g == [acct EXCEPT !.gate = "QUARANTINED"]
<1>0. acct \in Account /\ Held(acct) /\ AccountOK
  BY DEF OrderInv, AccountOK
<1>1. /\ g \in Account /\ Fence(g) \in Account /\ Fence(acct) \in Account
  BY <1>0, QuarantinedGate, FenceGentle DEF Gently
<1>2. Fenced(acct) => Fenced(g) /\ Fenced(Fence(acct)) /\ Fenced(Fence(g))
  BY <1>0, <1>1, RestoreFenced
<1> HIDE DEF g
<1>3. \A r \in SUBSET Reasons, b \in BOOLEAN : Fenced(acct) =>
         /\ Fenced(SetInterlock(g, r, b)) /\ Fenced(SetInterlock(Fence(g), r, b))
         /\ Fenced(SetInterlock(Fence(acct), r, b))
  BY <1>1, <1>2, SetFenced
<1>4. \A x, y : Fenced(acct) => Fenced(RemoveReasons(acct, ProtectionReasons, x, y))
  BY <1>0, RemoveFenced
<1> PICK o \in Orders :
        \/ DoubtProtection(o) \/ ConfirmProtection(o) \/ Disconnected(o)
        \/ ClosePosition(o)
        \/ \E yes \in BOOLEAN : RecordFill(o, yes) \/ RepairProtection(o, yes)
  BY DEF Positions
<1>5. UNCHANGED <<work, overridden>>
  BY DEF DoubtProtection, ConfirmProtection, Disconnected, ClosePosition, RecordFill,
         RepairProtection, world, history
<1>6. CASE ConfirmProtection(o)
  <2> DEFINE a == RemoveReasons(acct, ProtectionReasons, Exposed(prot'), underFence)
             c == RestoreTemporary(a, FALSE, Unconfirmed(prot'), underFence)
  <2>1. acct' = IF Unresolved(work) # {} THEN [a EXCEPT !.gate = "QUARANTINED"] ELSE c
    BY <1>6 DEF ConfirmProtection
  <2>2. a \in Account
    BY <1>0, RemoveReasonsGentle, ExposedBoolean DEF Gently
  <2>3. Fenced(acct) => Fenced(a)
    BY <1>4
  <2> HIDE DEF a
  <2>4. Fenced(a) => Fenced(acct')
    BY <2>1, <2>2, RestoreFenced
  <2> QED
    BY <1>5, <2>3, <2>4, DoubtAlone
<1>7. CASE DoubtProtection(o)
  BY <1>3, <1>5, <1>7, DoubtAlone DEF DoubtProtection, g
<1>8. CASE Disconnected(o)
  BY <1>3, <1>5, <1>8, DoubtAlone DEF Disconnected, g
<1>9. CASE ClosePosition(o)
  BY <1>5, <1>9, DoubtAlone DEF ClosePosition
<1>10. ASSUME NEW yes \in BOOLEAN, RecordFill(o, yes) PROVE DoubtOK'
  <2>1. acct' \in {acct, SetInterlock(Fence(g), ProtectionReasons, FALSE)}
    BY <1>10 DEF RecordFill, g
  <2> QED
    BY <1>3, <1>5, <2>1, DoubtAlone
<1>11. ASSUME NEW yes \in BOOLEAN, RepairProtection(o, yes) PROVE DoubtOK'
  <2>1. acct' \in {RemoveReasons(acct, ProtectionReasons, Exposed(prot'), underFence),
                   SetInterlock(Fence(acct), {"NATIVE_PROTECTION_UNVERIFIED"}, TRUE)}
    BY <1>11 DEF RepairProtection
  <2> QED
    BY <1>3, <1>4, <1>5, <2>1, DoubtAlone
<1> QED
  BY <1>6, <1>7, <1>8, <1>9, <1>10, <1>11

LEMMA SupervisionDoubt ==
  ASSUME OrderInv, DoubtOK, Supervision
  PROVE  DoubtOK'
<1> acct \in Account /\ Held(acct)
  BY DEF OrderInv, AccountOK
<1>1. CASE EmergencyStop
  BY <1>1, RestoreFenced, DoubtAlone DEF EmergencyStop, ledger
<1>2. CASE CustodianRecovers
  <2>1. /\ work' = work /\ overridden' = (overridden \/ Unresolved(work) # {})
    BY <1>2 DEF CustodianRecovers, ledger
  <2> QED
    BY <2>1 DEF DoubtOK, Unresolved
<1>3. ASSUME NEW reasons \in HealthReports, NEW persistent \in BOOLEAN,
             RuntimeHealth(reasons, persistent)
      PROVE  DoubtOK'
  <2>1. reasons \in SUBSET Reasons
    BY CoordinatorAssumption
  <2>2. /\ acct' \in {acct, SetInterlock(acct, reasons, persistent),
                     RemoveReasons(acct, RuntimeHealthReasons, Exposed(prot), underFence)}
        /\ UNCHANGED <<work, overridden>>
    BY <1>3 DEF RuntimeHealth, ledger, world, history
  <2>3. Fenced(acct) => Fenced(RemoveReasons(acct, RuntimeHealthReasons, Exposed(prot), underFence))
    BY RemoveFenced
  <2>4. Fenced(acct) => Fenced(SetInterlock(acct, reasons, persistent))
    BY <2>1, SetFenced
  <2> QED
    BY <2>2, <2>3, <2>4, DoubtAlone
<1> QED
  BY <1>1, <1>2, <1>3 DEF Supervision

LEMMA DoubtStep == OrderInv /\ DoubtOK /\ [Next]_vars => DoubtOK'
<1> SUFFICES ASSUME OrderInv, DoubtOK, [Next]_vars PROVE DoubtOK'
  OBVIOUS
<1>0. acct \in Account /\ Held(acct) /\ TypeOK
  BY DEF OrderInv, AccountOK
<1>1. CASE \E o \in Orders : Admit(o) \/ BrokerMoves(o)
  BY <1>1, DoubtAlone DEF Admit, BrokerMoves, ledger, world, history
<1>2. CASE DirectDispatch
  <2>1. CASE AnswerAmbiguous
    <3>1. PICK os : RecordUnknown({inflight}, acct, os)
      BY <2>1 DEF AnswerAmbiguous
    <3> QED
      BY <1>0, <2>1, <3>1, RecordUnknownDoubt DEF AnswerAmbiguous, world, history
  <2>2. CASE BeginDispatch \/ CheckRefused \/ AnswerClear
                \/ \E effect \in Effects \cup {"none"} : SendOrder(effect)
    BY <2>2, DoubtAlone
    DEF BeginDispatch, CheckRefused, AnswerClear, SendOrder, ledger, world, history
  <2> QED
    BY <1>2, <2>1, <2>2 DEF DirectDispatch
<1>3. CASE Restart
  <2>1. /\ \E S, os : RecordUnknown(S, BeginRestart(acct), os)
        /\ overridden' = overridden
    BY <1>3 DEF Restart, history
  <2>2. PICK S, os : RecordUnknown(S, BeginRestart(acct), os)
    BY <2>1
  <2>3. BeginRestart(acct) \in Account /\ Held(BeginRestart(acct))
    BY <1>0, BeginRestartGentle
  <2>4. Fenced(acct) => Fenced(BeginRestart(acct))
    BY <1>0, RestoreFenced
  <2> QED
    BY <1>0, <2>1, <2>2, <2>3, <2>4, RecordUnknownDoubt
<1>4. CASE UNCHANGED vars
  BY <1>4, DoubtAlone DEF vars, ledger, world, history
<1> QED
  BY <1>1, <1>2, <1>3, <1>4, StreamDoubt, ReconciliationDoubt, PositionsDoubt, SupervisionDoubt
  DEF Next

\* Until the first work converges, nothing but the custodian lifts the fence that work
\* in doubt puts up: for any orders, sessions, fills, health reports and restarts.
THEOREM DoubtKeepsTheFence == Spec => []DoubtFences
<1>1. Init => DoubtOK
  BY DEF Init, DoubtOK, Unresolved
<1>2. OrderInv /\ DoubtOK => DoubtFences
  <2>1. AccountOK /\ Eligible(acct) => ~Fenced(acct)
    BY DEF AccountOK, Eligible, Fenced, Held
  <2> QED
    BY <2>1 DEF OrderInv, DoubtOK, DoubtFences
<1> QED
  BY <1>1, <1>2, OrdersHold, DoubtStep, PTL DEF Spec

-----------------------------------------------------------------------------
(* The dispatch records are treated as StreamPromise says.                 *)

StreamAnswers == SentOrders \ (wire \cup orphans)
Promised == <<RecordState, StreamSession, wire, StreamAnswers>>

\* What is SENT without a session was sent by a process that is gone.
ClosedOK == session = "closed" => SentOrders \subseteq orphans

StreamInv == OrderInv /\ ClosedOK

SameRecords == \A o \in Orders : order'[o].record = order[o].record

LEMMA SameRecordsView ==
  ASSUME SameRecords PROVE RecordState' = RecordState /\ SentOrders' = SentOrders
  BY DEF SameRecords, RecordState, SentOrders

\* A step that touches no record, no frame and no session is a stutter.
LEMMA AwayFromStream ==
  ASSUME ClosedOK, SameRecords, UNCHANGED stream
  PROVE  [Stream!Next]_Promised /\ ClosedOK'
<1>1. RecordState' = RecordState /\ SentOrders' = SentOrders
  BY SameRecordsView
<1> QED BY <1>1 DEF stream, Promised, StreamAnswers, StreamSession, ClosedOK

\* One record of the orders is rewritten.
LEMMA OneRecord ==
  ASSUME TypeOK, NEW o \in Orders, NEW v,
         order' \in [Orders -> OrderRow], order'[o].record = v,
         \A p \in Orders : p # o => order'[p].record = order[p].record
  PROVE  /\ RecordState' = [RecordState EXCEPT ![o] = v]
         /\ v = "SENT" => SentOrders' = SentOrders \cup {o}
         /\ v # "SENT" => SentOrders' = SentOrders \ {o}
  BY DEF RecordState, SentOrders

LEMMA DispatchAway ==
  ASSUME OrderInv, ClosedOK, DirectDispatch
  PROVE  [Stream!Next]_Promised /\ ClosedOK'
<1>0. TypeOK /\ \A o \in Orders : order[o] \in OrderRow
  BY DEF OrderInv, TypeOK
<1>1. UNCHANGED stream
  BY DEF DirectDispatch, BeginDispatch, CheckRefused, AnswerClear, AnswerAmbiguous,
     SendOrder
<1>2. CASE BeginDispatch
  <2>1. PICK o \in Orders : order' = [order EXCEPT ![o].status = "DISPATCHING",
                                                   ![o].event = "DISPATCHING",
                                                   ![o].journal = "DISPATCHING"]
    BY <1>2 DEF BeginDispatch
  <2>2. SameRecords
    BY <1>0, <2>1 DEF TypeOK, OrderRow, SameRecords
  <2> QED BY <1>1, <2>2, AwayFromStream
<1>3. CASE CheckRefused
  <2>1. SameRecords
    BY <1>0, <1>3, RowFacts DEF CheckRefused, TypeOK, SameRecords
  <2> QED BY <1>1, <2>1, AwayFromStream
<1>4. CASE AnswerClear
  <2> DEFINE q == IF broker[inflight] = "refused" THEN RejectedRow(order[inflight])
                  ELSE [order[inflight] EXCEPT !.status = IF broker[inflight] = "filled"
                                                          THEN "FILLED" ELSE "SUBMITTED",
                                               !.event = "PUBLISHED", !.journal = "ACCEPTED"]
  <2>1. order' = [order EXCEPT ![inflight] = q]
    BY <1>4 DEF AnswerClear
  <2>2. inflight \in Orders => q.record = order[inflight].record
    BY <1>0, RowFacts DEF OrderRow
  <2> HIDE DEF q
  <2>3. SameRecords
    BY <1>0, <2>1, <2>2 DEF TypeOK, SameRecords
  <2> QED BY <1>1, <2>3, AwayFromStream
<1>5. CASE AnswerAmbiguous
  <2> DEFINE os == [order EXCEPT ![inflight].status = "UNKNOWN"]
  <2>1. inflight \in Orders
    BY <1>0, <1>5 DEF AnswerAmbiguous, OrderInv, DispatchOK, TypeOK
  <2>2. /\ os \in [Orders -> OrderRow]
        /\ \A o \in Orders : os[o].record = order[o].record
    BY <1>0, <2>1, MarkedRow DEF TypeOK
  <2>3. RecordUnknown({inflight}, acct, os) /\ {inflight} \in SUBSET Orders
    BY <1>5, <2>1 DEF AnswerAmbiguous
  <2> HIDE DEF os
  <2>4. \A o \in Orders : order'[o].record = os[o].record
    BY <1>0, <2>2, <2>3, RecordUnknownRows
  <2>5. SameRecords
    BY <2>2, <2>4 DEF SameRecords
  <2> QED BY <1>1, <2>5, AwayFromStream
<1>6. ASSUME NEW effect, SendOrder(effect) PROVE [Stream!Next]_Promised /\ ClosedOK'
  <2>1. SameRecords
    BY <1>6 DEF SendOrder, ledger, SameRecords
  <2> QED BY <1>1, <2>1, AwayFromStream
<1> QED BY <1>2, <1>3, <1>4, <1>5, <1>6 DEF DirectDispatch

LEMMA SessionRefines ==
  ASSUME OrderInv, ClosedOK,
         OpenSession \/ Heartbeat \/ \E clean \in BOOLEAN : LoseSession(clean)
  PROVE  [Stream!Next]_Promised /\ ClosedOK'
<1>0. TypeOK
  BY DEF OrderInv
<1>1. CASE OpenSession
  <2>1. /\ session = "closed" /\ session' = "open" /\ wire' = {}
        /\ UNCHANGED <<order, orphans>>
    BY <1>1 DEF OpenSession, ledger
  <2>2. RecordState' = RecordState /\ SentOrders' = SentOrders
    BY <2>1 DEF RecordState, SentOrders
  <2>3. StreamAnswers' = {}
    BY <2>1, <2>2 DEF StreamAnswers, ClosedOK
  <2>4. Stream!Open
    BY <2>1, <2>2, <2>3 DEF Stream!Open, StreamSession, StreamAnswers
  <2> QED BY <2>1, <2>4 DEF Stream!Next, ClosedOK
<1>2. CASE Heartbeat
  BY <1>2, AwayFromStream DEF Heartbeat, ledger, SameRecords
<1>3. ASSUME NEW clean \in BOOLEAN, LoseSession(clean)
      PROVE  [Stream!Next]_Promised /\ ClosedOK'
  <2>1. session # "closed" /\ session' = "closed" /\ orphans' = {} /\ wire' = wire
    BY <1>3 DEF LoseSession
  <2>2. ASSUME NEW o \in Orders
        PROVE  order'[o].record = IF order[o].record = "SENT" THEN "UNKNOWN" ELSE order[o].record
    <3>1. order[o] \in OrderRow
      BY <1>0 DEF TypeOK
    <3>2. CASE order[o].record # "SENT"
      BY <1>3, <3>2 DEF LoseSession
    <3>3. CASE order[o].record = "SENT"
      <4>1. \E b : order'[o] = [DoubtfulRow(order[o]) EXCEPT !.journal = b]
        BY <1>3, <3>3 DEF LoseSession
      <4>2. DoubtfulRow(order[o]) \in OrderRow /\ DoubtfulRow(order[o]).record = "UNKNOWN"
        BY <3>1, RowFacts
      <4> QED BY <3>3, <4>1, <4>2 DEF OrderRow
    <3> QED BY <3>2, <3>3
  <2>3. RecordState' = [o \in Orders |-> IF RecordState[o] = "SENT" THEN "UNKNOWN"
                                         ELSE RecordState[o]]
    BY <2>2 DEF RecordState
  <2>4. SentOrders' = {}
    BY <2>2 DEF SentOrders
  <2>5. Stream!Lose
    BY <2>1, <2>3, <2>4 DEF Stream!Lose, StreamSession, StreamAnswers
  <2> QED BY <2>4, <2>5 DEF Stream!Next, ClosedOK
<1> QED BY <1>1, <1>2, <1>3

LEMMA OrderRefines ==
  ASSUME OrderInv, ClosedOK, NEW o \in Orders, OrderInv',
         \/ Admit(o) \/ Prepare(o) \/ MarkSent(o) \/ \E effect \in Effects : Execute(o, effect)
         \/ \E clear \in BOOLEAN : Result(o, clear)
  PROVE  [Stream!Next]_Promised /\ ClosedOK'
<1>0. TypeOK /\ RowsOK /\ order[o] \in OrderRow /\ order' \in [Orders -> OrderRow]
  BY DEF OrderInv, TypeOK
<1>1. CASE Admit(o)
  <2>1. order[o].record = "NONE"
    BY <1>0, <1>1 DEF Admit, RowsOK
  <2>2. order' = [order EXCEPT ![o] = [status |-> "INTENT", event |-> "PENDING",
            resv |-> "ACTIVE", record |-> "NONE", journal |-> "NONE"]]
    BY <1>1 DEF Admit
  <2>3. SameRecords
    BY <1>0, <2>1, <2>2 DEF TypeOK, SameRecords
  <2> QED BY <1>1, <2>3, AwayFromStream DEF Admit
<1>2. CASE Prepare(o)
  <2>1. order[o].record = "NONE" /\ order' = [order EXCEPT ![o].record = "QUEUED"]
    BY <1>0, <1>2 DEF Prepare, RowsOK
  <2>2. /\ order'[o].record = "QUEUED"
        /\ \A p \in Orders : p # o => order'[p].record = order[p].record
    BY <1>0, <2>1 DEF TypeOK, OrderRow
  <2>3. RecordState' = [RecordState EXCEPT ![o] = "QUEUED"] /\ SentOrders' = SentOrders \ {o}
    BY <1>0, <2>2, OneRecord
  <2>4. o \notin SentOrders /\ RecordState[o] = "NONE"
    BY <2>1 DEF SentOrders, RecordState
  <2>5. SentOrders' = SentOrders /\ UNCHANGED stream
    BY <1>2, <2>3, <2>4 DEF Prepare
  <2>6. Stream!Queue(o)
    BY <2>3, <2>4, <2>5 DEF Stream!Queue, stream, StreamSession
  <2> QED BY <2>5, <2>6 DEF Stream!Next, ClosedOK, stream
<1>3. CASE MarkSent(o)
  <2>1. /\ session = "ready" /\ order[o].record = "QUEUED"
        /\ order' = [order EXCEPT ![o].record = "SENT"]
        /\ wire' = wire \cup {o} /\ UNCHANGED <<session, orphans>>
    BY <1>3 DEF MarkSent
  <2>2. /\ order'[o].record = "SENT"
        /\ \A p \in Orders : p # o => order'[p].record = order[p].record
    BY <1>0, <2>1 DEF TypeOK, OrderRow
  <2>3. RecordState' = [RecordState EXCEPT ![o] = "SENT"] /\ SentOrders' = SentOrders \cup {o}
    BY <1>0, <2>2, OneRecord
  <2>4. RecordState[o] = "QUEUED" /\ o \notin SentOrders
    BY <2>1 DEF RecordState, SentOrders
  <2>5. StreamAnswers' = StreamAnswers
    BY <2>1, <2>3, <2>4 DEF StreamAnswers
  <2>6. Stream!Send(o)
    BY <2>1, <2>3, <2>4, <2>5 DEF Stream!Send, StreamSession, StreamAnswers
  <2> QED BY <2>1, <2>6 DEF Stream!Next, ClosedOK
<1>4. ASSUME NEW effect \in Effects, Execute(o, effect)
      PROVE  [Stream!Next]_Promised /\ ClosedOK'
  <2>1. o \in wire /\ wire' = wire \ {o} /\ UNCHANGED <<order, session, orphans>>
    BY <1>4 DEF Execute, ledger
  <2>2. RecordState' = RecordState /\ SentOrders' = SentOrders
    BY <2>1 DEF RecordState, SentOrders
  <2>3. StreamAnswers' \in {StreamAnswers, StreamAnswers \cup {o}}
    BY <2>1, <2>2 DEF StreamAnswers
  <2>4. Stream!Act(o)
    BY <2>1, <2>2, <2>3 DEF Stream!Act, StreamSession, StreamAnswers
  <2> QED BY <2>1, <2>2, <2>4 DEF Stream!Next, ClosedOK
<1>5. ASSUME NEW clear \in BOOLEAN, Result(o, clear)
      PROVE  [Stream!Next]_Promised /\ ClosedOK'
  <2>1. /\ session # "closed" /\ order[o].record = "SENT" /\ o \notin wire \cup orphans
        /\ UNCHANGED stream
    BY <1>5 DEF Result
  <2>2. /\ order'[o].record \in {"ACCEPTED", "REJECTED", "UNKNOWN"}
        /\ \A p \in Orders : p # o => order'[p].record = order[p].record
    <3>1. CASE clear
      <4> DEFINE q == IF broker[o] = "refused" THEN RefusedRow(order[o])
                      ELSE AcceptedRow(order[o])
      <4>1. order' = [order EXCEPT ![o] = q]
        BY <1>5, <3>1 DEF Result
      <4>2. q.record \in {"ACCEPTED", "REJECTED"}
        BY <1>0, RowFacts
      <4> HIDE DEF q
      <4> QED BY <1>0, <4>1, <4>2 DEF TypeOK
    <3>2. CASE ~clear
      <4> DEFINE os == [order EXCEPT ![o] = DoubtfulRow(@)]
      <4>1. RecordUnknown({o}, acct, os) /\ {o} \in SUBSET Orders
        BY <1>5, <3>2 DEF Result
      <4>2. /\ os \in [Orders -> OrderRow] /\ os[o].record = "UNKNOWN"
            /\ \A p \in Orders : p # o => os[p].record = order[p].record
        BY <1>0, RowFacts DEF TypeOK
      <4> HIDE DEF os
      <4>3. \A p \in Orders : order'[p].record = os[p].record
        BY <1>0, <4>1, <4>2, RecordUnknownRows
      <4> QED BY <4>2, <4>3
    <3> QED BY <3>1, <3>2
  <2>3. PICK v \in {"ACCEPTED", "REJECTED", "UNKNOWN"} : order'[o].record = v
    BY <2>2
  <2>4. RecordState' = [RecordState EXCEPT ![o] = v] /\ SentOrders' = SentOrders \ {o}
    BY <1>0, <2>2, <2>3, OneRecord
  <2>5. RecordState[o] = "SENT" /\ o \in StreamAnswers /\ StreamAnswers' = StreamAnswers \ {o}
    BY <2>1, <2>4 DEF RecordState, SentOrders, StreamAnswers, stream
  <2>6. StreamSession # "closed" /\ StreamSession' = StreamSession
    BY <2>1 DEF StreamSession, stream
  <2>7. Stream!Settle(o, v)
    BY <2>1, <2>4, <2>5, <2>6 DEF Stream!Settle, StreamAnswers, stream
  <2>8. v \in Stream!Verdicts
    BY <2>3 DEF Stream!Verdicts
  <2> QED BY <2>1, <2>7, <2>8 DEF Stream!Next, ClosedOK, stream
<1> QED BY <1>1, <1>2, <1>3, <1>4, <1>5

LEMMA ReconciliationRefines ==
  ASSUME OrderInv, ClosedOK, Reconciliation
  PROVE  [Stream!Next]_Promised /\ ClosedOK'
<1>0. TypeOK /\ \A o \in Orders : order[o] \in OrderRow
  BY DEF OrderInv, TypeOK
<1>1. ASSUME NEW o \in Orders, RecoverOrder(o) PROVE [Stream!Next]_Promised /\ ClosedOK'
  <2> DEFINE q == RecoveredRow(o)
  <2>1. order' = [order EXCEPT ![o] = q] /\ UNCHANGED stream
    BY <1>1 DEF RecoverOrder
  <2>2. q.record = order[o].record
    <3>1. q = order[o] \/ q = RejectedRow(order[o])
          \/ q = [order[o] EXCEPT !.status = "FILLED", !.event = "PUBLISHED",
                                  !.resv = "CONSUMED", !.journal = "ACCEPTED"]
          \/ q = [order[o] EXCEPT !.status = "SUBMITTED", !.event = "PUBLISHED",
                                  !.journal = "ACCEPTED"]
      BY DEF RecoveredRow
    <3> HIDE DEF q
    <3>2. order[o] \in OrderRow /\ RejectedRow(order[o]).record = order[o].record
      BY <1>0, RowFacts
    <3> QED BY ONLY <3>1, <3>2 DEF OrderRow
  <2> HIDE DEF q
  <2>3. SameRecords
    BY <1>0, <2>1, <2>2 DEF TypeOK, SameRecords
  <2> QED BY <2>1, <2>3, AwayFromStream
<1>2. ASSUME NEW o \in Orders, Escalate(o) PROVE [Stream!Next]_Promised /\ ClosedOK'
  BY <1>2, AwayFromStream DEF Escalate, SameRecords
<1>3. ASSUME NEW S \in SUBSET Orders, NEW D, NEW P, NEW bare, NEW complete,
             Observe(S, D, bare, complete) \/ ObserveRaises(S, D, P, bare)
      PROVE  [Stream!Next]_Promised /\ ClosedOK'
  <2> DEFINE os == RowsSeen(S, D)
  <2>1. order' = os /\ Snapshot(S) /\ UNCHANGED <<wire, orphans>>
    BY <1>3 DEF Observe, ObserveRaises
  <2>2. \A o \in Orders : os[o].record = order[o].record
    <3>1. \A o \in S : order[o].status # "ABSENT"
      BY <2>1 DEF Snapshot, Known, Unresolved, OrderInv, RowsOK
    <3>2. \A o \in S : ApplyObservation(order[o], Observed(o, D)).record = order[o].record
      BY <1>0, <3>1, ObservedRow
    <3> QED BY <3>2 DEF RowsSeen
  <2> HIDE DEF os
  <2>3. SameRecords
    BY <2>1, <2>2 DEF SameRecords
  <2>4. RecordState' = RecordState /\ SentOrders' = SentOrders
    BY <2>3, SameRecordsView
  <2>5. CASE Transport = "direct"
    <3>1. UNCHANGED stream
      BY <1>3, <2>1, <2>5 DEF Observe, ObserveRaises, stream
    <3> QED BY <2>3, <3>1, AwayFromStream
  <2>6. CASE Transport # "direct"
    <3>1. session = "open"
      BY <2>1, <2>6, CoordinatorAssumption DEF Snapshot
    <3>2. \/ session' = "seen"
          \/ session' = "ready" /\ Reconciled(S, os, work')
      BY <1>3, <2>6 DEF Observe, ObserveRaises, os
    <3>3. StreamAnswers' = StreamAnswers /\ ClosedOK'
      BY <2>1, <2>4, <3>2 DEF StreamAnswers, ClosedOK
    <3>4. CASE session' = "seen"
      BY <2>1, <2>4, <3>1, <3>3, <3>4 DEF Promised, StreamSession
    <3>5. CASE session' = "ready" /\ Reconciled(S, os, work')
      <4>1. \A o \in Orders : RecordState[o] # "UNKNOWN"
        BY <2>2, <3>5 DEF Reconciled, RecordState
      <4>2. Stream!Ready
        BY <2>1, <2>4, <3>1, <3>3, <3>5, <4>1 DEF Stream!Ready, StreamSession, StreamAnswers
      <4> QED BY <3>3, <4>2 DEF Stream!Next
    <3> QED BY <3>2, <3>4, <3>5
  <2> QED BY <2>5, <2>6
<1> QED BY <1>1, <1>2, <1>3 DEF Reconciliation

LEMMA PositionsAway ==
  ASSUME OrderInv, ClosedOK, Positions \/ Supervision \/ \E o \in Orders : BrokerMoves(o)
  PROVE  [Stream!Next]_Promised /\ ClosedOK'
<1>1. UNCHANGED stream
  BY DEF Positions, DoubtProtection, ConfirmProtection, Disconnected, ClosePosition,
     RecordFill, RepairProtection, Supervision, EmergencyStop, CustodianRecovers,
     RuntimeHealth, BrokerMoves
<1>2. SameRecords
  <2>1. ASSUME NEW o \in Orders, NEW yes \in BOOLEAN, RecordFill(o, yes) PROVE SameRecords
    <3>1. order' = [order EXCEPT ![o].status = "FILLED", ![o].resv = "CONSUMED"]
      BY <2>1 DEF RecordFill
    <3> QED BY <3>1 DEF SameRecords, OrderInv, TypeOK, OrderRow
  <2>2. \/ order' = order
        \/ \E o \in Orders, yes \in BOOLEAN : RecordFill(o, yes)
    BY DEF Positions, DoubtProtection, ConfirmProtection, Disconnected, ClosePosition,
       RepairProtection, Supervision, EmergencyStop, CustodianRecovers,
       RuntimeHealth, BrokerMoves, ledger
  <2> QED BY <2>1, <2>2 DEF SameRecords
<1> QED BY <1>1, <1>2, AwayFromStream

LEMMA RestartRefines ==
  ASSUME OrderInv, Restart
  PROVE  [Stream!Next]_Promised /\ ClosedOK'
<1>0. TypeOK
  BY DEF OrderInv
<1> DEFINE doubtful == {o \in Orders : InFlightRow(order[o])}
           os == [o \in Orders |-> IF o \in doubtful THEN [order[o] EXCEPT !.status = "UNKNOWN"]
                                   ELSE order[o]]
<1>1. RecordUnknown(doubtful, BeginRestart(acct), os) /\ doubtful \in SUBSET Orders
  BY DEF Restart
<1> HIDE DEF doubtful
<1>2. os \in [Orders -> OrderRow] /\ \A o \in Orders : os[o].record = order[o].record
  BY <1>0, MarkedRow DEF TypeOK
<1> HIDE DEF os
<1>3. \A o \in Orders : order'[o].record = os[o].record
  BY <1>0, <1>1, <1>2, RecordUnknownRows
<1>4. RecordState' = RecordState /\ SentOrders' = SentOrders
  BY <1>2, <1>3, SameRecordsView DEF SameRecords
<1>5. session' = "closed" /\ orphans' = SentOrders /\ wire' = wire
  BY DEF Restart, SentOrders
<1>6. Stream!Crash
  BY <1>4, <1>5 DEF Stream!Crash, StreamSession, StreamAnswers
<1> QED BY <1>4, <1>5, <1>6 DEF Stream!Next, ClosedOK

LEMMA StreamRefines ==
  OrderInv /\ OrderInv' /\ ClosedOK /\ [Next]_vars => [Stream!Next]_Promised /\ ClosedOK'
<1> SUFFICES ASSUME OrderInv, OrderInv', ClosedOK, [Next]_vars
             PROVE  [Stream!Next]_Promised /\ ClosedOK'
  OBVIOUS
<1>1. CASE UNCHANGED vars
  BY <1>1, AwayFromStream DEF vars, ledger, SameRecords
<1> QED
  BY <1>1, DispatchAway, SessionRefines, OrderRefines, ReconciliationRefines,
     PositionsAway, RestartRefines
  DEF Next, StreamStep

\* The coordinator keeps to the promise of the stream, in either transport, over any
\* sessions, snapshots and restarts: a record goes to SENT in a session that was
\* ready, is settled by the result of that session alone and then never changes
\* (mark_connector_dispatch_sent, connector_dispatch_result,
\* mark_connector_session_lost).
THEOREM CoordinatorKeepsPromise == Spec => StreamSpec
<1>1. Init => Stream!Init /\ ClosedOK
  BY DEF Init, NoOrderRow, Stream!Init, RecordState, StreamSession, SentOrders, ClosedOK
<1>2. StreamSpec <=> Stream!Init /\ [][Stream!Next]_Promised
  BY DEF StreamSpec, Stream!Spec, Stream!vars, Promised, StreamAnswers
<1> QED
  BY <1>1, <1>2, OrdersHold, StreamRefines, PTL DEF Spec

-----------------------------------------------------------------------------
(* The rows of the orders tell the truth about the broker.                 *)

\* What o's row says is so; what is still on the wire is open and has had no effect,
\* and what was sent in this session and is no longer on the wire has been acted on.
RowTrue(o) ==
    /\ order[o].status = "SUBMITTED" => broker[o] \in {"working", "filled", "cancelled"}
    /\ order[o].status = "FILLED" => broker[o] = "filled"
    /\ order[o].status = "CANCELLED" => broker[o] = "cancelled"
    /\ order[o].status = "REJECTED" => broker[o] \in {"none", "refused"} \/ o \in denied
    /\ order[o].resv = "CONSUMED" => broker[o] = "filled"
    /\ order[o].status = "UNKNOWN" => o \in Unresolved(work)
    /\ order[o].status = "DISPATCHING" => inflight = o
    /\ o \in wire => order[o].status \in {"INTENT", "UNKNOWN"} /\ broker[o] = "none"
    /\ Transport = "stream" /\ order[o].record = "SENT" /\ o \notin wire \cup orphans
           => broker[o] # "none"

CallTrue == stage # "idle" => order[inflight].status = "DISPATCHING"
TruthOK == CallTrue /\ \A o \in Orders : RowTrue(o)
TruthInv == StreamInv /\ TruthOK

ReservationKept ==
    \A o \in Orders \ denied' : order[o].resv \in {"CONSUMED", "RELEASED"} =>
        order'[o].resv = order[o].resv

\* What else the operations make of a row.
LEMMA SettledRows ==
  ASSUME NEW r \in OrderRow
  PROVE  /\ RejectedRow(r).resv = "RELEASED" /\ RejectedRow(r).record = r.record
         /\ RefusedRow(r).resv = "RELEASED" /\ RefusedRow(r).record = "REJECTED"
  BY DEF OrderRow, RejectedRow, RefusedRow

LEMMA TruthFacts ==
  ASSUME TruthInv
  PROVE  /\ OrderInv /\ TypeOK /\ CallTrue
         /\ \A o \in Orders :
                /\ order[o] \in OrderRow /\ RowTrue(o)
                /\ broker[o] \in {"working", "filled"} =>
                       order[o].resv # "RELEASED" \/ o \in denied
                /\ sends[o] = 0 => broker[o] = "none"
  BY DEF TruthInv, TruthOK, StreamInv, OrderInv, TypeOK, RowsOK

\* A row that stays true: nothing about it changes but its work, which stays unresolved.
LEMMA RowStays ==
  ASSUME NEW o \in Orders, RowTrue(o), denied \subseteq denied',
         order'[o].status = order[o].status,
         order'[o].resv = order[o].resv, order'[o].record = order[o].record,
         broker'[o] = broker[o], o \in wire' <=> o \in wire, orphans' = orphans,
         o \in Unresolved(work) => o \in Unresolved(work'),
         order[o].status = "DISPATCHING" => inflight' = inflight
  PROVE  RowTrue(o)'
  BY DEF RowTrue

LEMMA WorkKept ==
  ASSUME TypeOK, NEW S, NEW os, work' = WorkAfter(S, os)
  PROVE  \A o \in Orders :
             o \in Unresolved(work) => o \in Unresolved(work') \/ os[o].status # "UNKNOWN"
  BY DEF WorkAfter, Converged, Unresolved, TypeOK

LEMMA WorkRecorded ==
  ASSUME TypeOK, NEW S \in SUBSET Orders, NEW a, NEW os, RecordUnknown(S, a, os)
  PROVE  \A o \in Orders : o \in S \/ o \in Unresolved(work) => o \in Unresolved(work')
  BY DEF RecordUnknown, Unresolved, TypeOK

\* Steps that leave rows, calls and frames as they are.
LEMMA TruthAlone ==
  ASSUME TruthInv, denied \subseteq denied',
         UNCHANGED <<order, broker, wire, orphans, inflight, stage>>,
         \A o \in Orders : o \in Unresolved(work) => o \in Unresolved(work')
  PROVE  TruthOK' /\ ReservationKept
<1>1. \A o \in Orders : RowTrue(o)'
  BY TruthFacts, RowStays
<1>2. CallTrue'
  BY TruthFacts DEF CallTrue
<1> QED BY <1>1, <1>2 DEF TruthOK, ReservationKept

LEMMA AdmitTruth ==
  ASSUME TruthInv, denied \subseteq denied', NEW o \in Orders, Admit(o)
  PROVE  TruthOK' /\ ReservationKept
<1>1. /\ stage = "idle" /\ Fresh(o) /\ order[o].record = "NONE" /\ sends[o] = 0
      /\ order[o].resv # "RELEASED" /\ broker[o] = "none" /\ o \notin wire
  BY TruthFacts, IdleFacts DEF Admit, OrderInv, RowsOK
<1>2. order[o].resv # "CONSUMED"
  BY <1>1, TruthFacts DEF RowTrue
<1>3. /\ order'[o].status = "INTENT" /\ order'[o].resv = "ACTIVE" /\ order'[o].record = "NONE"
      /\ \A p \in Orders : p # o => order'[p] = order[p]
  BY TruthFacts DEF Admit, TypeOK
<1>4. UNCHANGED <<broker, wire, orphans, inflight, stage, work>>
  BY DEF Admit, stream, world
<1>5. \A p \in Orders : RowTrue(p)'
  <2> TAKE p \in Orders
  <2>1. CASE p = o
    BY <1>1, <1>3, <1>4, <2>1 DEF RowTrue
  <2>2. CASE p # o
    BY <1>3, <1>4, <2>2, TruthFacts, RowStays
  <2> QED BY <2>1, <2>2
<1> QED BY <1>1, <1>2, <1>3, <1>4, <1>5 DEF TruthOK, CallTrue, ReservationKept

LEMMA BrokerTruth ==
  ASSUME TruthInv, denied \subseteq denied', NEW o \in Orders, BrokerMoves(o)
  PROVE  TruthOK' /\ ReservationKept
<1>1. /\ broker[o] = "working" /\ broker'[o] \in {"filled", "cancelled"}
      /\ \A p \in Orders : p # o => broker'[p] = broker[p]
      /\ UNCHANGED <<order, wire, orphans, inflight, stage, work>>
  BY TruthFacts DEF BrokerMoves, TypeOK, ledger, call, stream
<1>2. \A p \in Orders : RowTrue(p)'
  <2> TAKE p \in Orders
  <2>1. CASE p = o
    BY <1>1, <2>1, TruthFacts DEF RowTrue
  <2>2. CASE p # o
    BY <1>1, <2>2, TruthFacts, RowStays
  <2> QED BY <2>1, <2>2
<1> QED BY <1>1, <1>2, TruthFacts DEF TruthOK, CallTrue, ReservationKept

LEMMA BeginTruth ==
  ASSUME TruthInv, denied \subseteq denied', BeginDispatch
  PROVE  TruthOK' /\ ReservationKept
<1>1. PICK o \in Orders :
         /\ HeadOfOutbox(o) /\ inflight' = o
         /\ order' = [order EXCEPT ![o].status = "DISPATCHING", ![o].event = "DISPATCHING",
                                   ![o].journal = "DISPATCHING"]
  BY DEF BeginDispatch
<1>2. inflight = NoOrder /\ wire = {} /\ NoOrder \notin Orders
  BY TruthFacts, IdleFacts, StreamFacts, CoordinatorAssumption DEF BeginDispatch
<1>3. /\ order'[o].status = "DISPATCHING" /\ order'[o].resv = order[o].resv
      /\ order'[o].record = order[o].record
      /\ \A p \in Orders : p # o => order'[p] = order[p]
  <2> DEFINE q == [order[o] EXCEPT !.status = "DISPATCHING", !.event = "DISPATCHING",
                                   !.journal = "DISPATCHING"]
  <2>1. q.status = "DISPATCHING" /\ q.resv = order[o].resv /\ q.record = order[o].record
    BY TruthFacts DEF OrderRow
  <2>2. order' = [order EXCEPT ![o] = q]
    BY <1>1
  <2> HIDE DEF q
  <2> QED BY <2>1, <2>2, TruthFacts DEF TypeOK
<1>4. UNCHANGED <<broker, wire, orphans, work>>
  BY DEF BeginDispatch, stream, world
<1>5. \A p \in Orders : RowTrue(p)'
  <2> TAKE p \in Orders
  <2>1. CASE p = o
    BY <1>1, <1>2, <1>3, <1>4, <2>1, TruthFacts DEF RowTrue
  <2>2. CASE p # o
    <3>1. order[p].status # "DISPATCHING"
      BY <1>2, TruthFacts DEF RowTrue
    <3> QED BY <1>3, <1>4, <2>2, <3>1, TruthFacts, RowStays
  <2> QED BY <2>1, <2>2
<1> QED BY <1>1, <1>3, <1>5 DEF TruthOK, CallTrue, ReservationKept

LEMMA SendTruth ==
  ASSUME TruthInv, denied \subseteq denied', NEW effect, SendOrder(effect)
  PROVE  TruthOK' /\ ReservationKept
<1>1. /\ inflight \in Orders /\ Transport = "direct" /\ wire = {}
      /\ broker[inflight] = "none" /\ order[inflight].status = "DISPATCHING"
  BY TruthFacts, DispatchFacts DEF SendOrder, OrderInv, DispatchOK, CallTrue
<1>2. order[inflight].resv # "CONSUMED"
  BY <1>1, TruthFacts DEF RowTrue
<1>3. /\ UNCHANGED <<order, wire, orphans, inflight, work>>
      /\ \A p \in Orders : p # inflight => broker'[p] = broker[p]
  BY TruthFacts DEF SendOrder, ledger, stream, TypeOK
<1>4. Transport # "stream"
  BY <1>1
<1>5. \A p \in Orders : RowTrue(p)'
  <2> TAKE p \in Orders
  <2>1. CASE p = inflight
    BY <1>1, <1>2, <1>3, <1>4, <2>1 DEF RowTrue
  <2>2. CASE p # inflight
    BY <1>3, <2>2, TruthFacts, RowStays
  <2> QED BY <2>1, <2>2
<1> QED BY <1>1, <1>3, <1>5 DEF TruthOK, CallTrue, ReservationKept

\* The call is over; the row of its order is settled or in doubt.
LEMMA CallOver ==
  ASSUME TruthInv, denied \subseteq denied', stage # "idle", DispatchOver,
         UNCHANGED <<broker, wire, orphans>>,
         order'[inflight].status \notin {"DISPATCHING", "SUBMITTED", "FILLED", "CANCELLED", "REJECTED"}
             => inflight \in Unresolved(work'),
         order'[inflight].status # "DISPATCHING",
         order'[inflight].status = "SUBMITTED" =>
             broker[inflight] \in {"working", "filled", "cancelled"},
         order'[inflight].status = "FILLED" => broker[inflight] = "filled",
         order'[inflight].status # "CANCELLED",
         order'[inflight].status = "REJECTED" => broker[inflight] \in {"none", "refused"},
         \/ order'[inflight].resv = order[inflight].resv
         \/ order'[inflight].resv = "RELEASED" /\ broker[inflight] \in {"none", "refused"},
         order'[inflight].record = order[inflight].record,
         \A p \in Orders : /\ p # inflight => order'[p] = order[p]
                           /\ p \in Unresolved(work) => p \in Unresolved(work')
  PROVE  TruthOK' /\ ReservationKept
<1>1. inflight \in Orders /\ Transport = "direct" /\ wire = {} /\ Transport # "stream"
  BY TruthFacts, DispatchFacts
<1>2. stage' = "idle" /\ inflight' = NoOrder
  BY DEF DispatchOver
<1>3. \A p \in Orders : RowTrue(p)'
  <2> TAKE p \in Orders
  <2>1. CASE p = inflight
    BY <1>1, <2>1, TruthFacts DEF RowTrue
  <2>2. CASE p # inflight
    <3>1. order[p].status # "DISPATCHING"
      BY <2>2, TruthFacts DEF RowTrue
    <3> QED BY <2>2, <3>1, TruthFacts, RowStays
  <2> QED BY <2>1, <2>2
<1>4. ReservationKept
  <2>1. order[inflight].resv = "CONSUMED" => broker[inflight] = "filled"
    BY <1>1, TruthFacts DEF RowTrue
  <2> QED BY <1>1, <2>1 DEF ReservationKept
<1> QED BY <1>2, <1>3, <1>4 DEF TruthOK, CallTrue

LEMMA CallTruth ==
  ASSUME TruthInv, denied \subseteq denied', CheckRefused \/ AnswerClear \/ AnswerAmbiguous
  PROVE  TruthOK' /\ ReservationKept
<1>1. /\ stage # "idle" /\ inflight \in Orders /\ order[inflight] \in OrderRow
      /\ DispatchOver /\ UNCHANGED <<broker, wire, orphans>>
  BY TruthFacts, DispatchFacts
     DEF CheckRefused, AnswerClear, AnswerAmbiguous, stream, world
<1>2. CASE CheckRefused
  <2>1. broker[inflight] = "none"
    BY <1>1, <1>2, TruthFacts DEF CheckRefused, OrderInv, DispatchOK
  <2>2. /\ order'[inflight] = RejectedRow(order[inflight]) /\ work' = work
        /\ \A p \in Orders : p # inflight => order'[p] = order[p]
    BY <1>1, <1>2, TruthFacts DEF CheckRefused, TypeOK
  <2>3. /\ RejectedRow(order[inflight]).status = "REJECTED"
        /\ RejectedRow(order[inflight]).resv = "RELEASED"
        /\ RejectedRow(order[inflight]).record = order[inflight].record
    BY <1>1, RowFacts, SettledRows
  <2> QED BY <1>1, <2>1, <2>2, <2>3, CallOver
<1>3. CASE AnswerClear
  <2> DEFINE q == IF broker[inflight] = "refused" THEN RejectedRow(order[inflight])
                  ELSE [order[inflight] EXCEPT !.status = IF broker[inflight] = "filled"
                                                          THEN "FILLED" ELSE "SUBMITTED",
                                               !.event = "PUBLISHED", !.journal = "ACCEPTED"]
  <2>1. order' = [order EXCEPT ![inflight] = q] /\ work' = work
    BY <1>3 DEF AnswerClear
  <2>2. broker[inflight] \in {"working", "filled", "refused", "cancelled"}
    BY <1>1, <1>3, TruthFacts DEF AnswerClear, TypeOK, Effects
  <2>3. /\ q.record = order[inflight].record
        /\ broker[inflight] = "refused" => q.status = "REJECTED" /\ q.resv = "RELEASED"
        /\ broker[inflight] # "refused" =>
               /\ q.resv = order[inflight].resv
               /\ q.status = IF broker[inflight] = "filled" THEN "FILLED" ELSE "SUBMITTED"
    <3>1. CASE broker[inflight] = "refused"
      BY <1>1, <3>1, RowFacts, SettledRows
    <3>2. CASE broker[inflight] # "refused"
      BY <1>1, <3>2 DEF OrderRow
    <3> QED BY <3>1, <3>2
  <2> HIDE DEF q
  <2>4. order'[inflight] = q /\ \A p \in Orders : p # inflight => order'[p] = order[p]
    BY <1>1, <2>1, TruthFacts DEF TypeOK
  <2>5. CASE broker[inflight] = "refused"
    BY <1>1, <2>1, <2>3, <2>4, <2>5, CallOver
  <2>6. CASE broker[inflight] # "refused"
    BY <1>1, <2>1, <2>2, <2>3, <2>4, <2>6, CallOver
  <2> QED BY <2>5, <2>6
<1>4. CASE AnswerAmbiguous
  <2> DEFINE os == [order EXCEPT ![inflight].status = "UNKNOWN"]
  <2>1. /\ os \in [Orders -> OrderRow] /\ os[inflight].status = "UNKNOWN"
        /\ os[inflight].resv = order[inflight].resv
        /\ os[inflight].record = order[inflight].record
        /\ \A p \in Orders : p # inflight => os[p] = order[p]
    BY <1>1, MarkedRow, TruthFacts DEF TypeOK
  <2>2. RecordUnknown({inflight}, acct, os) /\ {inflight} \in SUBSET Orders
    BY <1>1, <1>4 DEF AnswerAmbiguous
  <2> HIDE DEF os
  <2>3. \A p \in Orders :
            /\ order'[p].status = os[p].status /\ order'[p].resv = os[p].resv
            /\ order'[p].record = os[p].record
            /\ p \notin {inflight} => order'[p] = os[p]
    BY <2>1, <2>2, RecordUnknownRows, TruthFacts
  <2>4. \A p \in Orders :
            p \in {inflight} \/ p \in Unresolved(work) => p \in Unresolved(work')
    BY <2>2, WorkRecorded, TruthFacts
  <2> QED BY <1>1, <2>1, <2>3, <2>4, CallOver
<1> QED BY <1>2, <1>3, <1>4

LEMMA OpenTruth ==
  ASSUME TruthInv, denied \subseteq denied', OpenSession
  PROVE  TruthOK' /\ ReservationKept
<1>1. /\ SentOrders \subseteq orphans /\ wire' = {}
      /\ UNCHANGED <<order, broker, orphans, inflight, stage, work>>
  BY DEF TruthInv, StreamInv, ClosedOK, OpenSession, ledger, call, world
<1>2. \A o \in Orders : RowTrue(o)'
  BY <1>1, TruthFacts DEF RowTrue, SentOrders
<1> QED BY <1>1, <1>2, TruthFacts DEF TruthOK, CallTrue, ReservationKept

LEMMA PrepareTruth ==
  ASSUME TruthInv, denied \subseteq denied', NEW o \in Orders, Prepare(o)
  PROVE  TruthOK' /\ ReservationKept
<1>1. /\ order'[o].record = "QUEUED" /\ order'[o].status = order[o].status
      /\ order'[o].resv = order[o].resv
      /\ \A p \in Orders : p # o => order'[p] = order[p]
  BY TruthFacts DEF Prepare, TypeOK, OrderRow
<1>2. UNCHANGED <<broker, wire, orphans, inflight, stage, work>>
  BY DEF Prepare, stream, world
<1>3. \A p \in Orders : RowTrue(p)'
  <2> TAKE p \in Orders
  <2>1. CASE p = o
    BY <1>1, <1>2, <2>1, TruthFacts DEF RowTrue
  <2>2. CASE p # o
    BY <1>1, <1>2, <2>2, TruthFacts, RowStays
  <2> QED BY <2>1, <2>2
<1>4. stage = "idle"
  BY TruthFacts, StreamFacts, IdleFacts DEF Prepare
<1> QED BY <1>1, <1>2, <1>3, <1>4 DEF TruthOK, CallTrue, ReservationKept

LEMMA MarkTruth ==
  ASSUME TruthInv, denied \subseteq denied', NEW o \in Orders, MarkSent(o)
  PROVE  TruthOK' /\ ReservationKept
<1>1. stage = "idle" /\ Transport = "stream"
  BY TruthFacts, StreamFacts, IdleFacts DEF MarkSent
<1>2. broker[o] = "none" /\ order[o].status = "INTENT"
  BY <1>1, TruthFacts DEF MarkSent, OrderInv, RowsOK, Fresh
<1>3. /\ order'[o].record = "SENT" /\ order'[o].status = order[o].status
      /\ order'[o].resv = order[o].resv
      /\ \A p \in Orders : p # o => order'[p] = order[p]
  BY TruthFacts DEF MarkSent, TypeOK, OrderRow
<1>4. wire' = wire \cup {o} /\ UNCHANGED <<broker, orphans, inflight, stage, work>>
  BY DEF MarkSent, call
<1>5. \A p \in Orders : RowTrue(p)'
  <2> TAKE p \in Orders
  <2>1. CASE p = o
    BY <1>2, <1>3, <1>4, <2>1, TruthFacts DEF RowTrue
  <2>2. CASE p # o
    BY <1>3, <1>4, <2>2, TruthFacts, RowStays
  <2> QED BY <2>1, <2>2
<1> QED BY <1>1, <1>3, <1>4, <1>5 DEF TruthOK, CallTrue, ReservationKept

LEMMA ExecuteTruth ==
  ASSUME TruthInv, denied \subseteq denied',
         NEW o \in Orders, NEW effect \in Effects, Execute(o, effect)
  PROVE  TruthOK' /\ ReservationKept
<1>1. /\ o \in wire /\ wire' = wire \ {o} /\ effect # "none"
      /\ UNCHANGED <<order, orphans, inflight, stage, work>>
      /\ broker'[o] = effect /\ \A p \in Orders : p # o => broker'[p] = broker[p]
  BY TruthFacts DEF Execute, TypeOK, Effects, ledger, call
<1>2. order[o].status \in {"INTENT", "UNKNOWN"} /\ order[o].resv # "CONSUMED"
  BY <1>1, TruthFacts DEF RowTrue
<1>3. \A p \in Orders : RowTrue(p)'
  <2> TAKE p \in Orders
  <2>1. CASE p = o
    BY <1>1, <1>2, <2>1, TruthFacts DEF RowTrue
  <2>2. CASE p # o
    BY <1>1, <2>2, TruthFacts, RowStays
  <2> QED BY <2>1, <2>2
<1> QED BY <1>1, <1>3, TruthFacts DEF TruthOK, CallTrue, ReservationKept

LEMMA ResultTruth ==
  ASSUME TruthInv, denied \subseteq denied',
         NEW o \in Orders, NEW clear \in BOOLEAN, Result(o, clear)
  PROVE  TruthOK' /\ ReservationKept
<1>1. /\ stage = "idle" /\ Transport = "stream" /\ order[o] \in OrderRow /\ RowTrue(o)
      /\ order[o].record = "SENT" /\ o \notin wire \cup orphans
      /\ UNCHANGED <<broker, wire, orphans, inflight, stage>>
  BY TruthFacts, StreamFacts, IdleFacts DEF Result, call, stream, world
<1>2. broker[o] \in {"working", "filled", "refused", "cancelled"}
  BY <1>1, TruthFacts DEF RowTrue, TypeOK, Effects
<1>3. /\ order'[o].record # "SENT"
      /\ \/ order'[o].status = "REJECTED" /\ broker[o] = "refused" /\ order'[o].resv = "RELEASED"
         \/ /\ order'[o].status = "SUBMITTED" /\ broker[o] # "refused"
            /\ order'[o].resv = order[o].resv
         \/ /\ order'[o].status = "UNKNOWN" /\ o \in Unresolved(work')
            /\ order'[o].resv = order[o].resv
      /\ \A p \in Orders : p # o => /\ order'[p] = order[p]
                                    /\ p \in Unresolved(work) => p \in Unresolved(work')
  <2>1. CASE clear
    <3> DEFINE q == IF broker[o] = "refused" THEN RefusedRow(order[o]) ELSE AcceptedRow(order[o])
    <3>1. order' = [order EXCEPT ![o] = q] /\ work' = work
      BY <2>1 DEF Result
    <3>2. /\ q.record # "SENT"
          /\ broker[o] = "refused" => q.status = "REJECTED" /\ q.resv = "RELEASED"
          /\ broker[o] # "refused" => q.status = "SUBMITTED" /\ q.resv = order[o].resv
      BY <1>1, RowFacts, SettledRows
    <3> HIDE DEF q
    <3>3. order'[o] = q /\ \A p \in Orders : p # o => order'[p] = order[p]
      BY <3>1, TruthFacts DEF TypeOK
    <3> QED BY <3>1, <3>2, <3>3
  <2>2. CASE ~clear
    <3> DEFINE os == [order EXCEPT ![o] = DoubtfulRow(@)]
    <3>1. RecordUnknown({o}, acct, os) /\ {o} \in SUBSET Orders
      BY <2>2 DEF Result
    <3>2. /\ os \in [Orders -> OrderRow] /\ os[o] = DoubtfulRow(order[o])
          /\ \A p \in Orders : p # o => os[p] = order[p]
      BY <1>1, RowFacts, TruthFacts DEF TypeOK
    <3> HIDE DEF os
    <3>3. \A p \in Orders :
              /\ order'[p].status = os[p].status /\ order'[p].resv = os[p].resv
              /\ order'[p].record = os[p].record
              /\ p \notin {o} => order'[p] = os[p]
      BY <3>1, <3>2, RecordUnknownRows, TruthFacts
    <3>4. \A p \in Orders : p \in {o} \/ p \in Unresolved(work) => p \in Unresolved(work')
      BY <3>1, WorkRecorded, TruthFacts
    <3> QED BY <1>1, <3>2, <3>3, <3>4, RowFacts
  <2> QED BY <2>1, <2>2
<1>4. \A p \in Orders : RowTrue(p)'
  <2> TAKE p \in Orders
  <2>1. CASE p = o
    BY <1>1, <1>2, <1>3, <2>1 DEF RowTrue
  <2>2. CASE p # o
    BY <1>1, <1>3, <2>2, TruthFacts, RowStays
  <2> QED BY <2>1, <2>2
<1>5. ReservationKept
  BY <1>1, <1>3 DEF ReservationKept, RowTrue
<1> QED BY <1>1, <1>4, <1>5 DEF TruthOK, CallTrue

LEMMA LoseTruth ==
  ASSUME TruthInv, denied \subseteq denied', NEW clean \in BOOLEAN, LoseSession(clean)
  PROVE  TruthOK' /\ ReservationKept
<1>1. /\ stage = "idle" /\ UNCHANGED <<broker, wire, inflight, stage>> /\ orphans' = {}
  BY TruthFacts, StreamFacts, IdleFacts DEF LoseSession, call, world
<1> DEFINE sent == {o \in Orders : order[o].record = "SENT"}
           new == sent \ Unresolved(work)
           Lost(o) == [DoubtfulRow(order[o]) EXCEPT !.journal =
                           IF @ = "NONE" /\ o \in new THEN "DISPATCHING" ELSE @]
<1>2. order' = [o \in Orders |-> IF o \notin sent THEN order[o] ELSE Lost(o)]
  BY DEF LoseSession
<1>3. \A o \in Orders :
          Lost(o).record = "UNKNOWN" /\ Lost(o).status = "UNKNOWN" /\ Lost(o).resv = order[o].resv
  BY TruthFacts DEF DoubtfulRow, OrderRow
<1>4. \A o \in Orders : o \in sent \/ o \in Unresolved(work) => o \in Unresolved(work')
  BY TruthFacts DEF LoseSession, Unresolved, TypeOK
<1> HIDE DEF Lost
<1>5. \A o \in Orders :
          \/ order[o].record # "SENT" /\ order'[o] = order[o]
          \/ /\ order'[o].record = "UNKNOWN" /\ order'[o].status = "UNKNOWN"
             /\ order'[o].resv = order[o].resv /\ o \in Unresolved(work')
  BY <1>2, <1>3, <1>4
<1>6. \A o \in Orders : RowTrue(o)'
  <2> TAKE o \in Orders
  <2>1. CASE order[o].record # "SENT" /\ order'[o] = order[o]
    BY <1>1, <1>4, <2>1, TruthFacts DEF RowTrue
  <2>2. CASE /\ order'[o].record = "UNKNOWN" /\ order'[o].status = "UNKNOWN"
             /\ order'[o].resv = order[o].resv /\ o \in Unresolved(work')
    BY <1>1, <2>2, TruthFacts DEF RowTrue
  <2> QED BY <1>5, <2>1, <2>2
<1>7. ReservationKept
  BY <1>5 DEF ReservationKept
<1> QED BY <1>1, <1>6, <1>7 DEF TruthOK, CallTrue

LEMMA RestartTruth ==
  ASSUME TruthInv, denied \subseteq denied', Restart
  PROVE  TruthOK' /\ ReservationKept
<1> DEFINE doubtful == {o \in Orders : InFlightRow(order[o])}
           os == [o \in Orders |-> IF o \in doubtful THEN [order[o] EXCEPT !.status = "UNKNOWN"]
                                   ELSE order[o]]
<1>1. RecordUnknown(doubtful, BeginRestart(acct), os) /\ doubtful \in SUBSET Orders
  BY DEF Restart
<1>2. \A o \in Orders : order[o].status \in {"DISPATCHING", "UNKNOWN"} => o \in doubtful
  BY DEF InFlightRow
<1> HIDE DEF doubtful
<1>3. \A o \in Orders :
         /\ os[o] \in OrderRow
         /\ os[o].record = order[o].record /\ os[o].resv = order[o].resv
         /\ o \in doubtful => os[o].status = "UNKNOWN"
         /\ o \notin doubtful => os[o] = order[o]
  BY MarkedRow, TruthFacts
<1>4. os \in [Orders -> OrderRow]
  BY <1>3
<1> HIDE DEF os
<1>5. \A o \in Orders :
         /\ order'[o].status = os[o].status /\ order'[o].record = os[o].record
         /\ order'[o].resv = os[o].resv
  BY <1>1, <1>4, RecordUnknownRows, TruthFacts
<1>6. \A o \in Orders : o \in doubtful \/ o \in Unresolved(work) => o \in Unresolved(work')
  BY <1>1, WorkRecorded, TruthFacts
<1>7. /\ UNCHANGED <<broker, wire>> /\ orphans' = SentOrders /\ stage' = "idle"
  BY DEF Restart, SentOrders
<1>8. \A o \in Orders : RowTrue(o)'
  <2> TAKE o \in Orders
  <2>1. CASE o \in doubtful
    BY <1>3, <1>5, <1>6, <1>7, <2>1, TruthFacts DEF RowTrue, SentOrders
  <2>2. CASE o \notin doubtful
    BY <1>2, <1>3, <1>5, <1>6, <1>7, <2>2, TruthFacts DEF RowTrue, SentOrders
  <2> QED BY <2>1, <2>2
<1>9. ReservationKept
  BY <1>3, <1>5 DEF ReservationKept
<1> QED BY <1>7, <1>8, <1>9 DEF TruthOK, CallTrue

LEMMA RecoverTruth ==
  ASSUME TruthInv, denied \subseteq denied', NEW o \in Orders, RecoverOrder(o)
  PROVE  TruthOK' /\ ReservationKept
<1> DEFINE q == RecoveredRow(o)
           os == [order EXCEPT ![o] = q]
<1>1. /\ stage = "idle" /\ inflight = NoOrder /\ Transport = "direct" /\ Transport # "stream"
      /\ wire = {} /\ order[o] \in OrderRow
      /\ UNCHANGED <<broker, wire, orphans, inflight, stage>>
  BY TruthFacts, IdleFacts, StreamFacts DEF RecoverOrder, call, stream, world
<1>2. order' = os /\ work' = WorkAfter({o}, os)
  BY DEF RecoverOrder
<1>3. \/ q = order[o]
      \/ /\ order[o].status = "UNKNOWN" /\ broker[o] = "filled"
         /\ q.status = "FILLED" /\ q.resv = "CONSUMED"
      \/ /\ order[o].status = "UNKNOWN" /\ broker[o] = "working"
         /\ q.status = "SUBMITTED" /\ q.resv = order[o].resv
      \/ /\ order[o].status = "UNKNOWN" /\ broker[o] \in {"none", "refused"}
         /\ q.status = "REJECTED" /\ q.resv = "RELEASED"
  <2>1. CASE order[o].status # "UNKNOWN"
    BY <2>1 DEF RecoveredRow
  <2>2. CASE order[o].status = "UNKNOWN" /\ broker[o] = "filled"
    BY <1>1, <2>2 DEF RecoveredRow, OrderRow
  <2>3. CASE order[o].status = "UNKNOWN" /\ broker[o] = "working"
    BY <1>1, <2>3 DEF RecoveredRow, OrderRow
  <2>4. CASE order[o].status = "UNKNOWN" /\ broker[o] \notin {"working", "filled"}
    <3>1. q = RejectedRow(order[o]) /\ broker[o] \in {"none", "refused"}
      BY <2>4, TruthFacts DEF RecoveredRow, RecoverOrder, TypeOK, Effects
    <3>2. /\ RejectedRow(order[o]).status = "REJECTED"
          /\ RejectedRow(order[o]).resv = "RELEASED"
      BY <1>1, RowFacts, SettledRows
    <3> HIDE DEF q
    <3> QED BY <2>4, <3>1, <3>2
  <2> QED BY <2>1, <2>2, <2>3, <2>4
<1> HIDE DEF q
<1>4. os[o] = q /\ \A p \in Orders : p # o => os[p] = order[p]
  BY TruthFacts DEF TypeOK
<1> HIDE DEF os
<1>5. \A p \in Orders :
          p \in Unresolved(work) => p \in Unresolved(work') \/ os[p].status # "UNKNOWN"
  BY <1>2, WorkKept, TruthFacts
<1>6. \A p \in Orders : RowTrue(p)'
  <2> TAKE p \in Orders
  <2>1. CASE p = o
    BY <1>1, <1>2, <1>3, <1>4, <1>5, <2>1, TruthFacts DEF RowTrue
  <2>2. CASE p # o
    BY <1>1, <1>2, <1>4, <1>5, <2>2, TruthFacts DEF RowTrue
  <2> QED BY <2>1, <2>2
<1>7. ReservationKept
  BY <1>2, <1>3, <1>4, TruthFacts DEF ReservationKept, RowTrue
<1> QED BY <1>1, <1>6, <1>7 DEF TruthOK, CallTrue

\* What a snapshot makes of a row, and of its reservation.
LEMMA ObservedTruth ==
  ASSUME NEW r \in OrderRow, NEW D, NEW o \in Orders, TypeOK
  PROVE  LET x == Observed(o, D)
             q == ApplyObservation(r, x)
         IN  /\ \/ x = "FILLED" /\ broker[o] = "filled"
                \/ x = "SUBMITTED" /\ broker[o] = "working"
                \/ x = "CANCELLED" /\ broker[o] = "cancelled"
                \/ x = "REJECTED" /\ (broker[o] \in {"none", "refused"} \/ o \in D)
             /\ q.record = r.record
             /\ \/ q = r /\ r.status \in {"FILLED", "REJECTED", "CANCELLED"}
                \/ /\ q.status = x
                   /\ x = "FILLED" => q.resv = "CONSUMED"
                   /\ x = "SUBMITTED" => q.resv = r.resv
                   /\ x \in {"REJECTED", "CANCELLED"} => q.resv = "RELEASED"
<1> DEFINE x == Observed(o, D)
<1>1. \/ x = "FILLED" /\ broker[o] = "filled"
      \/ x = "SUBMITTED" /\ broker[o] = "working"
      \/ x = "CANCELLED" /\ broker[o] = "cancelled"
      \/ x = "REJECTED" /\ (broker[o] \in {"none", "refused"} \/ o \in D)
  BY DEF Observed, TypeOK, Effects
<1> HIDE DEF x
<1>2. \/ /\ ApplyObservation(r, x) = r /\ r.status \in {"FILLED", "REJECTED", "CANCELLED"}
      \/ ApplyObservation(r, x) =
             [r EXCEPT !.status = x, !.resv = CASE x = "FILLED" -> "CONSUMED"
                                                [] x \in {"REJECTED", "CANCELLED"} -> "RELEASED"
                                                [] OTHER -> r.resv]
  BY DEF ApplyObservation
<1> QED BY <1>1, <1>2 DEF OrderRow, x

LEMMA ObserveTruth ==
  ASSUME TruthInv, denied \subseteq denied', NEW S \in SUBSET Orders, NEW D, NEW P, NEW bare,
         NEW complete, Observe(S, D, bare, complete) \/ ObserveRaises(S, D, P, bare)
  PROVE  TruthOK' /\ ReservationKept
<1>1. /\ stage = "idle" /\ inflight = NoOrder /\ NoOrder \notin Orders /\ S \cap wire = {}
      /\ UNCHANGED <<broker, wire, orphans, inflight, stage>>
  BY TruthFacts, IdleFacts, CoordinatorAssumption DEF Observe, ObserveRaises, Snapshot, call
<1>2. /\ order' = RowsSeen(S, D) /\ denied' = DeniedAfter(D, order')
      /\ work' = work \/ work' = WorkAfter(S, order')
  BY DEF Observe, ObserveRaises
<1>3. /\ \A o \in S : order'[o] = ApplyObservation(order[o], Observed(o, D))
      /\ \A o \in Orders \ S : order'[o] = order[o]
  BY <1>2 DEF RowsSeen
<1>4. \A o \in Orders :
          o \in Unresolved(work) => o \in Unresolved(work') \/ order'[o].status # "UNKNOWN"
  BY <1>2, WorkKept, TruthFacts DEF Unresolved
<1>5. ASSUME NEW o \in S
      PROVE  /\ RowTrue(o)'
             /\ \/ o \in denied'
                \/ order[o].resv \in {"CONSUMED", "RELEASED"} => order'[o].resv = order[o].resv
  <2> DEFINE x == Observed(o, D)
             q == ApplyObservation(order[o], x)
  <2>0. /\ o \in Orders /\ order[o] \in OrderRow /\ RowTrue(o) /\ o \notin wire
        /\ broker[o] \in {"working", "filled"} => order[o].resv # "RELEASED" \/ o \in denied'
    BY <1>1, TruthFacts
  <2>1. /\ \/ x = "FILLED" /\ broker[o] = "filled"
           \/ x = "SUBMITTED" /\ broker[o] = "working"
           \/ x = "CANCELLED" /\ broker[o] = "cancelled"
           \/ x = "REJECTED" /\ (broker[o] \in {"none", "refused"} \/ o \in D)
        /\ q.record = order[o].record
        /\ \/ q = order[o] /\ order[o].status \in {"FILLED", "REJECTED", "CANCELLED"}
           \/ /\ q.status = x
              /\ x = "FILLED" => q.resv = "CONSUMED"
              /\ x = "SUBMITTED" => q.resv = order[o].resv
              /\ x \in {"REJECTED", "CANCELLED"} => q.resv = "RELEASED"
    BY <2>0, ObservedTruth, TruthFacts
  <2>2. order'[o] = q
    BY <1>3
  <2>3. q.status = "REJECTED" /\ o \in D => broker[o] \in {"none", "refused"} \/ o \in denied'
    BY <1>2, <2>0, <2>2, TruthFacts DEF DeniedAfter, TypeOK, Effects
  <2> HIDE DEF x, q
  <2>4. RowTrue(o)'
    BY <1>1, <1>4, <2>0, <2>1, <2>2, <2>3 DEF RowTrue
  <2>5. order[o].resv = "CONSUMED" => broker[o] = "filled"
    BY <2>0 DEF RowTrue
  <2> QED BY <2>0, <2>1, <2>2, <2>3, <2>4, <2>5
<1>6. ASSUME NEW o \in Orders \ S PROVE RowTrue(o)' /\ order'[o] = order[o]
  BY <1>1, <1>3, <1>4, <1>6, TruthFacts DEF RowTrue
<1> QED BY <1>1, <1>5, <1>6 DEF TruthOK, CallTrue, ReservationKept

LEMMA PositionsTruth ==
  ASSUME TruthInv, denied \subseteq denied', Positions
  PROVE  TruthOK' /\ ReservationKept
<1>1. ASSUME NEW o \in Orders, NEW yes \in BOOLEAN, RecordFill(o, yes)
      PROVE  TruthOK' /\ ReservationKept
  <2>1. /\ stage = "idle" /\ Transport = "direct" /\ Transport # "stream" /\ wire = {}
        /\ broker[o] = "filled" /\ order[o] \in OrderRow
        /\ UNCHANGED <<broker, wire, orphans, inflight, stage, work>>
    BY <1>1, TruthFacts, IdleFacts, StreamFacts DEF RecordFill, call, stream, world
  <2>2. /\ order'[o].status = "FILLED" /\ order'[o].resv = "CONSUMED"
        /\ \A p \in Orders : p # o => order'[p] = order[p]
    <3> DEFINE q == [order[o] EXCEPT !.status = "FILLED", !.resv = "CONSUMED"]
    <3>1. q.status = "FILLED" /\ q.resv = "CONSUMED"
      BY <2>1 DEF OrderRow
    <3>2. order' = [order EXCEPT ![o] = q]
      BY <1>1 DEF RecordFill
    <3> HIDE DEF q
    <3> QED BY <3>1, <3>2, TruthFacts DEF TypeOK
  <2>3. \A p \in Orders : RowTrue(p)'
    <3> TAKE p \in Orders
    <3>1. CASE p = o
      BY <2>1, <2>2, <3>1 DEF RowTrue
    <3>2. CASE p # o
      BY <2>1, <2>2, <3>2, TruthFacts, RowStays
    <3> QED BY <3>1, <3>2
  <2>4. ReservationKept
    BY <2>1, <2>2, TruthFacts DEF ReservationKept
  <2> QED BY <2>1, <2>3, <2>4 DEF TruthOK, CallTrue
<1>2. CASE \E o \in Orders : \/ DoubtProtection(o) \/ ConfirmProtection(o) \/ Disconnected(o)
                             \/ ClosePosition(o) \/ \E yes \in BOOLEAN : RepairProtection(o, yes)
  <2>1. UNCHANGED <<order, broker, wire, orphans, inflight, stage, work>>
    BY <1>2 DEF DoubtProtection, ConfirmProtection, Disconnected, ClosePosition,
                RepairProtection, call, stream, world
  <2> QED BY <2>1, TruthAlone
<1> QED BY <1>1, <1>2 DEF Positions

\* What a snapshot has denied stays denied.
LEMMA DeniedGrows == [Next]_vars => denied \subseteq denied'
<1>1. \A S, D, P, bare, complete :
         Observe(S, D, bare, complete) \/ ObserveRaises(S, D, P, bare)
             => denied \subseteq denied'
  BY DEF Observe, ObserveRaises, DeniedAfter
<1>2. Reconciliation => denied \subseteq denied'
  BY <1>1 DEF Reconciliation, RecoverOrder, Escalate, world, history
<1>3. StreamStep \/ DirectDispatch => denied' = denied
  BY DEF StreamStep, OpenSession, Heartbeat, LoseSession, Prepare, MarkSent, Execute, Result,
         DirectDispatch, BeginDispatch, CheckRefused, AnswerClear, AnswerAmbiguous, SendOrder,
         world, history
<1>4. Positions \/ Supervision \/ Restart => denied' = denied
  BY DEF Positions, DoubtProtection, ConfirmProtection, Disconnected, ClosePosition,
         RecordFill, RepairProtection, Supervision, EmergencyStop, CustodianRecovers,
         RuntimeHealth, Restart, world, history
<1>5. \A o \in Orders : Admit(o) \/ BrokerMoves(o) => denied' = denied
  BY DEF Admit, BrokerMoves, world, history
<1> QED BY <1>2, <1>3, <1>4, <1>5 DEF Next, vars, world, history

LEMMA TruthStep ==
  ASSUME TruthInv, [Next]_vars
  PROVE  TruthOK' /\ ReservationKept
<1> denied \subseteq denied'
  BY DeniedGrows
<1>1. CASE \E o \in Orders : Admit(o) \/ BrokerMoves(o)
  BY <1>1, AdmitTruth, BrokerTruth
<1>2. CASE DirectDispatch
  BY <1>2, BeginTruth, CallTruth, SendTruth DEF DirectDispatch
<1>3. CASE StreamStep
  <2>1. CASE Heartbeat
    BY <2>1, TruthAlone DEF Heartbeat, ledger, call, stream, world
  <2> QED BY <1>3, <2>1, OpenTruth, LoseTruth, PrepareTruth, MarkTruth, ExecuteTruth,
             ResultTruth DEF StreamStep
<1>4. CASE Reconciliation
  <2>1. ASSUME NEW o \in Orders, Escalate(o) PROVE TruthOK' /\ ReservationKept
    <3>1. \A p \in Orders : p \in Unresolved(work) => p \in Unresolved(work')
      BY <2>1, TruthFacts DEF Escalate, Unresolved, TypeOK
    <3> QED BY <2>1, <3>1, TruthAlone DEF Escalate, call, stream, world
  <2> QED BY <1>4, <2>1, RecoverTruth, ObserveTruth DEF Reconciliation
<1>5. CASE Positions
  BY <1>5, PositionsTruth
<1>6. CASE Supervision
  <2>1. UNCHANGED <<order, broker, wire, orphans, inflight, stage, work>>
    BY <1>6 DEF Supervision, EmergencyStop, CustodianRecovers, RuntimeHealth, ledger, call,
                stream, world
  <2> QED BY <2>1, TruthAlone
<1>7. CASE Restart
  BY <1>7, RestartTruth
<1>8. CASE UNCHANGED vars
  BY <1>8, TruthAlone DEF vars, ledger, call, stream, world
<1> QED BY <1>1, <1>2, <1>3, <1>4, <1>5, <1>6, <1>7, <1>8 DEF Next

LEMMA TruthHolds == Spec => []TruthInv
<1>1. Init => TruthInv
  <2>1. Init => TruthOK
    BY DEF Init, TruthOK, CallTrue, RowTrue, NoOrderRow
  <2>2. Init => ClosedOK
    BY DEF Init, ClosedOK, SentOrders, NoOrderRow
  <2> QED BY <2>1, <2>2, OrderInit DEF TruthInv, StreamInv
<1>2. TruthInv /\ [Next]_vars => TruthInv'
  BY TruthStep, OrderStep, StreamRefines DEF TruthInv, StreamInv
<1> QED BY <1>1, <1>2, PTL DEF Spec

\* What is stored of an order is what the broker did, however answers, results, fills,
\* snapshots and restarts mix: a rejected order has had no effect and never will, unless
\* a snapshot of the stream denied its effect (Deniable).
THEOREM StatusesAreTrue == Spec => []StatusIsTrue
<1>1. TruthInv => StatusIsTrue
  BY DEF TruthInv, TruthOK, RowTrue, StatusIsTrue
<1> QED BY <1>1, TruthHolds, PTL

\* An order in doubt has unresolved work, and no crash leaves one DISPATCHING.
THEOREM UnknownOrdersHaveWork == Spec => []UnknownHasWork
<1>1. TruthInv => UnknownHasWork
  BY DEF TruthInv, TruthOK, RowTrue, UnknownHasWork
<1> QED BY <1>1, TruthHolds, PTL

\* A reservation that is consumed or released is never changed again, but for an order
\* whose effect a snapshot has denied.
THEOREM ReservationsAreFinal == Spec => ReservationIsFinal
<1>1. TruthInv /\ [Next]_vars =>
          [\A o \in Orders \ denied' : order[o].resv \in {"CONSUMED", "RELEASED"} =>
               order'[o].resv = order[o].resv]_vars
  BY TruthStep DEF ReservationKept
<1> QED BY <1>1, TruthHolds, PTL DEF Spec, ReservationIsFinal

=============================================================================
