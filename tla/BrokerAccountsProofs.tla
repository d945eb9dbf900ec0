------------------------- MODULE BrokerAccountsProofs -------------------------
(***************************************************************************)
(* Theorems about BrokerAccounts, for any sessions, threads and settings and *)
(* any number of breaks and restarts.                                       *)
(***************************************************************************)
EXTENDS BrokerAccounts, FiniteSetTheorems, TLAPS

USE AccountsAssumption

\* What a save in progress writes: at most one row.
AtMostOne(S) == S = {} \/ \E a \in Records : S = {a}

LEMMA OneRow ==
  ASSUME NEW S, AtMostOne(S)
  PROVE  S \subseteq Records /\ Cardinality(S) \in 0..1
<1>1. CASE S = {}
  BY <1>1, FS_EmptySet
<1>2. ASSUME NEW a \in Records, S = {a} PROVE S \subseteq Records /\ Cardinality(S) \in 0..1
  BY <1>2, FS_Singleton
<1> QED BY <1>1, <1>2 DEF AtMostOne

\* TypeOK, with the saves told without counting.
SavesOK ==
    /\ saving \in [Editors \cup {"loop"} -> SUBSET Records]
    /\ \A t \in Editors \cup {"loop"} : AtMostOne(saving[t])
RowsOK == account \in Records /\ row \in Records /\ leased \in BOOLEAN
HandlersOK ==
    /\ admitting \in Sessions \cup {None}
    /\ handler \in [Sessions -> {"none", "greeting", "served", "leaked"}]
    /\ registered \in Sessions \cup {None} /\ peer \in Sessions \cup {None}
BoundsOK ==
    changes \in 0..MaxChanges /\ breaks \in 0..MaxBreaks /\ restarts \in 0..MaxRestarts

TypeInv == SavesOK /\ RowsOK /\ HandlersOK /\ BoundsOK

LEMMA TypeInvIsEnough == TypeInv => TypeOK
<1> SUFFICES ASSUME TypeInv PROVE TypeOK
  OBVIOUS
<1>1. \A t \in DOMAIN saving : Cardinality(saving[t]) <= 1
  <2> TAKE t \in DOMAIN saving
  <2>1. Cardinality(saving[t]) \in 0..1
    BY OneRow DEF TypeInv, SavesOK
  <2> QED BY <2>1
<1> QED BY <1>1 DEF TypeInv, SavesOK, RowsOK, HandlersOK, BoundsOK, TypeOK

\* Only what the loop, an editor or a restart replaces changes; a save that begins
\* replaces the values of its thread, one that ends empties them.
LEMMA SaveBegins ==
  ASSUME SavesOK, NEW t \in Editors \cup {"loop"}, NEW a \in Records, Persist(t, a)
  PROVE  SavesOK'
  BY DEF SavesOK, Persist, AtMostOne

LEMMA SaveEnds ==
  ASSUME SavesOK, NEW t \in Editors \cup {"loop"}, saving' = [saving EXCEPT ![t] = {}]
  PROVE  SavesOK'
  BY DEF SavesOK, AtMostOne

LEMMA TypeInit == Init => TypeInv
<1> SUFFICES ASSUME Init PROVE TypeInv
  OBVIOUS
<1>1. SavesOK
  BY DEF Init, SavesOK, AtMostOne
<1>2. RowsOK
  <2>1. PICK v \in Settings :
            account = [setting |-> v, healthy |-> FALSE, reconciled |-> FALSE, owner |-> None]
    BY DEF Init
  <2>2. account \in Records
    BY <2>1 DEF Records
  <2> QED BY <2>2 DEF Init, RowsOK
<1> QED BY <1>1, <1>2 DEF Init, TypeInv, HandlersOK, BoundsOK

LEMMA TypeStep == TypeInv /\ [Next]_vars => TypeInv'
<1> SUFFICES ASSUME TypeInv, [Next]_vars PROVE TypeInv'
  OBVIOUS
<1> USE DEF TypeInv
<1>e. \A t \in Editors \cup {"loop"} : \A a \in saving[t] : a \in Records
  BY DEF SavesOK
<1>r. \A s \in Sessions : Renewed(account, s) \in Records
  BY DEF Renewed, RowsOK, Records
<1>1. ASSUME NEW e \in Editors, NEW v \in Settings, Change(e, v) PROVE TypeInv'
  <2>1. account' \in Records
    BY <1>1 DEF Change, RowsOK, Records
  <2>2. SavesOK'
    BY <1>1, <2>1, SaveBegins DEF Change
  <2> QED BY <1>1, <2>1, <2>2 DEF Change, RowsOK, HandlersOK, BoundsOK, loop
<1>2. ASSUME NEW e \in Editors, SaveAgain(e) PROVE TypeInv'
  <2>1. SavesOK'
    BY <1>2, SaveBegins DEF SaveAgain, RowsOK
  <2> QED BY <1>2, <2>1 DEF SaveAgain, RowsOK, HandlersOK, BoundsOK, loop
<1>3. ASSUME NEW e \in Editors, EditorSaved(e) PROVE TypeInv'
  <2>1. SavesOK'
    BY <1>3, SaveEnds DEF EditorSaved
  <2> QED BY <1>3, <1>e, <2>1 DEF EditorSaved, RowsOK, HandlersOK, BoundsOK, loop, bounds
<1>4. ASSUME NEW s \in Sessions, Hello(s) PROVE TypeInv'
  <2>1. account' \in Records
    BY <1>4, <1>r DEF Hello
  <2>2. SavesOK'
    BY <1>4, <2>1, SaveBegins DEF Hello
  <2> QED BY <1>4, <2>1, <2>2 DEF Hello, RowsOK, HandlersOK, BoundsOK, bounds
<1>5. ASSUME NEW s \in Sessions, Greet(s) PROVE TypeInv'
  BY <1>5 DEF Greet, RowsOK, SavesOK, HandlersOK, BoundsOK, bounds
<1>6. ASSUME NEW s \in Sessions, Beat(s) PROVE TypeInv'
  <2>1. account' \in Records
    BY <1>6, <1>r DEF Beat
  <2>2. SavesOK'
    BY <1>6, <2>1, SaveBegins DEF Beat
  <2> QED BY <1>6, <2>1, <2>2 DEF Beat, RowsOK, HandlersOK, BoundsOK, loop, bounds
<1>7. ASSUME NEW s \in Sessions, Reconciled(s) PROVE TypeInv'
  <2>1. account' \in Records
    BY <1>7 DEF Reconciled, RowsOK, Records
  <2>2. SavesOK'
    BY <1>7, <2>1, SaveBegins DEF Reconciled
  <2> QED BY <1>7, <2>1, <2>2 DEF Reconciled, RowsOK, HandlersOK, BoundsOK, loop, bounds
<1>8. ASSUME NEW s \in Sessions, EndClean(s) PROVE TypeInv'
  BY <1>8 DEF EndClean, Close, RowsOK, SavesOK, HandlersOK, BoundsOK, bounds
<1>u. ASSUME MarkUnhealthy PROVE account' \in Records /\ SavesOK'
  <2>1. account' \in Records
    BY <1>u DEF MarkUnhealthy, RowsOK, Records
  <2> QED BY <1>u, <2>1, SaveBegins DEF MarkUnhealthy
<1>9. ASSUME NEW s \in Sessions, EndAbruptly(s) PROVE TypeInv'
  BY <1>9, <1>u DEF EndAbruptly, Close, RowsOK, HandlersOK, BoundsOK, bounds
<1>10. ASSUME NEW s \in Sessions, Leak(s) PROVE TypeInv'
  <2>1. account' \in Records /\ SavesOK'
    BY <1>10, <1>u DEF Leak, RowsOK, SavesOK
  <2> QED BY <1>10, <2>1 DEF Leak, RowsOK, HandlersOK, BoundsOK, bounds
<1>11. ASSUME LoopSaved PROVE TypeInv'
  <2>1. SavesOK'
    BY <1>11, SaveEnds DEF LoopSaved
  <2>2. RowsOK'
    BY <1>11, <1>e DEF LoopSaved, RowsOK
  <2>3. HandlersOK'
    BY <1>11 DEF LoopSaved, Admit, HandlersOK
  <2> QED BY <1>11, <2>1, <2>2, <2>3 DEF LoopSaved, BoundsOK, bounds
<1>12. ASSUME Lapse PROVE TypeInv'
  BY <1>12 DEF Lapse, RowsOK, SavesOK, HandlersOK, BoundsOK, loop, bounds
<1>13. ASSUME Break PROVE TypeInv'
  BY <1>13 DEF Break, RowsOK, SavesOK, HandlersOK, BoundsOK
<1>14. ASSUME Restart PROVE TypeInv'
  <2>1. SavesOK'
    BY <1>14 DEF Restart, SavesOK, AtMostOne
  <2>2. RowsOK' /\ HandlersOK'
    BY <1>14 DEF Restart, RowsOK, HandlersOK
  <2> QED BY <1>14, <2>1, <2>2 DEF Restart, BoundsOK
<1>15. CASE UNCHANGED vars
  BY <1>15 DEF vars, loop, bounds, RowsOK, SavesOK, HandlersOK, BoundsOK
<1> QED
  BY <1>1, <1>2, <1>3, <1>4, <1>5, <1>6, <1>7, <1>8, <1>9, <1>10, <1>11, <1>12, <1>13,
     <1>14, <1>15 DEF Next

\* Type correctness: every variable of the account, its row, its saves and its
\* sessions keeps its type, and a thread saves one row at a time.
THEOREM TypeCorrect == Spec => []TypeOK
<1>1. Spec => []TypeInv
  BY TypeInit, TypeStep, PTL DEF Spec
<1> QED BY <1>1, TypeInvIsEnough, PTL

-----------------------------------------------------------------------------
(* A served account is healthy.                                            *)

\* While a hello is being saved the loop does nothing else, so that the account is
\* still as the hello left it when the session is opened.
AdmittedIsHealthy == admitting # None => ~Idle /\ account.healthy

HealthInv == TypeInv /\ AdmittedIsHealthy /\ ServedIsHealthy

LEMMA HealthStep == HealthInv /\ [Next]_vars => HealthInv'
<1> SUFFICES ASSUME HealthInv, [Next]_vars PROVE AdmittedIsHealthy' /\ ServedIsHealthy'
  BY TypeStep DEF HealthInv
<1> USE DEF AdmittedIsHealthy, ServedIsHealthy, Idle
<1>t. /\ SavesOK /\ HandlersOK /\ RowsOK /\ AdmittedIsHealthy /\ ServedIsHealthy
      /\ \A e \in Editors : e # "loop"
  BY DEF HealthInv, TypeInv
\* A session that ends was the registered one, so that no other is admitted.
<1>o. \A s, t \in Sessions :
          handler[s] \in {"greeting", "served"} /\ handler[t] \in {"greeting", "served"}
          => s = t
  BY <1>t
<1>1. ASSUME NEW e \in Editors, NEW v \in Settings, Change(e, v)
      PROVE  AdmittedIsHealthy' /\ ServedIsHealthy'
  <2>1. account'.healthy = account.healthy /\ saving'["loop"] = saving["loop"]
    BY <1>t, <1>1 DEF Change, Persist, RowsOK, Records, SavesOK
  <2> QED BY <1>t, <1>1, <2>1 DEF Change, loop
<1>2. ASSUME NEW e \in Editors, SaveAgain(e) \/ EditorSaved(e)
      PROVE  AdmittedIsHealthy' /\ ServedIsHealthy'
  <2>1. saving'["loop"] = saving["loop"]
    BY <1>t, <1>2 DEF SaveAgain, EditorSaved, Persist, SavesOK
  <2> QED BY <1>t, <1>2, <2>1 DEF SaveAgain, EditorSaved, loop
<1>3. ASSUME NEW s \in Sessions, Hello(s) \/ Beat(s)
      PROVE  AdmittedIsHealthy' /\ ServedIsHealthy'
  <2>1. Renewed(account, s).healthy
    BY <1>t DEF Renewed, RowsOK, Records
  <2>2. account' = Renewed(account, s) /\ saving'["loop"] = {account'}
    BY <1>t, <1>3 DEF Hello, Beat, Persist, SavesOK
  <2>3. account'.healthy /\ saving'["loop"] # {}
    BY <2>1, <2>2
  <2> QED BY <1>t, <1>3, <2>3 DEF Hello, Beat, loop
<1>4. ASSUME NEW s \in Sessions, Reconciled(s)
      PROVE  AdmittedIsHealthy' /\ ServedIsHealthy'
  <2>1. account'.healthy = account.healthy /\ saving'["loop"] # {}
    BY <1>t, <1>4 DEF Reconciled, Persist, RowsOK, Records, SavesOK
  <2> QED BY <1>t, <1>4, <2>1 DEF Reconciled, loop
<1>5. ASSUME NEW s \in Sessions, Greet(s)
      PROVE  AdmittedIsHealthy' /\ ServedIsHealthy'
  BY <1>t, <1>5 DEF Greet, HandlersOK
<1>6. ASSUME NEW s \in Sessions, EndClean(s) \/ EndAbruptly(s) \/ Leak(s)
      PROVE  AdmittedIsHealthy' /\ ServedIsHealthy'
  <2>1. /\ admitting' = None
        /\ \A t \in Sessions : handler'[t] \in {"none", "leaked"}
    BY <1>t, <1>o, <1>6 DEF EndClean, EndAbruptly, Leak, HandlersOK
  <2> QED BY <1>t, <1>6, <2>1 DEF EndClean, EndAbruptly, Leak
\* Nothing is registered when a session is opened, hence nothing else is served.
<1>7. ASSUME LoopSaved PROVE AdmittedIsHealthy' /\ ServedIsHealthy'
  <2>1. CASE admitting = None
    BY <1>t, <1>7, <2>1 DEF LoopSaved
  <2>2. CASE admitting # None /\ registered = None
    BY <1>t, <1>7, <2>2 DEF LoopSaved, Admit, HandlersOK
  <2>3. CASE admitting # None /\ registered # None
    BY <1>t, <1>7, <2>3 DEF LoopSaved, Admit
  <2> QED BY <2>1, <2>2, <2>3
<1>8. ASSUME Lapse \/ Break PROVE AdmittedIsHealthy' /\ ServedIsHealthy'
  BY <1>t, <1>8 DEF Lapse, Break, loop
<1>9. ASSUME Restart PROVE AdmittedIsHealthy' /\ ServedIsHealthy'
  BY <1>t, <1>9 DEF Restart
<1>10. CASE UNCHANGED vars
  BY <1>t, <1>10 DEF vars, loop
<1> QED
  BY <1>1, <1>2, <1>3, <1>4, <1>5, <1>6, <1>7, <1>8, <1>9, <1>10 DEF HealthInv, Next

\* A session that is admitted is the registered one and its account is healthy,
\* however late the end of an earlier session is noticed.
THEOREM ServedAccountsAreHealthy == Spec => []ServedIsHealthy
<1>1. Init => HealthInv
  BY TypeInit DEF Init, HealthInv, AdmittedIsHealthy, ServedIsHealthy
<1>2. HealthInv => ServedIsHealthy
  BY DEF HealthInv
<1> QED BY <1>1, <1>2, HealthStep, PTL DEF Spec

-----------------------------------------------------------------------------
(* A heartbeat is accepted: the connector has one connection, and its hello *)
(* was the last to take the lease.                                          *)

LeaseInv == TypeInv /\ (peer # None => account.owner = peer)

LEMMA LeaseStep == LeaseInv /\ [Next]_vars => LeaseInv'
<1> SUFFICES ASSUME LeaseInv, [Next]_vars PROVE peer' # None => account'.owner = peer'
  BY TypeStep DEF LeaseInv
<1>t. account \in Records /\ (peer # None => account.owner = peer)
  BY DEF LeaseInv, TypeInv, RowsOK
<1>1. ASSUME NEW e \in Editors, NEW v \in Settings, Change(e, v)
      PROVE  account'.owner = account.owner /\ peer' = peer
  BY <1>t, <1>1 DEF Change, loop, Records
<1>2. ASSUME NEW e \in Editors, SaveAgain(e) \/ EditorSaved(e)
      PROVE  account' = account /\ peer' = peer
  BY <1>2 DEF SaveAgain, EditorSaved, loop
<1>3. ASSUME NEW s \in Sessions, Hello(s) \/ Beat(s)
      PROVE  account'.owner = s /\ peer' = s
  BY <1>t, <1>3 DEF Hello, Beat, Renewed, Records, loop
<1>4. ASSUME NEW s \in Sessions,
             Greet(s) \/ Reconciled(s) \/ EndClean(s) \/ EndAbruptly(s) \/ Leak(s)
      PROVE  account'.owner = account.owner /\ peer' = peer
  BY <1>t, <1>4 DEF Greet, Reconciled, EndClean, EndAbruptly, Leak, MarkUnhealthy, Records, loop
<1>5. ASSUME LoopSaved PROVE account' = account /\ peer' \in {None, peer}
  BY <1>5 DEF LoopSaved, Admit
<1>6. ASSUME Lapse \/ Break \/ Restart
      PROVE  peer' = None \/ (account' = account /\ peer' = peer)
  BY <1>6 DEF Lapse, Break, Restart, loop
<1>7. CASE UNCHANGED vars
  BY <1>t, <1>7 DEF vars, loop
<1> QED BY <1>t, <1>1, <1>2, <1>3, <1>4, <1>5, <1>6, <1>7 DEF Next

\* No heartbeat of the session that is served is refused for the lease, for any
\* sessions, lapses, breaks and restarts: why the model, and a connector that keeps
\* its connection, need no step for one that is (heartbeat, STALE_GENERATION).
THEOREM HeartbeatsAreAccepted == Spec => []BeatIsAccepted
<1>1. Init => LeaseInv
  BY TypeInit DEF Init, LeaseInv
<1>2. LeaseInv => BeatIsAccepted
  BY DEF LeaseInv, BeatIsAccepted, HeldFrom
<1> QED BY <1>1, <1>2, LeaseStep, PTL DEF Spec
=============================================================================
