-------------------------- MODULE AccountPairingProofs --------------------------
(***************************************************************************)
(* Proofs about AccountPairing, for any finite set of pairings and any      *)
(* connectors, identities and calls, failed saves and restarts.             *)
(***************************************************************************)
EXTENDS AccountPairing, FiniteSetTheorems, TLAPS

(* The invariants.                                                         *)

\* A session that is open can take one more wrong code.
RoomOK ==
    \A p \in Pairings :
        /\ session[p].status = "OPEN" => session[p].failed < MaxFailures
        /\ row[p].status = "OPEN" => row[p].failed < MaxFailures

\* A code that was accepted is on record as used, and in no memory as unused.
CodeOK ==
    \A p \in Pairings :
        /\ accepted[p] \in {0, 1}
        /\ accepted[p] = 1 => /\ session[p].status # "OPEN"
                              /\ row[p].status \notin {"NONE", "OPEN"}

\* The tables count the accounts that were made.
CountOK == \A i \in Identities : created[i] = IF accountRow[i].exists THEN 1 ELSE 0

\* A pairing that came to an end cannot be confirmed in memory, nor when its
\* row is loaded.
Stopped(s, p) == s.status \in Loaded => p \in due
FinalOK ==
    \A p \in Pairings \ unsaved :
        /\ session[p].status # "NONE" => row[p].status # "NONE"
        /\ session[p].status \in {"CANCELLED", "EXPIRED"} \/ p \in ended =>
             row[p].status # "NONE" /\ Stopped(row[p], p)
        /\ p \in ended => Stopped(session[p], p)

\* Nothing comes between the two halves of confirm.
LockOK == confirming # None => session[confirming].status = "CANDIDATE_SUBMITTED"

\* A candidate is on record as it is in memory, is what the custodian saw if
\* anything was seen, and is what the account was made of.
SeenOK ==
    \A p \in Pairings \ unsaved :
        /\ session[p].status = "NONE" \/ session[p].candidate = row[p].candidate
        /\ session[p].status = "OPEN" \/ row[p].status \in {"NONE", "OPEN"}
             => row[p].candidate = None
        /\ seen[p] \in {None, row[p].candidate}
        /\ made[p] \in {None, seen[p]}

\* Memory knows only accounts on record, and a registered one that memory
\* does not know yet was made by no pairing.
KnownOK ==
    /\ \A i \in Identities : account[i].exists => accountRow[i].exists
    /\ \A g \in Registers : register[g].stage = "inserted" =>
        /\ accountRow[register[g].identity].exists
        /\ \A p \in Pairings : made[p] # register[g].identity
    /\ \A p \in Pairings : made[p] # None => accountRow[made[p]].exists
    /\ \A r \in Rebinds : rebind[r].stage # "new" => accountRow[rebind[r].identity].exists

\* A key that is anywhere was made by a call that has begun.
Begun(k) == k \in Rebinds => rebind[k].stage # "new"
BegunOK ==
    /\ \A i \in Identities : Begun(account[i].key) /\ Begun(accountRow[i].key)
    /\ \A r \in Rebinds : Begun(rebind[r].image) /\ Begun(rebind[r].over)

\* The key a call replaces is gone from memory when the call begins, no call
\* in progress will save it again, and it is off the record when the call is
\* done.
ReplacedOK ==
    \A r \in Rebinds :
        LET i == rebind[r].identity
            k == rebind[r].over
        IN  k # None /\ rebind[r].stage \in {"set", "read", "done"} =>
              /\ account[i].key # k
              /\ \A q \in Rebinds : rebind[q].stage = "read" /\ rebind[q].identity = i
                                      => rebind[q].image # k
              /\ rebind[r].stage = "done" => accountRow[i].key # k

\* Until bind_connector is called for it, the account of a pairing has the
\* pairing's key, in memory and on record, and no other account has.
PairedOK ==
    \A p \in Pairings : made[p] # None =>
        /\ account[made[p]].exists
        /\ \/ account[made[p]].key = p /\ accountRow[made[p]].key = p
           \/ \E r \in Rebinds : rebind[r].stage # "new" /\ rebind[r].identity = made[p]

\* Who is about to get a secret has an account.
HeldOK ==
    /\ \A p \in Pairings : session[p].secret \/ p \in held \/ confirming = p => made[p] # None
    /\ \A c \in Connectors : socket[c].stage = "sending" => made[socket[c].pairing] # None

-----------------------------------------------------------------------------
(* The steps by what they may change.                                      *)

Custodian(p) == Start(p) \/ ViewExpiring(p) \/ View(p) \/ CancelExpiring(p) \/ Cancel(p)
                \/ Create(p) \/ Confirm(p) \/ Deadline(p)
Submission(c) == \E p \in Pairings :
    SubmitExpiring(c, p) \/ \E i \in Identities, stage \in {"waiting", "closed"} : Submit(c, p, i, stage)
Delivery(c) == Consume(c) \/ Send(c) \/ Drop(c)
Registering(g) == (\E i \in Identities : RegisterCheck(g, i)) \/ RegisterInsert(g) \/ RegisterPublish(g)
Rebinding(r) == (\E i \in Identities : BindSet(r, i)) \/ BindRead(r) \/ BindStore(r)

LEMMA Steps ==
  ASSUME [Next]_vars
  PROVE  \/ \E p \in Pairings : Custodian(p)
         \/ \E c \in Connectors : Submission(c) \/ Delivery(c)
         \/ WrongCode
         \/ \E g \in Registers : Registering(g)
         \/ \E r \in Rebinds : Rebinding(r)
         \/ Restart
         \/ UNCHANGED vars
  BY DEF Next, Custodian, Submission, Delivery, Registering, Rebinding, SubmitAndWait,
         SubmitByPost

-----------------------------------------------------------------------------
(* Types.                                                                  *)

LEMMA StoredType ==
  ASSUME NEW s \in Sessions
  PROVE  Stored(s) \in {t \in Sessions : ~t.secret}
  BY DEF Stored, Sessions

LEMMA StoreType ==
  ASSUME SessionsOK, RoomOK, NEW p \in Pairings, NEW s \in Sessions, NEW ok,
         s.status = "OPEN" => s.failed < MaxFailures,
         Store(p, s, ok)
  PROVE  SessionsOK' /\ RoomOK'
<1>1. Stored(s) \in {t \in Sessions : ~t.secret} /\ Stored(s).status = s.status
      /\ Stored(s).failed = s.failed
  BY StoredType DEF Stored, Sessions
<1>2. SessionsOK'
  BY <1>1 DEF SessionsOK, Store
<1>3. RoomOK'
  BY <1>1 DEF RoomOK, SessionsOK, Store
<1> QED BY <1>2, <1>3

OpenSessions == {p \in Pairings : session[p].status = "OPEN"}

\* What a wrong code does: some open sessions are charged in memory, and on
\* record but for the one whose save failed.
LEMMA GuessedSets ==
  ASSUME WrongCode
  PROVE  \E S, last \in SUBSET OpenSessions, ok \in Saves : SaveGuess(S, last, ok)
<1>1. TRUE \in Saves
  BY DEF Saves
<1>2. OpenSessions \in SUBSET OpenSessions /\ {} \in SUBSET OpenSessions
  OBVIOUS
<1>3. CASE SaveGuess(OpenSessions, {}, TRUE)
  BY <1>1, <1>2, <1>3
<1>4. ASSUME NEW p \in OpenSessions, NEW S \in SUBSET OpenSessions, NEW ok \in Saves,
             SaveGuess(S, {p}, ok)
      PROVE  \E T, last \in SUBSET OpenSessions, o \in Saves : SaveGuess(T, last, o)
  <2>1. {p} \in SUBSET OpenSessions
    OBVIOUS
  <2> QED BY <1>4, <2>1
<1> QED BY <1>3, <1>4 DEF WrongCode, OpenSessions

LEMMA GuessedType ==
  ASSUME SessionsOK, RoomOK, NEW p \in OpenSessions
  PROVE  /\ Guessed(p) \in Sessions
         /\ Guessed(p).status \in {"OPEN", "EXPIRED"}
         /\ Guessed(p).status = "OPEN" => Guessed(p).failed < MaxFailures
         /\ Guessed(p).candidate = session[p].candidate
         /\ Guessed(p).secret = session[p].secret
<1> DEFINE n == session[p].failed + 1
<1>1. p \in Pairings /\ session[p] \in Sessions /\ session[p].status = "OPEN"
  BY DEF OpenSessions, SessionsOK
<1>2. session[p].failed \in 0 .. MaxFailures /\ session[p].failed < MaxFailures
  BY <1>1 DEF RoomOK, Sessions
<1>3. n \in 0 .. MaxFailures
  BY <1>2, PairingAssumption
<1>4. n >= MaxFailures \/ n < MaxFailures
  BY <1>3, PairingAssumption
<1>5. Guessed(p) = [session[p] EXCEPT !.failed = n,
                        !.status = IF n >= MaxFailures THEN "EXPIRED" ELSE @]
  BY DEF Guessed
<1> HIDE DEF n
<1> QED BY <1>1, <1>3, <1>4, <1>5 DEF Sessions, Ended

LEMMA GuessType ==
  ASSUME SessionsOK, RoomOK, NEW S \in SUBSET OpenSessions, NEW last \in SUBSET OpenSessions,
         NEW ok, SaveGuess(S, last, ok)
  PROVE  SessionsOK' /\ RoomOK'
<1>1. \A p \in S \cup last :
        /\ Guessed(p) \in Sessions
        /\ Guessed(p).status = "OPEN" => Guessed(p).failed < MaxFailures
        /\ Stored(Guessed(p)) \in {t \in Sessions : ~t.secret}
        /\ Stored(Guessed(p)).status = Guessed(p).status
        /\ Stored(Guessed(p)).failed = Guessed(p).failed
  BY GuessedType, StoredType DEF Stored, Sessions
<1>2. /\ session' = [p \in Pairings |-> IF p \in S \cup last THEN Guessed(p) ELSE session[p]]
      /\ \E T \in SUBSET (S \cup last) :
           row' = [p \in Pairings |-> IF p \in T THEN Stored(Guessed(p)) ELSE row[p]]
  BY DEF SaveGuess
<1>3. SessionsOK'
  BY <1>1, <1>2 DEF SessionsOK
<1>4. RoomOK'
  BY <1>1, <1>2 DEF RoomOK, SessionsOK
<1> QED BY <1>3, <1>4

LEMMA SessionsType ==
  ASSUME TypeOK, RoomOK, [Next]_vars PROVE SessionsOK' /\ RoomOK'
<1>0. SessionsOK
  BY DEF TypeOK
<1>a. \A p \in Pairings : session[p] \in Sessions
  BY <1>0 DEF SessionsOK
<1>u. ASSUME UNCHANGED <<session, row>> PROVE SessionsOK' /\ RoomOK'
  BY <1>0, <1>u DEF SessionsOK, RoomOK
<1>1. ASSUME NEW p \in Pairings, Custodian(p) PROVE SessionsOK' /\ RoomOK'
  <2>1. CASE Start(p)
    <3>0. 0 \in 0 .. MaxFailures
      BY PairingAssumption
    <3>1. [Absent EXCEPT !.status = "OPEN"] \in Sessions
      BY <3>0 DEF Absent, Sessions, Loaded
    <3>2. [Absent EXCEPT !.status = "OPEN"].failed < MaxFailures
      BY PairingAssumption DEF Absent
    <3>3. \E ok \in Saves : Store(p, [Absent EXCEPT !.status = "OPEN"], ok)
      BY <2>1 DEF Start
    <3> QED BY <1>0, <3>1, <3>2, <3>3, StoreType
  <2>2. Expired(p) \in Sessions /\ Expired(p).status = "EXPIRED"
    BY <1>a DEF Expired, Sessions, Ended
  <2>3. CASE ViewExpiring(p)
    BY <1>0, <2>2, <2>3, StoreType DEF ViewExpiring
  <2>4. CASE CancelExpiring(p)
    BY <1>0, <2>2, <2>4 DEF CancelExpiring, SessionsOK, RoomOK
  <2>5. CASE Cancel(p)
    <3>1. [session[p] EXCEPT !.status = "CANCELLED"] \in Sessions
          /\ [session[p] EXCEPT !.status = "CANCELLED"].status = "CANCELLED"
      BY <1>a DEF Sessions, Ended
    <3> QED BY <1>0, <2>5, <3>1, StoreType DEF Cancel
  <2>6. CASE Confirm(p)
    <3>1. [session[p] EXCEPT !.status = "CONFIRMED", !.secret = TRUE] \in Sessions
          /\ [session[p] EXCEPT !.status = "CONFIRMED", !.secret = TRUE].status = "CONFIRMED"
      BY <1>a DEF Sessions, Ended
    <3> QED BY <1>0, <2>6, <3>1, StoreType DEF Confirm
  <2> QED BY <1>1, <1>u, <2>1, <2>3, <2>4, <2>5, <2>6
          DEF Custodian, View, Create, Deadline, pairing
<1>2. ASSUME NEW c \in Connectors, Submission(c) PROVE SessionsOK' /\ RoomOK'
  <2>1. ASSUME NEW p \in Pairings, SubmitExpiring(c, p) PROVE SessionsOK' /\ RoomOK'
    <3>1. Expired(p) \in Sessions /\ Expired(p).status = "EXPIRED"
      BY <1>a DEF Expired, Sessions, Ended
    <3> QED BY <1>0, <2>1, <3>1, StoreType DEF SubmitExpiring
  <2>2. ASSUME NEW p \in Pairings, NEW i \in Identities, NEW stage, Submit(c, p, i, stage)
        PROVE SessionsOK' /\ RoomOK'
    <3> DEFINE s == [session[p] EXCEPT !.status = "CANDIDATE_SUBMITTED", !.candidate = i,
                                       !.owner = c]
    <3>1. s \in Sessions /\ s.status = "CANDIDATE_SUBMITTED"
      BY <1>a DEF Sessions, Loaded
    <3>2. \E ok \in Saves : Store(p, s, ok)
      BY <2>2 DEF Submit
    <3> HIDE DEF s
    <3> QED BY <1>0, <3>1, <3>2, StoreType
  <2> QED BY <1>2, <2>1, <2>2 DEF Submission
<1>3. ASSUME NEW c \in Connectors, Delivery(c) PROVE SessionsOK' /\ RoomOK'
  <2>1. CASE Consume(c)
    <3> DEFINE p == socket[c].pairing
               s == [session[p] EXCEPT !.delivered = TRUE, !.secret = FALSE]
    <3>1. p \in Pairings
      BY <2>1, PairingAssumption DEF Consume, TypeOK, RequestsOK, SessionsOK
    <3>2. s \in Sessions /\ s.status = "CONFIRMED"
      BY <1>a, <2>1, <3>1 DEF Consume, Sessions
    <3>3. \E ok \in Saves : Store(p, s, ok)
      BY <2>1 DEF Consume
    <3> HIDE DEF p, s
    <3> QED BY <1>0, <3>1, <3>2, <3>3, StoreType
  <2> QED BY <1>3, <1>u, <2>1 DEF Delivery, Send, Drop, pairing
<1>4. CASE WrongCode
  BY <1>0, <1>4, GuessType, GuessedSets
<1>5. ASSUME NEW g \in Registers, Registering(g) PROVE SessionsOK' /\ RoomOK'
  BY <1>5, <1>u DEF Registering, RegisterCheck, RegisterInsert, RegisterPublish, pairing
<1>6. ASSUME NEW r \in Rebinds, Rebinding(r) PROVE SessionsOK' /\ RoomOK'
  BY <1>6, <1>u DEF Rebinding, BindSet, BindRead, BindStore, pairing
<1>7. CASE Restart
  <2>1. Absent \in Sessions /\ Absent.status # "OPEN"
    BY PairingAssumption DEF Absent, Sessions
  <2> QED BY <1>0, <1>7, <2>1 DEF Restart, LoadedRow, SessionsOK, RoomOK
<1>8. CASE UNCHANGED vars
  BY <1>8, <1>u DEF vars, pairing
<1> QED BY <1>1, <1>2, <1>3, <1>4, <1>5, <1>6, <1>7, <1>8, Steps

LEMMA AccountsType ==
  ASSUME TypeOK, [Next]_vars PROVE AccountsOK'
<1>0. AccountsOK
  BY DEF TypeOK
<1>a. Keys = Pairings \cup Rebinds
  BY DEF Keys
<1>u. ASSUME UNCHANGED <<account, accountRow>> PROVE AccountsOK'
  BY <1>0, <1>u DEF AccountsOK
<1>1. ASSUME NEW p \in Pairings, Custodian(p) PROVE AccountsOK'
  <2>1. CASE Create(p)
    <3> DEFINE i == session[p].candidate
    <3>1. \/ UNCHANGED accounts
          \/ /\ accountRow' = [accountRow EXCEPT ![i] = [exists |-> TRUE, key |-> p]]
             /\ account' = [account EXCEPT ![i] = [exists |-> TRUE, key |-> p]]
      BY <2>1 DEF Create
    <3>2. [exists |-> TRUE, key |-> p] \in Accounts
      BY <1>a DEF Accounts
    <3> HIDE DEF i
    <3> QED BY <1>0, <1>u, <3>1, <3>2 DEF AccountsOK, accounts
  <2> QED BY <1>1, <1>u, <2>1 DEF Custodian, Start, ViewExpiring, View, CancelExpiring,
                                  Cancel, Confirm, Deadline, accounts
<1>2. ASSUME NEW c \in Connectors, Submission(c) \/ Delivery(c) PROVE AccountsOK'
  BY <1>2, <1>u DEF Submission, SubmitExpiring, Submit, Delivery, Consume, Send, Drop, accounts
<1>3. CASE WrongCode
  BY <1>3, <1>u DEF WrongCode, accounts
<1>4. ASSUME NEW g \in Registers, Registering(g) PROVE AccountsOK'
  <2>1. CASE RegisterInsert(g)
    <3>1. /\ account' = account
          /\ \/ accountRow' = accountRow
             \/ accountRow' = [accountRow EXCEPT ![register[g].identity].exists = TRUE]
      BY <2>1 DEF RegisterInsert
    <3>2. \A i \in Identities : [accountRow[i] EXCEPT !.exists = TRUE] \in Accounts
      BY <1>0 DEF AccountsOK, Accounts
    <3> QED BY <1>0, <3>1, <3>2 DEF AccountsOK
  <2>2. CASE RegisterPublish(g)
    BY <1>0, <2>2 DEF RegisterPublish, AccountsOK, Accounts
  <2> QED BY <1>4, <1>u, <2>1, <2>2 DEF Registering, RegisterCheck, accounts
<1>5. ASSUME NEW r \in Rebinds, Rebinding(r) PROVE AccountsOK'
  <2>1. ASSUME NEW i \in Identities, BindSet(r, i) PROVE AccountsOK'
    BY <1>0, <1>a, <2>1 DEF BindSet, AccountsOK, Accounts
  <2>2. CASE BindStore(r)
    <3>1. rebind[r].image \in Keys \cup {None}
      BY DEF TypeOK, RequestsOK
    <3>2. rebind[r].stage = "read" /\ rebind[r].identity \in Identities
      BY <2>2 DEF BindStore, TypeOK, RequestsOK
    <3>3. \/ accountRow' = [accountRow EXCEPT ![rebind[r].identity].key = rebind[r].image]
          \/ accountRow' = accountRow
      BY <2>2 DEF BindStore
    <3>4. account' = account
      BY <2>2 DEF BindStore
    <3> QED BY <1>0, <3>1, <3>2, <3>3, <3>4 DEF AccountsOK, Accounts
  <2> QED BY <1>5, <1>u, <2>1, <2>2 DEF Rebinding, BindRead, accounts
<1>6. CASE Restart
  BY <1>0, <1>6 DEF Restart, AccountsOK
<1>7. CASE UNCHANGED vars
  BY <1>7, <1>u DEF vars, accounts
<1> QED BY <1>1, <1>2, <1>3, <1>4, <1>5, <1>6, <1>7, Steps

LEMMA RequestsType ==
  ASSUME TypeOK, [Next]_vars PROVE RequestsOK'
<1> USE DEF RequestsOK
<1>0. RequestsOK /\ AccountsOK
  BY DEF TypeOK
<1>a. Keys = Pairings \cup Rebinds /\ \A i \in Identities : account[i].key \in Keys \cup {None}
                                         /\ accountRow[i].key \in Keys \cup {None}
  BY <1>0 DEF Keys, AccountsOK, Accounts
<1>u. ASSUME UNCHANGED <<confirming, socket, requests>> PROVE RequestsOK'
  BY <1>0, <1>u DEF requests
<1>1. ASSUME NEW p \in Pairings, Custodian(p) PROVE RequestsOK'
  <2>1. CASE Create(p)
    BY <1>0, <2>1 DEF Create, requests
  <2>2. CASE Confirm(p)
    BY <1>0, <2>2 DEF Confirm, requests
  <2> QED BY <1>1, <1>u, <2>1, <2>2 DEF Custodian, Start, ViewExpiring, View, CancelExpiring,
                                        Cancel, Deadline
<1>2. ASSUME NEW c \in Connectors, Submission(c) PROVE RequestsOK'
  <2>1. UNCHANGED <<confirming, requests>>
    BY <1>2 DEF Submission, SubmitExpiring, Submit
  <2>2. \E v \in {Closed} \cup [stage : {"waiting"}, pairing : Pairings] :
          socket' = [socket EXCEPT ![c] = v]
    <3>1. ASSUME NEW p \in Pairings, SubmitExpiring(c, p) PROVE socket' = [socket EXCEPT ![c] = Closed]
      BY <3>1 DEF SubmitExpiring
    <3>2. ASSUME NEW p \in Pairings, NEW i, NEW stage, Submit(c, p, i, stage)
          PROVE  \/ socket' = [socket EXCEPT ![c] = Closed]
                 \/ socket' = [socket EXCEPT ![c] = [stage |-> "waiting", pairing |-> p]]
      BY <3>2 DEF Submit
    <3>3. \A p \in Pairings : [stage |-> "waiting", pairing |-> p] \in
                               [stage : {"waiting"}, pairing : Pairings]
      OBVIOUS
    <3> QED BY <1>2, <3>1, <3>2, <3>3 DEF Submission
  <2>3. Closed \in [stage : {"new", "closed"}, pairing : {None}]
    BY DEF Closed
  <2> QED BY <1>0, <2>1, <2>2, <2>3 DEF requests
<1>3. ASSUME NEW c \in Connectors, Delivery(c) PROVE RequestsOK'
  BY <1>0, <1>3 DEF Delivery, Consume, Send, Drop, Closed, requests
<1>4. CASE WrongCode
  BY <1>4, <1>u DEF WrongCode
<1>5. ASSUME NEW g \in Registers, Registering(g) PROVE RequestsOK'
  BY <1>0, <1>5 DEF Registering, RegisterCheck, RegisterInsert, RegisterPublish, Over
<1>6. ASSUME NEW r \in Rebinds, Rebinding(r) PROVE RequestsOK'
  <2>1. ASSUME NEW i \in Identities, BindSet(r, i) PROVE RequestsOK'
    BY <1>0, <1>a, <2>1 DEF BindSet
  <2>2. CASE BindRead(r)
    <3>1. UNCHANGED <<confirming, socket, register>> /\ rebind[r].stage = "set"
          /\ rebind' = [rebind EXCEPT ![r] =
               [rebind[r] EXCEPT !.stage = "read", !.image = account[rebind[r].identity].key]]
      BY <2>2 DEF BindRead
    <3>2. account[rebind[r].identity].key \in Keys \cup {None}
      BY <1>0, <1>a, <3>1
    <3> DEFINE k == account[rebind[r].identity].key
    <3> HIDE DEF k
    <3>3. [rebind[r] EXCEPT !.stage = "read", !.image = k] \in
            [stage : {"new", "set", "read", "done", "failed"}, identity : Identities \cup {None},
             image : Keys \cup {None}, over : Keys \cup {None}]
      BY <1>0, <3>2 DEF k
    <3>4. [rebind[r] EXCEPT !.stage = "read", !.image = k].identity \in Identities
      BY <1>0, <3>1
    <3> QED BY <1>0, <3>1, <3>3, <3>4 DEF k
  <2>3. CASE BindStore(r)
    <3>1. PICK stage \in {"done", "failed"} :
            rebind' = [rebind EXCEPT ![r] = [rebind[r] EXCEPT !.stage = stage, !.image = None]]
      BY <2>3 DEF BindStore
    <3>2. UNCHANGED <<confirming, socket, register>> /\ rebind[r].stage = "read"
      BY <2>3 DEF BindStore
    <3>3. [rebind[r] EXCEPT !.stage = stage, !.image = None] \in
            [stage : {"new", "set", "read", "done", "failed"}, identity : Identities \cup {None},
             image : Keys \cup {None}, over : Keys \cup {None}]
      BY <1>0
    <3>4. [rebind[r] EXCEPT !.stage = stage, !.image = None].identity \in Identities
      BY <1>0, <3>2
    <3> QED BY <1>0, <3>1, <3>2, <3>3, <3>4
  <2> QED BY <1>6, <2>1, <2>2, <2>3 DEF Rebinding
<1>7. CASE Restart
  BY <1>0, <1>7 DEF Restart, Closed, Over
<1>8. CASE UNCHANGED vars
  BY <1>8, <1>u DEF vars
<1> QED BY <1>1, <1>2, <1>3, <1>4, <1>5, <1>6, <1>7, <1>8, Steps

LEMMA HistoryType ==
  ASSUME TypeOK, [Next]_vars PROVE HistoryOK'
<1> USE DEF HistoryOK
<1>0. HistoryOK /\ SessionsOK /\ RequestsOK
  BY DEF TypeOK
<1>a. \A p \in Pairings : session[p].candidate \in Identities \cup {None}
  BY <1>0 DEF SessionsOK, Sessions
<1>b. \A x, y \in Nat : x + y \in Nat
  OBVIOUS
<1>c. ASSUME NEW ok, Count(ok) PROVE faults' \in Nat
  BY <1>0, <1>c DEF Count
<1>d. ASSUME NEW p \in Pairings, NEW s, NEW ok, Store(p, s, ok)
      PROVE  faults' \in Nat /\ unsaved' \subseteq Pairings
  BY <1>0, <1>c, <1>d DEF Store
<1>1. ASSUME NEW p \in Pairings, Custodian(p) PROVE HistoryOK'
  <2>1. CASE Create(p)
    <3>1. session[p].candidate \in Identities /\ p \in Pairings
      BY <1>a, <2>1 DEF Create, Confirmable
    <3> DEFINE i == session[p].candidate
    <3>2. \/ UNCHANGED <<made, created>>
          \/ made' = [made EXCEPT ![p] = i] /\ created' = [created EXCEPT ![i] = @ + 1]
      BY <2>1 DEF Create, accounts
    <3>3. faults' \in Nat /\ UNCHANGED <<pairing, due, told, wrong, restarts>>
      BY <1>c, <2>1 DEF Create
    <3> HIDE DEF i
    <3> QED BY <1>0, <3>1, <3>2, <3>3 DEF i, pairing, told
  <2>2. CASE Start(p)
    BY <1>0, <1>d, <2>2 DEF Start, accounts
  <2>3. CASE ViewExpiring(p)
    BY <1>0, <1>d, <2>3 DEF ViewExpiring, accounts
  <2>4. CASE View(p)
    BY <1>0, <1>a, <2>4 DEF View, accounts, pairing
  <2>5. CASE CancelExpiring(p)
    BY <1>0, <2>5 DEF CancelExpiring, accounts, told
  <2>6. CASE Cancel(p)
    BY <1>0, <1>d, <2>6 DEF Cancel, accounts
  <2>7. CASE Confirm(p)
    BY <1>0, <1>d, <2>7 DEF Confirm, accounts, told
  <2>8. CASE Deadline(p)
    BY <1>0, <2>8 DEF Deadline, accounts, pairing, told
  <2> QED BY <1>1, <2>1, <2>2, <2>3, <2>4, <2>5, <2>6, <2>7, <2>8 DEF Custodian
<1>2. ASSUME NEW c \in Connectors, Submission(c) PROVE HistoryOK'
  <2>1. ASSUME NEW p \in Pairings, SubmitExpiring(c, p) PROVE HistoryOK'
    BY <1>0, <1>d, <2>1 DEF SubmitExpiring, accounts, told
  <2>2. ASSUME NEW p \in Pairings, NEW i, NEW stage, Submit(c, p, i, stage) PROVE HistoryOK'
    <3>1. faults' \in Nat /\ unsaved' \subseteq Pairings
      BY <1>d, <2>2 DEF Submit
    <3>2. accepted' = accepted \/ accepted' = [accepted EXCEPT ![p] = @ + 1]
      BY <1>0, <2>2 DEF Submit
    <3>3. UNCHANGED <<accounts, due, codes, seen, ended, guesses, held, wrong, restarts>>
      BY <2>2 DEF Submit
    <3> QED BY <1>0, <3>1, <3>2, <3>3 DEF accounts
  <2> QED BY <1>2, <2>1, <2>2 DEF Submission
<1>3. ASSUME NEW c \in Connectors, Delivery(c) PROVE HistoryOK'
  <2>0. socket[c].stage \in {"waiting", "sending"} => socket[c].pairing \in Pairings
    BY <1>0 DEF RequestsOK
  <2>1. CASE Consume(c)
    BY <1>0, <1>d, <2>0, <2>1 DEF Consume, accounts, told
  <2>2. CASE Send(c)
    BY <1>0, <2>0, <2>2 DEF Send, accounts, pairing
  <2>3. CASE Drop(c)
    BY <1>0, <2>3 DEF Drop, accounts, pairing, told
  <2> QED BY <1>3, <2>1, <2>2, <2>3 DEF Delivery
<1>4. CASE WrongCode
  <2>1. guesses' \in [Pairings -> Nat] /\ wrong' \in Nat
    BY <1>0, <1>4 DEF WrongCode
  <2>2. PICK S \in SUBSET OpenSessions, last \in SUBSET OpenSessions, ok \in Saves :
          SaveGuess(S, last, ok)
    BY <1>4, GuessedSets
  <2>3. faults' \in Nat
    BY <1>c, <2>2 DEF SaveGuess
  <2>4. unsaved' \subseteq Pairings
    BY <1>0, <2>2 DEF SaveGuess, OpenSessions
  <2> QED BY <1>0, <1>4, <2>1, <2>3, <2>4 DEF WrongCode, accounts
<1>5. ASSUME NEW g \in Registers, Registering(g) PROVE HistoryOK'
  <2>1. CASE RegisterInsert(g)
    <3>1. \/ created' = created
          \/ created' = [created EXCEPT ![register[g].identity] = @ + 1]
      BY <2>1 DEF RegisterInsert
    <3>2. faults' \in Nat
      BY <1>c, <2>1 DEF RegisterInsert
    <3>3. UNCHANGED <<pairing, made, due, told, wrong, restarts>>
      BY <2>1 DEF RegisterInsert
    <3> QED BY <1>0, <3>1, <3>2, <3>3 DEF pairing, told
  <2> QED BY <1>0, <1>5, <2>1 DEF Registering, RegisterCheck, RegisterPublish, pairing,
                                  accounts, told
<1>6. ASSUME NEW r \in Rebinds, Rebinding(r) PROVE HistoryOK'
  <2>1. faults' \in Nat
    BY <1>0, <1>c, <1>6 DEF Rebinding, BindSet, BindRead, BindStore
  <2>2. UNCHANGED <<pairing, made, created, due, told, wrong, restarts>>
    BY <1>6 DEF Rebinding, BindSet, BindRead, BindStore, accounts
  <2> QED BY <1>0, <2>1, <2>2 DEF pairing, told
<1>7. CASE Restart
  <2>1. restarts' = restarts + 1
        /\ UNCHANGED <<unsaved, made, created, due, told, wrong, faults>>
    BY <1>7 DEF Restart
  <2> QED BY <1>0, <2>1 DEF told
<1>8. CASE UNCHANGED vars
  BY <1>0, <1>8 DEF vars, pairing, accounts, told
<1> QED BY <1>1, <1>2, <1>3, <1>4, <1>5, <1>6, <1>7, <1>8, Steps

LEMMA InitType == Init => TypeOK /\ RoomOK
<1> SUFFICES ASSUME Init PROVE TypeOK /\ RoomOK
  OBVIOUS
<1>1. 0 \in 0 .. MaxFailures
  BY PairingAssumption
<1>2. SessionsOK /\ RoomOK
  BY <1>1 DEF Init, SessionsOK, RoomOK, Absent, Sessions
<1>3. AccountsOK
  BY DEF Init, AccountsOK, NoAccount, Accounts
<1>4. RequestsOK
  BY DEF Init, RequestsOK
<1>5. HistoryOK
  BY DEF Init, HistoryOK
<1> QED BY <1>2, <1>3, <1>4, <1>5 DEF TypeOK

LEMMA TypeInvariant == Spec => [](TypeOK /\ RoomOK)
<1>1. Init => TypeOK /\ RoomOK
  BY InitType
<1>2. TypeOK /\ RoomOK /\ [Next]_vars => (TypeOK /\ RoomOK)'
  BY SessionsType, AccountsType, RequestsType, HistoryType DEF TypeOK
<1> QED BY <1>1, <1>2, PTL DEF Spec

\* Memory and tables keep their types, and a session that can still be used has
\* not been exhausted by wrong codes.
THEOREM TypeCorrect == Spec => []TypeOK
BY TypeInvariant, PTL

-----------------------------------------------------------------------------
(* A code is taken once.                                                   *)

\* What saving a session, or failing to, does to every session and row.
LEMMA StoreEffect ==
  ASSUME SessionsOK, NEW p \in Pairings, NEW s \in Sessions, NEW ok, Store(p, s, ok),
         NEW q \in Pairings
  PROVE  /\ session'[q] = IF q = p THEN s ELSE session[q]
         /\ q # p => row'[q] = row[q]
         /\ row'[p] = row[p] \/ row'[p] = Stored(s)
         /\ q \notin unsaved' => q \notin unsaved
         /\ p \notin unsaved' => row'[p] = Stored(s)
         /\ Stored(s).status = s.status /\ Stored(s).candidate = s.candidate
  BY DEF SessionsOK, Store, Stored, Sessions

\* What charging wrong codes does to every session and row.
LEMMA GuessEffect ==
  ASSUME SessionsOK, RoomOK, WrongCode, NEW q \in Pairings
  PROVE  /\ \/ session'[q] = session[q] /\ row'[q] = row[q]
            \/ /\ session[q].status = "OPEN" /\ session'[q].status \in {"OPEN", "EXPIRED"}
               /\ session'[q].candidate = session[q].candidate
               /\ session'[q].secret = session[q].secret
               /\ \/ row'[q] = row[q] /\ q \in unsaved'
                  \/ /\ row'[q].status = session'[q].status
                     /\ row'[q].candidate = session'[q].candidate
         /\ q \notin unsaved' => q \notin unsaved
<1>1. PICK S \in SUBSET OpenSessions, last \in SUBSET OpenSessions, ok \in Saves :
        SaveGuess(S, last, ok)
  BY GuessedSets
<1>2. session'[q] = IF q \in S \cup last THEN Guessed(q) ELSE session[q]
  BY <1>1 DEF SaveGuess
<1>3. /\ row'[q] = row[q] \/ row'[q] = Stored(Guessed(q))
      /\ q \notin S \cup last => row'[q] = row[q]
      /\ q \in (S \cup last) \ unsaved' => row'[q] = Stored(Guessed(q))
  BY <1>1 DEF SaveGuess
<1>4. q \notin unsaved' => q \notin unsaved
  BY <1>1 DEF SaveGuess
<1>5. CASE q \notin S \cup last
  BY <1>2, <1>3, <1>4, <1>5
<1>6. CASE q \in S \cup last
  <2>1. q \in OpenSessions /\ session[q].status = "OPEN"
    BY <1>6 DEF OpenSessions
  <2>2. /\ Guessed(q) \in Sessions /\ Guessed(q).status \in {"OPEN", "EXPIRED"}
        /\ Guessed(q).candidate = session[q].candidate
        /\ Guessed(q).secret = session[q].secret
    BY <2>1, GuessedType
  <2>3. /\ Stored(Guessed(q)).status = Guessed(q).status
        /\ Stored(Guessed(q)).candidate = Guessed(q).candidate
    BY <2>2 DEF Stored, Sessions
  <2> QED BY <1>2, <1>3, <1>4, <1>6, <2>1, <2>2, <2>3
<1> QED BY <1>5, <1>6

\* The sessions the operations store.
LEMMA SessionForms ==
  ASSUME SessionsOK, NEW p \in Pairings
  PROVE  /\ session[p] \in Sessions
         /\ Expired(p) \in Sessions /\ Expired(p).status = "EXPIRED"
         /\ Expired(p).candidate = session[p].candidate
         /\ Expired(p).secret = session[p].secret
         /\ [session[p] EXCEPT !.status = "CANCELLED"] \in Sessions
         /\ [session[p] EXCEPT !.status = "CONFIRMED", !.secret = TRUE] \in Sessions
         /\ [session[p] EXCEPT !.delivered = TRUE, !.secret = FALSE] \in Sessions
         /\ [Absent EXCEPT !.status = "OPEN"] \in Sessions
         /\ Absent \in Sessions
<1>1. session[p] \in Sessions
  BY DEF SessionsOK
<1>2. 0 \in 0 .. MaxFailures
  BY PairingAssumption
<1>3. Expired(p) = [session[p] EXCEPT !.status = "EXPIRED"]
  BY DEF Expired
<1> QED BY <1>1, <1>2, <1>3 DEF Sessions, Absent, Loaded, Ended

LEMMA SubmittedForm ==
  ASSUME SessionsOK, NEW p \in Pairings, NEW i \in Identities, NEW c \in Connectors
  PROVE  [session[p] EXCEPT !.status = "CANDIDATE_SUBMITTED", !.candidate = i, !.owner = c]
           \in Sessions
<1>1. session[p] \in Sessions
  BY DEF SessionsOK
<1> QED BY <1>1 DEF Sessions, Loaded

LEMMA CodeStored ==
  ASSUME SessionsOK, CodeOK, NEW p \in Pairings, NEW s \in Sessions, NEW ok,
         Store(p, s, ok), s.status \notin {"NONE", "OPEN"}, accepted' = accepted
  PROVE  CodeOK'
  BY StoreEffect DEF CodeOK

LEMMA CodeKept ==
  ASSUME TypeOK, RoomOK, CodeOK, [Next]_vars PROVE CodeOK'
<1>0. SessionsOK /\ accepted \in [Pairings -> Nat] /\ RequestsOK
  BY DEF TypeOK, HistoryOK
<1>u. ASSUME UNCHANGED <<pairing, accepted>> PROVE CodeOK'
  BY <1>u DEF CodeOK, pairing
<1>1. ASSUME NEW p \in Pairings, Custodian(p) PROVE CodeOK'
  <2>1. CASE Start(p)
    <3>1. accepted[p] = 0 /\ accepted' = accepted
      BY <2>1 DEF Start, CodeOK, Absent
    <3> DEFINE s == [Absent EXCEPT !.status = "OPEN"]
    <3>2. PICK ok \in Saves : Store(p, s, ok)
      BY <2>1 DEF Start
    <3>3. s \in Sessions
      BY <1>0, SessionForms
    <3> HIDE DEF s
    <3>4. \A q \in Pairings : q # p => session'[q] = session[q] /\ row'[q] = row[q]
      BY <1>0, <3>2, <3>3, StoreEffect
    <3> QED BY <3>1, <3>4 DEF CodeOK
  <2>2. CASE ViewExpiring(p)
    BY <1>0, <2>2, SessionForms, CodeStored DEF ViewExpiring
  <2>3. CASE CancelExpiring(p)
    <3>1. session' = [session EXCEPT ![p] = Expired(p)] /\ row' = row /\ accepted' = accepted
      BY <2>3 DEF CancelExpiring, told
    <3> QED BY <1>0, <3>1, SessionForms DEF CodeOK, SessionsOK
  <2>4. CASE Cancel(p)
    <3>1. [session[p] EXCEPT !.status = "CANCELLED"].status = "CANCELLED"
      BY <1>0 DEF SessionsOK, Sessions
    <3> QED BY <1>0, <2>4, <3>1, SessionForms, CodeStored DEF Cancel
  <2>5. CASE Confirm(p)
    <3>1. [session[p] EXCEPT !.status = "CONFIRMED", !.secret = TRUE].status = "CONFIRMED"
      BY <1>0 DEF SessionsOK, Sessions
    <3> QED BY <1>0, <2>5, <3>1, SessionForms, CodeStored DEF Confirm, told
  <2> QED BY <1>1, <1>u, <2>1, <2>2, <2>3, <2>4, <2>5 DEF Custodian, View, Create, Deadline, told
<1>2. ASSUME NEW c \in Connectors, Submission(c) PROVE CodeOK'
  <2>1. ASSUME NEW p \in Pairings, SubmitExpiring(c, p) PROVE CodeOK'
    BY <1>0, <2>1, SessionForms, CodeStored DEF SubmitExpiring, told
  <2>2. ASSUME NEW p \in Pairings, NEW i \in Identities, NEW stage, Submit(c, p, i, stage)
        PROVE  CodeOK'
    <3> DEFINE s == [session[p] EXCEPT !.status = "CANDIDATE_SUBMITTED", !.candidate = i,
                                       !.owner = c]
    <3>1. s \in Sessions /\ s.status = "CANDIDATE_SUBMITTED"
      BY <1>0, SubmittedForm DEF SessionsOK, Sessions
    <3>2. PICK ok \in Saves :
            /\ Store(p, s, ok)
            /\ accepted' = [accepted EXCEPT ![p] = IF ok THEN @ + 1 ELSE @]
      BY <2>2 DEF Submit
    <3>3. accepted[p] = 0
      BY <2>2 DEF Submit, Usable, CodeOK
    <3>4. ok => row'[p] = Stored(s)
      BY <1>0, <3>2 DEF Store, SessionsOK
    <3> HIDE DEF s
    <3>5. ASSUME NEW q \in Pairings
          PROVE  /\ accepted'[q] \in {0, 1}
                 /\ accepted'[q] = 1 => /\ session'[q].status # "OPEN"
                                        /\ row'[q].status \notin {"NONE", "OPEN"}
      BY <1>0, <3>1, <3>2, <3>3, <3>4, StoreEffect DEF CodeOK
    <3> QED BY <3>5 DEF CodeOK
  <2> QED BY <1>2, <2>1, <2>2 DEF Submission
<1>3. ASSUME NEW c \in Connectors, Delivery(c) PROVE CodeOK'
  <2>1. CASE Consume(c)
    <3> DEFINE p == socket[c].pairing
               s == [session[p] EXCEPT !.delivered = TRUE, !.secret = FALSE]
    <3>1. p \in Pairings
      BY <1>0, <2>1 DEF Consume, RequestsOK
    <3>2. s \in Sessions /\ s.status = "CONFIRMED"
      BY <1>0, <2>1, <3>1, SessionForms DEF Consume, SessionsOK, Sessions
    <3>3. (\E ok \in Saves : Store(p, s, ok)) /\ accepted' = accepted
      BY <2>1 DEF Consume, told
    <3> HIDE DEF p, s
    <3> QED BY <1>0, <3>1, <3>2, <3>3, CodeStored
  <2> QED BY <1>3, <1>u, <2>1 DEF Delivery, Send, Drop, told
<1>4. CASE WrongCode
  BY <1>0, <1>4, GuessEffect DEF CodeOK, WrongCode
<1>5. ASSUME NEW g \in Registers, Registering(g) PROVE CodeOK'
  BY <1>5, <1>u DEF Registering, RegisterCheck, RegisterInsert, RegisterPublish, told
<1>6. ASSUME NEW r \in Rebinds, Rebinding(r) PROVE CodeOK'
  BY <1>6, <1>u DEF Rebinding, BindSet, BindRead, BindStore, told
<1>7. CASE Restart
  BY <1>7 DEF Restart, LoadedRow, Absent, CodeOK, told
<1>8. CASE UNCHANGED vars
  BY <1>8, <1>u DEF vars, told
<1> QED BY <1>1, <1>2, <1>3, <1>4, <1>5, <1>6, <1>7, <1>8, Steps

\* A device code is accepted from one connector at most, over any number of
\* restarts and failed saves.
THEOREM CodeIsTakenOnce == Spec => []CodeTakenOnce
<1>1. Init => CodeOK
  BY DEF Init, CodeOK
<1>2. TypeOK /\ RoomOK /\ CodeOK /\ [Next]_vars => CodeOK'
  BY CodeKept
<1>3. CodeOK => CodeTakenOnce
  BY DEF CodeOK, CodeTakenOnce
<1> QED BY <1>1, <1>2, <1>3, TypeInvariant, PTL DEF Spec

-----------------------------------------------------------------------------
(* One account per identity.                                               *)

LEMMA CountKept ==
  ASSUME TypeOK, CountOK, [Next]_vars PROVE CountOK'
<1>0. AccountsOK /\ RequestsOK /\ HistoryOK
  BY DEF TypeOK
<1>u. ASSUME UNCHANGED <<accountRow, created>> PROVE CountOK'
  BY <1>u DEF CountOK
<1>1. ASSUME NEW p \in Pairings, Create(p) PROVE CountOK'
  <2> DEFINE i == session[p].candidate
  <2>1. \/ UNCHANGED <<accountRow, created>>
        \/ /\ accountRow' = [accountRow EXCEPT ![i] = [exists |-> TRUE, key |-> p]]
           /\ created' = [created EXCEPT ![i] = @ + 1]
    BY <1>1 DEF Create, accounts
  <2>2. ~accountRow[i].exists
    BY <1>1 DEF Create
  <2> HIDE DEF i
  <2> QED BY <1>0, <1>u, <2>1, <2>2 DEF CountOK, AccountsOK, HistoryOK
<1>2. ASSUME NEW g \in Registers, RegisterInsert(g) PROVE CountOK'
  <2> DEFINE i == register[g].identity
  <2>1. \/ UNCHANGED <<accountRow, created>>
        \/ /\ accountRow' = [accountRow EXCEPT ![i].exists = TRUE]
           /\ created' = [created EXCEPT ![i] = @ + 1]
           /\ ~accountRow[i].exists
    BY <1>2 DEF RegisterInsert
  <2> HIDE DEF i
  <2> QED BY <1>0, <1>u, <2>1 DEF CountOK, AccountsOK, Accounts, HistoryOK
<1>3. ASSUME NEW r \in Rebinds, BindStore(r) PROVE CountOK'
  <2>1. /\ created' = created
        /\ \/ accountRow' = accountRow
           \/ accountRow' = [accountRow EXCEPT ![rebind[r].identity].key = rebind[r].image]
    BY <1>3 DEF BindStore
  <2> QED BY <1>0, <2>1 DEF CountOK, AccountsOK, Accounts
<1>4. ASSUME NEW p \in Pairings, Custodian(p) PROVE CountOK'
  BY <1>1, <1>4, <1>u DEF Custodian, Start, ViewExpiring, View, CancelExpiring, Cancel,
                          Confirm, Deadline, accounts
<1>5. ASSUME NEW c \in Connectors, Submission(c) \/ Delivery(c) PROVE CountOK'
  BY <1>5, <1>u DEF Submission, SubmitExpiring, Submit, Delivery, Consume, Send, Drop, accounts
<1>6. ASSUME NEW g \in Registers, Registering(g) PROVE CountOK'
  BY <1>2, <1>6, <1>u DEF Registering, RegisterCheck, RegisterPublish, accounts
<1>7. ASSUME NEW r \in Rebinds, Rebinding(r) PROVE CountOK'
  BY <1>3, <1>7, <1>u DEF Rebinding, BindSet, BindRead, accounts
<1>8. CASE WrongCode \/ Restart \/ UNCHANGED vars
  BY <1>8, <1>u DEF WrongCode, Restart, vars, accounts
<1> QED BY <1>4, <1>5, <1>6, <1>7, <1>8, Steps

\* One account is made of a broker identity at most, by whatever interleaving of
\* registrations and confirmations.
THEOREM AccountIsCreatedOnce == Spec => []CreatedOnce
<1>1. Init => CountOK
  BY DEF Init, CountOK, NoAccount
<1>2. TypeOK /\ CountOK /\ [Next]_vars => CountOK'
  BY CountKept
<1>3. CountOK => CreatedOnce
  BY DEF CountOK, CreatedOnce
<1> QED BY <1>1, <1>2, <1>3, TypeCorrect, PTL DEF Spec

-----------------------------------------------------------------------------
(* What is ended stays ended.                                              *)

LEMMA FinalStored ==
  ASSUME SessionsOK, FinalOK, NEW p \in Pairings, NEW s \in Sessions, NEW ok,
         Store(p, s, ok), s.status \notin {"NONE"} \cup Loaded, due' = due,
         ended' \subseteq ended \cup {p}
  PROVE  FinalOK'
<1>1. ASSUME NEW q \in Pairings \ unsaved'
      PROVE  /\ session'[q].status # "NONE" => row'[q].status # "NONE"
             /\ session'[q].status \in {"CANCELLED", "EXPIRED"} \/ q \in ended' =>
                  row'[q].status # "NONE" /\ (row'[q].status \in Loaded => q \in due')
             /\ q \in ended' => (session'[q].status \in Loaded => q \in due')
  <2>1. CASE q = p
    BY <1>1, <2>1, StoreEffect
  <2>2. CASE q # p
    BY <1>1, <2>2, StoreEffect DEF FinalOK, Stopped
  <2> QED BY <2>1, <2>2
<1> QED BY <1>1 DEF FinalOK, Stopped

LEMMA FinalKept ==
  ASSUME TypeOK, RoomOK, FinalOK, [Next]_vars PROVE FinalOK'
<1>0. SessionsOK /\ RequestsOK
  BY DEF TypeOK
<1>u. ASSUME UNCHANGED <<pairing, due, ended>> PROVE FinalOK'
  BY <1>u DEF FinalOK, Stopped, pairing
<1>1. ASSUME NEW p \in Pairings, Custodian(p) PROVE FinalOK'
  <2>1. CASE Start(p)
    <3>1. p \notin unsaved /\ row[p].status = "NONE" /\ UNCHANGED <<due, ended>>
      BY <2>1 DEF Start
    <3>2. p \notin ended
      BY <3>1 DEF FinalOK
    <3> DEFINE s == [Absent EXCEPT !.status = "OPEN"]
    <3>3. PICK ok \in Saves : Store(p, s, ok)
      BY <2>1 DEF Start
    <3>4. s \in Sessions /\ s.status = "OPEN"
      BY <1>0, SessionForms DEF Absent
    <3> HIDE DEF s
    <3>5. \A q \in Pairings : q # p => session'[q] = session[q] /\ row'[q] = row[q]
      BY <1>0, <3>3, <3>4, StoreEffect
    <3>6. /\ session'[p] = s
          /\ p \notin unsaved' => row'[p].status = "OPEN"
          /\ \A q \in Pairings : q \notin unsaved' => q \notin unsaved
      BY <1>0, <3>3, <3>4, StoreEffect
    <3> QED BY <3>1, <3>2, <3>4, <3>5, <3>6 DEF FinalOK, Stopped
  <2>2. CASE ViewExpiring(p)
    BY <1>0, <2>2, SessionForms, FinalStored DEF ViewExpiring, Loaded
  <2>3. CASE View(p)
    <3>1. UNCHANGED <<pairing, due>>
          /\ ended' \subseteq ended \cup
               (IF session[p].status \in {"CANCELLED", "EXPIRED"} THEN {p} ELSE {})
      BY <2>3 DEF View
    <3> QED BY <3>1 DEF FinalOK, Stopped, Loaded, pairing
  <2>4. CASE CancelExpiring(p)
    <3>1. /\ session' = [session EXCEPT ![p] = Expired(p)]
          /\ UNCHANGED <<row, unsaved, due, ended>>
          /\ p \in due /\ session[p].status # "NONE"
      BY <2>4 DEF CancelExpiring, Expiring, Loaded, told
    <3> QED BY <1>0, <3>1, SessionForms DEF FinalOK, Stopped, SessionsOK, Loaded
  <2>5. CASE Cancel(p)
    <3>1. [session[p] EXCEPT !.status = "CANCELLED"].status = "CANCELLED"
      BY <1>0 DEF SessionsOK, Sessions
    <3> QED BY <1>0, <2>5, <3>1, SessionForms, FinalStored DEF Cancel, Loaded
  <2>6. CASE Confirm(p)
    <3>1. [session[p] EXCEPT !.status = "CONFIRMED", !.secret = TRUE].status = "CONFIRMED"
      BY <1>0 DEF SessionsOK, Sessions
    <3> QED BY <1>0, <2>6, <3>1, SessionForms, FinalStored DEF Confirm, told, Loaded
  <2>7. CASE Deadline(p)
    BY <2>7 DEF Deadline, FinalOK, Stopped, pairing, told
  <2> QED BY <1>1, <1>u, <2>1, <2>2, <2>3, <2>4, <2>5, <2>6, <2>7 DEF Custodian, Create, told
<1>2. ASSUME NEW c \in Connectors, Submission(c) PROVE FinalOK'
  <2>1. ASSUME NEW p \in Pairings, SubmitExpiring(c, p) PROVE FinalOK'
    BY <1>0, <2>1, SessionForms, FinalStored DEF SubmitExpiring, told, Loaded
  <2>2. ASSUME NEW p \in Pairings, NEW i \in Identities, NEW stage, Submit(c, p, i, stage)
        PROVE  FinalOK'
    <3> DEFINE s == [session[p] EXCEPT !.status = "CANDIDATE_SUBMITTED", !.candidate = i,
                                       !.owner = c]
    <3>1. s \in Sessions /\ s.status = "CANDIDATE_SUBMITTED"
      BY <1>0, SubmittedForm DEF SessionsOK, Sessions
    <3>2. PICK ok \in Saves : Store(p, s, ok)
      BY <2>2 DEF Submit
    <3>3. session[p].status = "OPEN" /\ p \notin due /\ UNCHANGED <<due, ended>>
      BY <2>2 DEF Submit, Usable, Expiring, Loaded
    <3> HIDE DEF s
    <3>4. \A q \in Pairings : q # p => session'[q] = session[q] /\ row'[q] = row[q]
      BY <1>0, <3>1, <3>2, StoreEffect
    <3>5. /\ session'[p] = s
          /\ p \notin unsaved' => row'[p].status = "CANDIDATE_SUBMITTED"
          /\ \A q \in Pairings : q \notin unsaved' => q \notin unsaved
      BY <1>0, <3>1, <3>2, StoreEffect
    <3>6. p \notin unsaved => p \notin ended
      BY <3>3 DEF FinalOK, Stopped, Loaded
    <3> QED BY <3>1, <3>3, <3>4, <3>5, <3>6 DEF FinalOK, Stopped
  <2> QED BY <1>2, <2>1, <2>2 DEF Submission
<1>3. ASSUME NEW c \in Connectors, Delivery(c) PROVE FinalOK'
  <2>1. CASE Consume(c)
    <3> DEFINE p == socket[c].pairing
               s == [session[p] EXCEPT !.delivered = TRUE, !.secret = FALSE]
    <3>1. p \in Pairings
      BY <1>0, <2>1 DEF Consume, RequestsOK
    <3>2. s \in Sessions /\ s.status = "CONFIRMED"
      BY <1>0, <2>1, <3>1, SessionForms DEF Consume, SessionsOK, Sessions
    <3>3. (\E ok \in Saves : Store(p, s, ok)) /\ UNCHANGED <<due, ended>>
      BY <2>1 DEF Consume, told
    <3> HIDE DEF p, s
    <3> QED BY <1>0, <3>1, <3>2, <3>3, FinalStored DEF Loaded
  <2> QED BY <1>3, <1>u, <2>1 DEF Delivery, Send, Drop, told
<1>4. CASE WrongCode
  BY <1>0, <1>4, GuessEffect DEF FinalOK, Stopped, Loaded, WrongCode
<1>5. ASSUME NEW g \in Registers, Registering(g) PROVE FinalOK'
  BY <1>5, <1>u DEF Registering, RegisterCheck, RegisterInsert, RegisterPublish, told
<1>6. ASSUME NEW r \in Rebinds, Rebinding(r) PROVE FinalOK'
  BY <1>6, <1>u DEF Rebinding, BindSet, BindRead, BindStore, told
<1>7. CASE Restart
  BY <1>7 DEF Restart, LoadedRow, Absent, FinalOK, Stopped, Loaded, told
<1>8. CASE UNCHANGED vars
  BY <1>8, <1>u DEF vars, told
<1> QED BY <1>1, <1>2, <1>3, <1>4, <1>5, <1>6, <1>7, <1>8, Steps

LEMMA EndedMakesNothing ==
  ASSUME TypeOK, FinalOK, [Next]_vars, NEW p \in Pairings, p \in ended \ unsaved
  PROVE  made'[p] = made[p]
<1>1. ASSUME NEW q \in Pairings, Create(q) PROVE made'[p] = made[p]
  <2>1. q # p
    BY <1>1 DEF FinalOK, Stopped, Create, Confirmable, Expiring, Loaded
  <2>2. \/ made' = made
        \/ made' = [made EXCEPT ![q] = session[q].candidate]
    BY <1>1 DEF Create, accounts
  <2>3. made \in [Pairings -> Identities \cup {None}]
    BY DEF TypeOK, HistoryOK
  <2> QED BY <2>1, <2>2, <2>3
<1>2. ASSUME NEW q \in Pairings, Custodian(q) PROVE made'[p] = made[p]
  BY <1>1, <1>2 DEF Custodian, Start, ViewExpiring, View, CancelExpiring, Cancel, Confirm,
                    Deadline, accounts
<1>3. CASE made' = made
  BY <1>3
<1>4. ASSUME NEW c \in Connectors, Submission(c) \/ Delivery(c) PROVE made' = made
  BY <1>4 DEF Submission, SubmitExpiring, Submit, Delivery, Consume, Send, Drop, accounts
<1>5. ASSUME NEW g \in Registers, Registering(g) PROVE made' = made
  BY <1>5 DEF Registering, RegisterCheck, RegisterInsert, RegisterPublish, accounts
<1>6. ASSUME NEW r \in Rebinds, Rebinding(r) PROVE made' = made
  BY <1>6 DEF Rebinding, BindSet, BindRead, BindStore, accounts
<1>7. ASSUME WrongCode \/ Restart \/ UNCHANGED vars PROVE made' = made
  BY <1>7 DEF WrongCode, Restart, vars, accounts
<1> QED BY <1>2, <1>3, <1>4, <1>5, <1>6, <1>7, Steps

\* A pairing the custodian was told is cancelled or expired makes no account,
\* in this process or a later one, unless a save of it failed.
THEOREM EndedStaysEnded == Spec => EndedIsFinal
<1>1. Init => FinalOK
  BY DEF Init, FinalOK, Absent
<1>2. TypeOK /\ RoomOK /\ FinalOK /\ [Next]_vars => FinalOK'
  BY FinalKept
<1>3. TypeOK /\ FinalOK /\ [Next]_vars => [\A p \in ended \ unsaved : made'[p] = made[p]]_vars
  BY EndedMakesNothing DEF TypeOK, HistoryOK
<1> QED BY <1>1, <1>2, <1>3, TypeInvariant, PTL DEF Spec, EndedIsFinal

-----------------------------------------------------------------------------
(* What is confirmed is what was seen.                                     *)

LEMMA LockKept ==
  ASSUME TypeOK, LockOK, [Next]_vars PROVE LockOK'
<1>u. ASSUME UNCHANGED <<pairing, confirming>> PROVE LockOK'
  BY <1>u DEF LockOK, pairing
<1>f. ASSUME confirming' = None PROVE LockOK'
  BY <1>f DEF LockOK
<1>1. ASSUME NEW p \in Pairings, Custodian(p) PROVE LockOK'
  <2>1. CASE Create(p)
    <3>1. confirming' \in {None, p} /\ session' = session
          /\ session[p].status = "CANDIDATE_SUBMITTED"
      BY <2>1 DEF Create, Confirmable, Free, pairing
    <3> QED BY <3>1 DEF LockOK
  <2>2. CASE Confirm(p)
    BY <2>2, <1>f DEF Confirm
  <2> QED BY <1>1, <1>u, <1>f, <2>1, <2>2 DEF Custodian, Free, Start, ViewExpiring, View,
                                           CancelExpiring, Cancel, Deadline
<1>2. ASSUME NEW c \in Connectors, Submission(c) \/ Delivery(c) PROVE LockOK'
  BY <1>2, <1>u, <1>f DEF Submission, SubmitExpiring, Submit, Delivery, Consume, Send, Drop, Free
<1>3. ASSUME NEW g \in Registers, Registering(g) PROVE LockOK'
  BY <1>3, <1>u DEF Registering, RegisterCheck, RegisterInsert, RegisterPublish
<1>4. ASSUME NEW r \in Rebinds, Rebinding(r) PROVE LockOK'
  BY <1>4, <1>u DEF Rebinding, BindSet, BindRead, BindStore
<1>5. CASE WrongCode \/ Restart \/ UNCHANGED vars
  BY <1>5, <1>u, <1>f DEF WrongCode, Free, Restart, vars
<1> QED BY <1>1, <1>2, <1>3, <1>4, <1>5, Steps

LEMMA SeenStored ==
  ASSUME SessionsOK, SeenOK, NEW p \in Pairings, NEW s \in Sessions, NEW ok,
         Store(p, s, ok), s.status \notin {"NONE", "OPEN"}, session[p].status # "NONE",
         s.candidate = session[p].candidate, UNCHANGED <<seen, made>>
  PROVE  SeenOK'
<1>1. ASSUME NEW q \in Pairings \ unsaved'
      PROVE  /\ session'[q].status = "NONE" \/ session'[q].candidate = row'[q].candidate
             /\ session'[q].status = "OPEN" \/ row'[q].status \in {"NONE", "OPEN"}
                  => row'[q].candidate = None
             /\ seen'[q] \in {None, row'[q].candidate}
             /\ made'[q] \in {None, seen'[q]}
  <2>1. CASE q = p
    <3>1. /\ session'[p] = s /\ row'[p].candidate = s.candidate /\ row'[p].status = s.status
          /\ p \notin unsaved
      BY <1>1, <2>1, StoreEffect
    <3>2. row[p].candidate = s.candidate
      BY <3>1 DEF SeenOK
    <3> QED BY <2>1, <3>1, <3>2 DEF SeenOK
  <2>2. CASE q # p
    BY <1>1, <2>2, StoreEffect DEF SeenOK
  <2> QED BY <2>1, <2>2
<1> QED BY <1>1 DEF SeenOK

LEMMA SeenKept ==
  ASSUME TypeOK, RoomOK, LockOK, SeenOK, [Next]_vars PROVE SeenOK'
<1>0. SessionsOK /\ RequestsOK /\ HistoryOK
  BY DEF TypeOK
<1>u. ASSUME UNCHANGED <<pairing, seen, made>> PROVE SeenOK'
  BY <1>u DEF SeenOK, pairing
<1>1. ASSUME NEW p \in Pairings, Custodian(p) PROVE SeenOK'
  <2>1. CASE Start(p)
    <3>1. p \notin unsaved /\ row[p].status = "NONE" /\ UNCHANGED <<seen, made>>
      BY <2>1 DEF Start, accounts
    <3>2. seen[p] = None /\ made[p] = None
      BY <3>1 DEF SeenOK
    <3> DEFINE s == [Absent EXCEPT !.status = "OPEN"]
    <3>3. PICK ok \in Saves : Store(p, s, ok)
      BY <2>1 DEF Start
    <3>4. s \in Sessions /\ s.candidate = None
      BY <1>0, SessionForms DEF Absent
    <3> HIDE DEF s
    <3>5. \A q \in Pairings : q # p => session'[q] = session[q] /\ row'[q] = row[q]
      BY <1>0, <3>3, <3>4, StoreEffect
    <3>6. /\ session'[p] = s
          /\ p \notin unsaved' => row'[p].candidate = None
          /\ \A q \in Pairings : q \notin unsaved' => q \notin unsaved
      BY <1>0, <3>3, <3>4, StoreEffect
    <3> QED BY <3>1, <3>2, <3>4, <3>5, <3>6 DEF SeenOK
  <2>2. CASE ViewExpiring(p)
    <3>1. session[p].status # "NONE" /\ UNCHANGED <<seen, made>>
      BY <2>2 DEF ViewExpiring, Expiring, Loaded, accounts
    <3> QED BY <1>0, <2>2, <3>1, SessionForms, SeenStored DEF ViewExpiring
  <2>3. CASE View(p)
    <3>1. /\ UNCHANGED <<pairing, made>> /\ session[p].status # "NONE"
          /\ seen' = [seen EXCEPT ![p] = session[p].candidate]
      BY <2>3 DEF View, accounts
    <3> QED BY <1>0, <3>1 DEF SeenOK, HistoryOK, pairing
  <2>4. CASE CancelExpiring(p)
    <3>1. /\ session' = [session EXCEPT ![p] = Expired(p)] /\ session[p].status # "NONE"
          /\ UNCHANGED <<row, unsaved, seen, made>>
      BY <2>4 DEF CancelExpiring, Expiring, Loaded, accounts, told
    <3> QED BY <1>0, <3>1, SessionForms DEF SeenOK, SessionsOK
  <2>5. CASE Cancel(p)
    <3>1. /\ [session[p] EXCEPT !.status = "CANCELLED"].status = "CANCELLED"
          /\ [session[p] EXCEPT !.status = "CANCELLED"].candidate = session[p].candidate
      BY <1>0 DEF SessionsOK, Sessions
    <3>2. session[p].status # "NONE" /\ UNCHANGED <<seen, made>>
      BY <2>5 DEF Cancel, Loaded, accounts
    <3> QED BY <1>0, <2>5, <3>1, <3>2, SessionForms, SeenStored DEF Cancel
  <2>6. CASE Create(p)
    <3> DEFINE i == session[p].candidate
    <3>1. \/ made' = made
          \/ made' = [made EXCEPT ![p] = i]
      BY <2>6 DEF Create, accounts
    <3>2. seen[p] # None /\ session[p].status = "CANDIDATE_SUBMITTED"
          /\ UNCHANGED <<pairing, seen>>
      BY <2>6 DEF Create, Confirmable, told
    <3>3. p \notin unsaved => i = seen[p]
      BY <3>2 DEF SeenOK
    <3> HIDE DEF i
    <3> QED BY <1>0, <3>1, <3>2, <3>3 DEF SeenOK, HistoryOK, pairing
  <2>7. CASE Confirm(p)
    <3> DEFINE s == [session[p] EXCEPT !.status = "CONFIRMED", !.secret = TRUE]
    <3>1. /\ s \in Sessions /\ s.status = "CONFIRMED"
          /\ s.candidate = session[p].candidate
      BY <1>0, SessionForms DEF SessionsOK, Sessions
    <3>2. (\E ok \in Saves : Store(p, s, ok)) /\ UNCHANGED <<seen, made>>
      BY <2>7 DEF Confirm, accounts, told
    <3>3. session[p].status # "NONE"
      BY <2>7, PairingAssumption DEF Confirm, LockOK
    <3> HIDE DEF s
    <3> QED BY <1>0, <3>1, <3>2, <3>3, SeenStored
  <2> QED BY <1>1, <1>u, <2>1, <2>2, <2>3, <2>4, <2>5, <2>6, <2>7
          DEF Custodian, Deadline, accounts, told
<1>2. ASSUME NEW c \in Connectors, Submission(c) PROVE SeenOK'
  <2>1. ASSUME NEW p \in Pairings, SubmitExpiring(c, p) PROVE SeenOK'
    <3>1. session[p].status # "NONE" /\ UNCHANGED <<seen, made>>
      BY <2>1 DEF SubmitExpiring, Expiring, Loaded, accounts, told
    <3> QED BY <1>0, <2>1, <3>1, SessionForms, SeenStored DEF SubmitExpiring
  <2>2. ASSUME NEW p \in Pairings, NEW i \in Identities, NEW stage, Submit(c, p, i, stage)
        PROVE  SeenOK'
    <3> DEFINE s == [session[p] EXCEPT !.status = "CANDIDATE_SUBMITTED", !.candidate = i,
                                       !.owner = c]
    <3>1. s \in Sessions /\ s.status = "CANDIDATE_SUBMITTED" /\ s.candidate = i
      BY <1>0, SubmittedForm DEF SessionsOK, Sessions
    <3>2. PICK ok \in Saves : Store(p, s, ok)
      BY <2>2 DEF Submit
    <3>3. session[p].status = "OPEN" /\ UNCHANGED <<seen, made>>
      BY <2>2 DEF Submit, Usable, accounts
    <3> HIDE DEF s
    <3>4. \A q \in Pairings : q # p => session'[q] = session[q] /\ row'[q] = row[q]
      BY <1>0, <3>1, <3>2, StoreEffect
    <3>5. /\ session'[p] = s
          /\ p \notin unsaved' => row'[p].candidate = i /\ row'[p].status = "CANDIDATE_SUBMITTED"
          /\ \A q \in Pairings : q \notin unsaved' => q \notin unsaved
      BY <1>0, <3>1, <3>2, StoreEffect
    <3>6. p \notin unsaved => seen[p] = None /\ made[p] = None
      BY <3>3 DEF SeenOK
    <3> QED BY <3>1, <3>3, <3>4, <3>5, <3>6 DEF SeenOK
  <2> QED BY <1>2, <2>1, <2>2 DEF Submission
<1>3. ASSUME NEW c \in Connectors, Delivery(c) PROVE SeenOK'
  <2>1. CASE Consume(c)
    <3> DEFINE p == socket[c].pairing
               s == [session[p] EXCEPT !.delivered = TRUE, !.secret = FALSE]
    <3>1. p \in Pairings /\ session[p].status # "NONE"
      BY <1>0, <2>1 DEF Consume, RequestsOK
    <3>2. s \in Sessions /\ s.status = "CONFIRMED" /\ s.candidate = session[p].candidate
      BY <1>0, <2>1, <3>1, SessionForms DEF Consume, SessionsOK, Sessions
    <3>3. (\E ok \in Saves : Store(p, s, ok)) /\ UNCHANGED <<seen, made>>
      BY <2>1 DEF Consume, accounts, told
    <3> HIDE DEF p, s
    <3> QED BY <1>0, <3>1, <3>2, <3>3, SeenStored
  <2> QED BY <1>3, <1>u, <2>1 DEF Delivery, Send, Drop, accounts, told
<1>4. CASE WrongCode
  <2>1. UNCHANGED <<seen, made>>
    BY <1>4 DEF WrongCode, accounts
  <2>2. ASSUME NEW q \in Pairings \ unsaved'
        PROVE  /\ session'[q].status = "NONE" \/ session'[q].candidate = row'[q].candidate
               /\ session'[q].status = "OPEN" \/ row'[q].status \in {"NONE", "OPEN"}
                    => row'[q].candidate = None
               /\ seen'[q] \in {None, row'[q].candidate}
               /\ made'[q] \in {None, seen'[q]}
    <3>1. q \notin unsaved
      BY <1>0, <1>4, <2>2, GuessEffect
    <3>2. CASE session'[q] = session[q] /\ row'[q] = row[q]
      BY <2>1, <3>1, <3>2 DEF SeenOK
    <3>3. CASE /\ session[q].status = "OPEN"
               /\ session'[q].candidate = session[q].candidate
               /\ row'[q].candidate = session'[q].candidate
      BY <2>1, <3>1, <3>3 DEF SeenOK
    <3> QED BY <1>0, <1>4, <2>2, <3>2, <3>3, GuessEffect
  <2> QED BY <2>2 DEF SeenOK
<1>5. ASSUME NEW g \in Registers, Registering(g) PROVE SeenOK'
  BY <1>5, <1>u DEF Registering, RegisterCheck, RegisterInsert, RegisterPublish, accounts, told
<1>6. ASSUME NEW r \in Rebinds, Rebinding(r) PROVE SeenOK'
  BY <1>6, <1>u DEF Rebinding, BindSet, BindRead, BindStore, accounts, told
<1>7. CASE Restart
  BY <1>7 DEF Restart, LoadedRow, Absent, SeenOK, Loaded, told
<1>8. CASE UNCHANGED vars
  BY <1>8, <1>u DEF vars, accounts, told
<1> QED BY <1>1, <1>2, <1>3, <1>4, <1>5, <1>6, <1>7, <1>8, Steps

\* The account a confirmation makes is the candidate the custodian was shown,
\* unless a save of the session failed.
THEOREM ConfirmsWhatWasSeen == Spec => []ConfirmedAsSeen
<1>1. Init => LockOK /\ SeenOK
  BY DEF Init, LockOK, SeenOK, Absent
<1>2. TypeOK /\ RoomOK /\ LockOK /\ SeenOK /\ [Next]_vars => LockOK' /\ SeenOK'
  BY LockKept, SeenKept
<1>3. SeenOK => ConfirmedAsSeen
  BY DEF SeenOK, ConfirmedAsSeen
<1> QED BY <1>1, <1>2, <1>3, TypeInvariant, PTL DEF Spec

-----------------------------------------------------------------------------
(* Keys.                                                                   *)

LEMMA KeySteps ==
  ASSUME [Next]_vars
  PROVE  \/ \E p \in Pairings : Create(p)
         \/ \E g \in Registers : Registering(g)
         \/ \E r \in Rebinds : Rebinding(r)
         \/ Restart
         \/ UNCHANGED <<accounts, requests>>
<1>1. ASSUME NEW p \in Pairings, Custodian(p)
      PROVE  Create(p) \/ UNCHANGED <<accounts, requests>>
  BY <1>1 DEF Custodian, Start, ViewExpiring, View, CancelExpiring, Cancel, Confirm, Deadline
<1>2. ASSUME NEW c \in Connectors, Submission(c) \/ Delivery(c)
      PROVE  UNCHANGED <<accounts, requests>>
  BY <1>2 DEF Submission, SubmitExpiring, Submit, Delivery, Consume, Send, Drop
<1>3. ASSUME WrongCode \/ UNCHANGED vars PROVE UNCHANGED <<accounts, requests>>
  BY <1>3 DEF WrongCode, vars
<1> QED BY <1>1, <1>2, <1>3, Steps

\* What the steps that touch accounts and calls do.
LEMMA CreateEffect ==
  ASSUME TypeOK, NEW p \in Pairings, Create(p), ~UNCHANGED accounts
  PROVE  \E i \in Identities :
           /\ ~account[i].exists /\ ~accountRow[i].exists
           /\ accountRow' = [accountRow EXCEPT ![i] = [exists |-> TRUE, key |-> p]]
           /\ account' = [account EXCEPT ![i] = [exists |-> TRUE, key |-> p]]
           /\ made' = [made EXCEPT ![p] = i]
<1>1. session[p].candidate \in Identities
  BY DEF TypeOK, SessionsOK, Sessions, Create, Confirmable
<1> QED BY <1>1 DEF Create

LEMMA RestartEffect ==
  ASSUME TypeOK, Restart
  PROVE  /\ account' = accountRow /\ UNCHANGED <<accountRow, made>>
         /\ \A g \in Registers : register'[g].stage \in {"new", "done"}
         /\ \A r \in Rebinds :
              /\ rebind'[r].identity = rebind[r].identity /\ rebind'[r].over = rebind[r].over
              /\ rebind'[r].image \in {rebind[r].image, None}
              /\ rebind'[r].stage \in {"new", "done", "failed"}
              /\ rebind'[r].stage \in {"new", "done"} => rebind'[r].stage = rebind[r].stage
              /\ rebind[r].stage = "new" => rebind'[r].stage = "new"
<1>1. ASSUME NEW g \in Registers PROVE register'[g].stage \in {"new", "done"}
  BY DEF Restart, Over, TypeOK, RequestsOK
<1>2. ASSUME NEW r \in Rebinds
      PROVE  /\ rebind'[r].identity = rebind[r].identity /\ rebind'[r].over = rebind[r].over
             /\ rebind'[r].image \in {rebind[r].image, None}
             /\ rebind'[r].stage \in {"new", "done", "failed"}
             /\ rebind'[r].stage \in {"new", "done"} => rebind'[r].stage = rebind[r].stage
             /\ rebind[r].stage = "new" => rebind'[r].stage = "new"
  <2>1. rebind'[r] = IF rebind[r].stage \in {"set", "read"}
                     THEN [rebind[r] EXCEPT !.stage = "failed", !.image = None]
                     ELSE rebind[r]
    BY DEF Restart
  <2>2. rebind[r] \in [stage : {"new", "set", "read", "done", "failed"},
                       identity : Identities \cup {None},
                       image : Keys \cup {None}, over : Keys \cup {None}]
    BY DEF TypeOK, RequestsOK
  <2> QED BY <2>1, <2>2
<1> QED BY <1>1, <1>2 DEF Restart

LEMMA BindStoreEffect ==
  ASSUME TypeOK, NEW r \in Rebinds, BindStore(r)
  PROVE  /\ rebind[r].stage = "read" /\ rebind[r].identity \in Identities
         /\ UNCHANGED <<account, made, register>>
         /\ \A q \in Rebinds :
              /\ rebind'[q].identity = rebind[q].identity /\ rebind'[q].over = rebind[q].over
              /\ rebind'[q].image \in {rebind[q].image, None}
              /\ rebind'[q].stage \in IF q = r THEN {"done", "failed"} ELSE {rebind[q].stage}
         /\ \A i \in Identities :
              /\ accountRow'[i].exists <=> accountRow[i].exists
              /\ \/ accountRow'[i].key = accountRow[i].key
                 \/ i = rebind[r].identity /\ accountRow'[i].key = rebind[r].image
         /\ rebind'[r].stage = "done" =>
              accountRow'[rebind[r].identity].key = rebind[r].image
<1>1. rebind \in [Rebinds -> [stage : {"new", "set", "read", "done", "failed"},
                              identity : Identities \cup {None},
                              image : Keys \cup {None}, over : Keys \cup {None}]]
  BY DEF TypeOK, RequestsOK
<1>2. accountRow \in [Identities -> Accounts]
  BY DEF TypeOK, AccountsOK
<1>3. rebind[r].stage = "read" /\ rebind[r].identity \in Identities
  BY DEF BindStore, TypeOK, RequestsOK
<1>4. PICK stored \in Saves, answered \in Saves :
        /\ answered => stored
        /\ accountRow' = IF stored
                         THEN [accountRow EXCEPT ![rebind[r].identity].key = rebind[r].image]
                         ELSE accountRow
        /\ rebind' = [rebind EXCEPT ![r] =
               [@ EXCEPT !.stage = IF answered THEN "done" ELSE "failed", !.image = None]]
  BY DEF BindStore
<1>5. ASSUME NEW q \in Rebinds
      PROVE  /\ rebind'[q].identity = rebind[q].identity /\ rebind'[q].over = rebind[q].over
             /\ rebind'[q].image \in {rebind[q].image, None}
             /\ rebind'[q].stage \in IF q = r THEN {"done", "failed"} ELSE {rebind[q].stage}
  BY <1>1, <1>4
<1>6. ASSUME NEW i \in Identities
      PROVE  /\ accountRow'[i].exists <=> accountRow[i].exists
             /\ \/ accountRow'[i].key = accountRow[i].key
                \/ i = rebind[r].identity /\ accountRow'[i].key = rebind[r].image
  BY <1>2, <1>4 DEF Accounts
<1>7. rebind'[r].stage = "done" => stored
  BY <1>1, <1>4
<1>8. stored => accountRow'[rebind[r].identity].key = rebind[r].image
  BY <1>2, <1>3, <1>4 DEF Accounts
<1>9. UNCHANGED <<account, made, register>>
  BY DEF BindStore
<1> QED BY <1>3, <1>5, <1>6, <1>7, <1>8, <1>9

LEMMA InsertEffect ==
  ASSUME TypeOK, NEW g \in Registers, RegisterInsert(g), ~UNCHANGED <<accountRow, created>>
  PROVE  \E i \in Identities :
           /\ register[g] = [stage |-> "checked", identity |-> i] /\ ~accountRow[i].exists
           /\ register' = [register EXCEPT ![g] = [stage |-> "inserted", identity |-> i]]
           /\ \A j \in Identities :
                /\ accountRow'[j].exists <=> accountRow[j].exists \/ j = i
                /\ accountRow'[j].key = accountRow[j].key
<1>1. PICK i \in Identities : register[g] = [stage |-> "checked", identity |-> i]
  BY DEF RegisterInsert, TypeOK, RequestsOK
<1>2. /\ ~accountRow[i].exists
      /\ accountRow' = [accountRow EXCEPT ![i].exists = TRUE]
      /\ register' = [register EXCEPT ![g].stage = "inserted"]
  BY <1>1 DEF RegisterInsert
<1>3. register' = [register EXCEPT ![g] = [stage |-> "inserted", identity |-> i]]
  <2>1. register' = [register EXCEPT ![g] = [register[g] EXCEPT !.stage = "inserted"]]
    BY <1>2
  <2>2. [register[g] EXCEPT !.stage = "inserted"] = [stage |-> "inserted", identity |-> i]
    BY <1>1
  <2> QED BY <2>1, <2>2
<1>4. \A j \in Identities : /\ accountRow'[j].exists <=> accountRow[j].exists \/ j = i
                            /\ accountRow'[j].key = accountRow[j].key
  BY <1>2 DEF TypeOK, AccountsOK, Accounts
<1> QED BY <1>1, <1>2, <1>3, <1>4

LEMMA KnownKept ==
  ASSUME TypeOK, KnownOK, [Next]_vars PROVE KnownOK'
<1>0. AccountsOK /\ RequestsOK /\ HistoryOK
  BY DEF TypeOK
<1>1. ASSUME NEW p \in Pairings, Create(p) PROVE KnownOK'
  <2>1. CASE UNCHANGED accounts
    BY <1>1, <2>1 DEF Create, KnownOK, accounts, requests
  <2>2. CASE ~UNCHANGED accounts
    <3>1. UNCHANGED requests
      BY <1>1 DEF Create
    <3>2. PICK i \in Identities :
            /\ ~account[i].exists /\ ~accountRow[i].exists
            /\ accountRow' = [accountRow EXCEPT ![i] = [exists |-> TRUE, key |-> p]]
            /\ account' = [account EXCEPT ![i] = [exists |-> TRUE, key |-> p]]
            /\ made' = [made EXCEPT ![p] = i]
      BY <1>1, <2>2, CreateEffect
    <3>3. \A j \in Identities :
            /\ accountRow'[j].exists <=> accountRow[j].exists \/ j = i
            /\ account'[j].exists <=> account[j].exists \/ j = i
      BY <1>0, <3>2 DEF AccountsOK, Accounts
    <3>4. \A q \in Pairings : made'[q] = IF q = p THEN i ELSE made[q]
      BY <1>0, <3>2 DEF HistoryOK
    <3>5. \A q \in Pairings : made[q] \in Identities \cup {None}
      BY <1>0 DEF HistoryOK
    <3>6. /\ \A g \in Registers : register[g].stage = "inserted" => register[g].identity \in Identities
          /\ \A r \in Rebinds : rebind[r].stage # "new" => rebind[r].identity \in Identities
      BY <1>0 DEF RequestsOK
    <3> QED BY <3>1, <3>2, <3>3, <3>4, <3>5, <3>6 DEF KnownOK, requests
  <2> QED BY <2>1, <2>2
<1>2. ASSUME NEW g \in Registers, Registering(g) PROVE KnownOK'
  <2>1. ASSUME NEW i \in Identities, RegisterCheck(g, i) PROVE KnownOK'
    BY <1>0, <2>1 DEF RegisterCheck, KnownOK, RequestsOK, accounts
  <2>2. CASE RegisterInsert(g)
    <3>1. CASE UNCHANGED <<accountRow, created>>
      <4>1. \/ register' = [register EXCEPT ![g] = Over]
            \/ created' = [created EXCEPT ![register[g].identity] = @ + 1]
        BY <2>2 DEF RegisterInsert
      <4>2. register[g].identity \in Identities
        BY <1>0, <2>2 DEF RegisterInsert, RequestsOK
      <4>3. register' = [register EXCEPT ![g] = Over]
        BY <1>0, <3>1, <4>1, <4>2 DEF HistoryOK
      <4>4. UNCHANGED <<account, made, rebind>>
        BY <2>2 DEF RegisterInsert
      <4> QED BY <1>0, <3>1, <4>3, <4>4 DEF KnownOK, Over, RequestsOK
    <3>2. CASE ~UNCHANGED <<accountRow, created>>
      <4>1. PICK i \in Identities :
              /\ register[g] = [stage |-> "checked", identity |-> i] /\ ~accountRow[i].exists
              /\ register' = [register EXCEPT ![g] = [stage |-> "inserted", identity |-> i]]
              /\ \A j \in Identities :
                   /\ accountRow'[j].exists <=> accountRow[j].exists \/ j = i
                   /\ accountRow'[j].key = accountRow[j].key
        BY <2>2, <3>2, InsertEffect
      <4>2. UNCHANGED <<account, made, rebind>>
        BY <2>2 DEF RegisterInsert
      <4>3. \A h \in Registers : register'[h] = IF h = g THEN [stage |-> "inserted", identity |-> i]
                                                        ELSE register[h]
        BY <1>0, <4>1 DEF RequestsOK
      <4>4. /\ \A q \in Pairings : made[q] \in Identities \cup {None}
            /\ \A h \in Registers : register[h].stage = "inserted" => register[h].identity \in Identities
            /\ \A r \in Rebinds : rebind[r].stage # "new" => rebind[r].identity \in Identities
        BY <1>0 DEF RequestsOK, HistoryOK
      <4>5. i # None
        BY PairingAssumption
      <4> QED BY <4>1, <4>2, <4>3, <4>4, <4>5 DEF KnownOK
    <3> QED BY <3>1, <3>2
  <2>3. CASE RegisterPublish(g)
    BY <1>0, <2>3 DEF RegisterPublish, KnownOK, Over, RequestsOK, AccountsOK, Accounts
  <2> QED BY <1>2, <2>1, <2>2, <2>3 DEF Registering
<1>3. ASSUME NEW r \in Rebinds, Rebinding(r) PROVE KnownOK'
  <2>1. ASSUME NEW i \in Identities, BindSet(r, i) PROVE KnownOK'
    BY <1>0, <2>1 DEF BindSet, KnownOK, RequestsOK, AccountsOK, Accounts
  <2>2. CASE BindRead(r)
    BY <1>0, <2>2 DEF BindRead, KnownOK, RequestsOK, accounts
  <2>3. CASE BindStore(r)
    <3>1. /\ \A q \in Rebinds :
               /\ rebind'[q].identity = rebind[q].identity
               /\ rebind'[q].stage # "new" => rebind[q].stage # "new"
               /\ rebind[q].stage # "new" => rebind[q].identity \in Identities
          /\ \A i \in Identities : accountRow'[i].exists <=> accountRow[i].exists
      BY <1>0, <2>3, BindStoreEffect DEF RequestsOK
    <3>2. /\ \A q \in Pairings : made[q] \in Identities \cup {None}
          /\ \A h \in Registers : register[h].stage = "inserted" => register[h].identity \in Identities
      BY <1>0 DEF RequestsOK, HistoryOK
    <3>3. UNCHANGED <<account, made, register>>
      BY <2>3, BindStoreEffect
    <3>4. \A i \in Identities : account'[i].exists => accountRow'[i].exists
      BY <3>1, <3>3 DEF KnownOK
    <3>5. \A g \in Registers : register'[g].stage = "inserted" =>
            /\ accountRow'[register'[g].identity].exists
            /\ \A p \in Pairings : made'[p] # register'[g].identity
      BY <3>1, <3>2, <3>3 DEF KnownOK
    <3>6. \A p \in Pairings : made'[p] # None => accountRow'[made'[p]].exists
      BY <3>1, <3>2, <3>3 DEF KnownOK
    <3>7. \A q \in Rebinds : rebind'[q].stage # "new" => accountRow'[rebind'[q].identity].exists
      BY <3>1 DEF KnownOK
    <3> QED BY <3>4, <3>5, <3>6, <3>7 DEF KnownOK
  <2> QED BY <1>3, <2>1, <2>2, <2>3 DEF Rebinding
<1>4. CASE Restart
  BY <1>4, RestartEffect DEF KnownOK
<1>5. CASE UNCHANGED <<accounts, requests>>
  BY <1>5 DEF KnownOK, accounts, requests
<1> QED BY <1>1, <1>2, <1>3, <1>4, <1>5, KeySteps

LEMMA BegunKept ==
  ASSUME TypeOK, BegunOK, [Next]_vars PROVE BegunOK'
<1> USE DEF BegunOK, Begun
<1>0. AccountsOK /\ RequestsOK
  BY DEF TypeOK
<1>1. ASSUME NEW p \in Pairings, Create(p) PROVE BegunOK'
  <2>1. CASE UNCHANGED accounts
    BY <1>1, <2>1 DEF Create, accounts, requests
  <2>2. CASE ~UNCHANGED accounts
    <3>1. UNCHANGED requests /\ p \notin Rebinds
      BY <1>1, PairingAssumption DEF Create
    <3> QED BY <1>0, <1>1, <2>2, <3>1, CreateEffect DEF requests, AccountsOK
  <2> QED BY <2>1, <2>2
<1>2. ASSUME NEW g \in Registers, Registering(g) PROVE BegunOK'
  <2>1. None \notin Rebinds
    BY PairingAssumption
  <2>2. CASE RegisterInsert(g)
    <3>1. /\ account' = account /\ rebind' = rebind
          /\ \/ accountRow' = accountRow
             \/ accountRow' = [accountRow EXCEPT ![register[g].identity].exists = TRUE]
      BY <2>2 DEF RegisterInsert
    <3>2. \A i \in Identities : accountRow'[i].key = accountRow[i].key
      BY <1>0, <3>1 DEF AccountsOK, Accounts
    <3> QED BY <3>1, <3>2
  <2>3. CASE RegisterPublish(g)
    BY <1>0, <2>1, <2>3 DEF RegisterPublish, AccountsOK, Accounts
  <2> QED BY <1>2, <2>2, <2>3 DEF Registering, RegisterCheck, accounts
<1>3. ASSUME NEW r \in Rebinds, Rebinding(r) PROVE BegunOK'
  <2>0. None \notin Rebinds
    BY PairingAssumption
  <2>1. ASSUME NEW i \in Identities, BindSet(r, i) PROVE BegunOK'
    BY <1>0, <2>0, <2>1 DEF BindSet, RequestsOK, AccountsOK, Accounts
  <2>2. CASE BindRead(r)
    BY <1>0, <2>2 DEF BindRead, RequestsOK, accounts
  <2>3. CASE BindStore(r)
    <3>1. \A q \in Rebinds : rebind[q].stage # "new" => rebind'[q].stage # "new"
      BY <1>0, <2>3, BindStoreEffect DEF RequestsOK
    <3>2. \A q \in Rebinds : rebind'[q].over = rebind[q].over
                             /\ rebind'[q].image \in {rebind[q].image, None}
      BY <1>0, <2>3, BindStoreEffect DEF RequestsOK
    <3>3. \A i \in Identities : accountRow'[i].key \in {accountRow[i].key, rebind[r].image}
      BY <1>0, <2>3, BindStoreEffect DEF AccountsOK, Accounts
    <3>4. account' = account
      BY <2>3 DEF BindStore
    <3> QED BY <2>0, <3>1, <3>2, <3>3, <3>4
  <2> QED BY <1>3, <2>1, <2>2, <2>3 DEF Rebinding
<1>4. CASE Restart
  <2>1. None \notin Rebinds
    BY PairingAssumption
  <2>2. \A q \in Rebinds : rebind[q].stage # "new" => rebind'[q].stage # "new"
    BY <1>4, RestartEffect
  <2> QED BY <1>4, <2>1, <2>2, RestartEffect
<1>5. CASE UNCHANGED <<accounts, requests>>
  BY <1>5 DEF accounts, requests
<1> QED BY <1>1, <1>2, <1>3, <1>4, <1>5, KeySteps

LEMMA ReplacedKept ==
  ASSUME TypeOK, KnownOK, BegunOK, ReplacedOK, [Next]_vars PROVE ReplacedOK'
<1>0. AccountsOK /\ RequestsOK
  BY DEF TypeOK
<1>a. \A r \in Rebinds : rebind[r].stage # "new" =>
        rebind[r].identity \in Identities /\ accountRow[rebind[r].identity].exists
  BY <1>0 DEF KnownOK, RequestsOK
<1>n. None \notin Rebinds
  BY PairingAssumption
<1>1. ASSUME NEW p \in Pairings, Create(p) PROVE ReplacedOK'
  <2>0. UNCHANGED requests
    BY <1>1 DEF Create
  <2>1. CASE UNCHANGED accounts
    BY <2>0, <2>1 DEF ReplacedOK, accounts, requests
  <2>2. CASE ~UNCHANGED accounts
    <3>1. PICK i \in Identities :
            /\ ~accountRow[i].exists
            /\ accountRow' = [accountRow EXCEPT ![i] = [exists |-> TRUE, key |-> p]]
            /\ account' = [account EXCEPT ![i] = [exists |-> TRUE, key |-> p]]
      BY <1>1, <2>2, CreateEffect
    <3>2. \A j \in Identities : j # i => account'[j] = account[j] /\ accountRow'[j] = accountRow[j]
      BY <1>0, <3>1 DEF AccountsOK
    <3>3. \A r \in Rebinds : rebind[r].stage # "new" => rebind[r].identity \in Identities \ {i}
      BY <1>a, <3>1
    <3> QED BY <2>0, <3>2, <3>3 DEF ReplacedOK, requests
  <2> QED BY <2>1, <2>2
<1>2. ASSUME NEW g \in Registers, Registering(g) PROVE ReplacedOK'
  <2>0. rebind' = rebind
    BY <1>2 DEF Registering, RegisterCheck, RegisterInsert, RegisterPublish
  <2>1. \A i \in Identities : /\ account'[i].key \in {account[i].key, None}
                              /\ accountRow'[i].key = accountRow[i].key
    BY <1>0, <1>2 DEF Registering, RegisterCheck, RegisterInsert, RegisterPublish, accounts,
                      AccountsOK, Accounts
  <2> QED BY <1>a, <2>0, <2>1 DEF ReplacedOK
<1>3. ASSUME NEW r \in Rebinds, NEW i \in Identities, BindSet(r, i) PROVE ReplacedOK'
  <2>1. /\ rebind[r].stage = "new" /\ accountRow' = accountRow
        /\ account' = [account EXCEPT ![i].key = r]
        /\ rebind' = [rebind EXCEPT ![r] =
             [stage |-> "set", identity |-> i, image |-> None,
              over |-> IF Binding(i) = {} THEN accountRow[i].key ELSE None]]
    BY <1>3 DEF BindSet
  <2>2. \A j \in Identities : account'[j].key = IF j = i THEN r ELSE account[j].key
    BY <1>0, <2>1 DEF AccountsOK, Accounts
  <2>3. \A q \in Rebinds : q # r => rebind'[q] = rebind[q]
    BY <1>0, <2>1 DEF RequestsOK
  <2>4. /\ rebind'[r].stage = "set" /\ rebind'[r].identity = i
        /\ rebind'[r].over \in {accountRow[i].key, None}
        /\ rebind'[r].over # None =>
             \A q \in Rebinds : rebind[q].identity = i => rebind[q].stage # "read"
    BY <1>0, <2>1 DEF RequestsOK, Binding
  <2>5. r # accountRow[i].key /\ \A q \in Rebinds : rebind[q].over # r
    BY <2>1 DEF BegunOK, Begun
  <2>6. ASSUME NEW q \in Rebinds, rebind'[q].over # None,
               rebind'[q].stage \in {"set", "read", "done"}
        PROVE  /\ account'[rebind'[q].identity].key # rebind'[q].over
               /\ \A t \in Rebinds : rebind'[t].stage = "read" /\ rebind'[t].identity = rebind'[q].identity
                                       => rebind'[t].image # rebind'[q].over
               /\ rebind'[q].stage = "done" =>
                    accountRow'[rebind'[q].identity].key # rebind'[q].over
    <3>1. CASE q = r
      BY <2>2, <2>3, <2>4, <2>5, <2>6, <3>1
    <3>2. CASE q # r
      <4>1. rebind'[q] = rebind[q] /\ rebind[q].identity \in Identities
        BY <1>a, <2>3, <2>6, <3>2
      <4> QED BY <2>1, <2>2, <2>3, <2>4, <2>5, <2>6, <4>1 DEF ReplacedOK
    <3> QED BY <3>1, <3>2
  <2> QED BY <2>6 DEF ReplacedOK
<1>4. ASSUME NEW r \in Rebinds, BindRead(r) PROVE ReplacedOK'
  <2>1. /\ rebind[r].stage = "set" /\ UNCHANGED accounts
        /\ rebind' = [rebind EXCEPT ![r] =
             [rebind[r] EXCEPT !.stage = "read", !.image = account[rebind[r].identity].key]]
    BY <1>4 DEF BindRead
  <2>2. \A q \in Rebinds :
          /\ rebind'[q].identity = rebind[q].identity /\ rebind'[q].over = rebind[q].over
          /\ rebind'[q].stage = IF q = r THEN "read" ELSE rebind[q].stage
          /\ rebind'[q].image = IF q = r THEN account[rebind[r].identity].key ELSE rebind[q].image
    BY <1>0, <2>1 DEF RequestsOK
  <2> QED BY <2>1, <2>2 DEF ReplacedOK, accounts
<1>5. ASSUME NEW r \in Rebinds, BindStore(r) PROVE ReplacedOK'
  <2>1. /\ rebind[r].stage = "read" /\ rebind[r].identity \in Identities /\ account' = account
        /\ \A q \in Rebinds :
              /\ rebind'[q].identity = rebind[q].identity /\ rebind'[q].over = rebind[q].over
              /\ rebind'[q].stage \in IF q = r THEN {"done", "failed"} ELSE {rebind[q].stage}
              /\ rebind'[q].stage = "read" => rebind'[q].image \in {rebind[q].image, None}
        /\ \A i \in Identities :
              \/ accountRow'[i].key = accountRow[i].key
              \/ i = rebind[r].identity /\ accountRow'[i].key = rebind[r].image
        /\ rebind'[r].stage = "done" =>
              accountRow'[rebind[r].identity].key = rebind[r].image
    BY <1>5, BindStoreEffect
  <2>2. ASSUME NEW q \in Rebinds, rebind'[q].over # None,
               rebind'[q].stage \in {"set", "read", "done"}
        PROVE  /\ account'[rebind'[q].identity].key # rebind'[q].over
               /\ \A t \in Rebinds : rebind'[t].stage = "read" /\ rebind'[t].identity = rebind'[q].identity
                                       => rebind'[t].image # rebind'[q].over
               /\ rebind'[q].stage = "done" =>
                    accountRow'[rebind'[q].identity].key # rebind'[q].over
    <3> DEFINE i == rebind[q].identity
               k == rebind[q].over
    <3>1. rebind'[q].identity = i /\ rebind'[q].over = k
      BY <2>1
    <3>2. rebind[q].stage \in {"set", "read", "done"} /\ i \in Identities
      BY <1>a, <2>1, <2>2
    <3>3. /\ account[i].key # k
          /\ \A t \in Rebinds : rebind[t].stage = "read" /\ rebind[t].identity = i
                                  => rebind[t].image # k
          /\ rebind[q].stage = "done" => accountRow[i].key # k
      BY <2>2, <3>1, <3>2 DEF ReplacedOK
    <3>4. \A t \in Rebinds : rebind'[t].stage = "read" => t # r /\ rebind[t].stage = "read"
      BY <2>1
    <3>5. rebind'[q].stage = "done" => accountRow'[i].key # k
      BY <2>1, <3>2, <3>3
    <3> HIDE DEF i, k
    <3> QED BY <2>1, <2>2, <3>1, <3>3, <3>4, <3>5
  <2> QED BY <2>2 DEF ReplacedOK
<1>6. CASE Restart
  BY <1>6, RestartEffect DEF ReplacedOK
<1>7. CASE UNCHANGED <<accounts, requests>>
  BY <1>7 DEF ReplacedOK, accounts, requests
<1> QED BY <1>1, <1>2, <1>3, <1>4, <1>5, <1>6, <1>7, KeySteps DEF Rebinding

\* Once bind_connector has answered, the key it replaced opens no session, for
\* any number of calls that begin later, failed saves and restarts.
THEOREM ReplacedKeyIsDead == Spec => []SupersededKeyIsDead
<1>1. Init => KnownOK /\ BegunOK /\ ReplacedOK
  BY PairingAssumption DEF Init, KnownOK, BegunOK, Begun, ReplacedOK, NoAccount
<1>2. TypeOK /\ KnownOK /\ BegunOK /\ ReplacedOK /\ [Next]_vars
        => KnownOK' /\ BegunOK' /\ ReplacedOK'
  BY KnownKept, BegunKept, ReplacedKept
<1>3. ReplacedOK => SupersededKeyIsDead
  BY DEF ReplacedOK, SupersededKeyIsDead, Opens
<1> QED BY <1>1, <1>2, <1>3, TypeCorrect, PTL DEF Spec

LEMMA PairedKept ==
  ASSUME TypeOK, KnownOK, PairedOK, [Next]_vars PROVE PairedOK'
<1>0. AccountsOK /\ RequestsOK /\ HistoryOK
  BY DEF TypeOK
<1>a. \A p \in Pairings : made[p] \in Identities \cup {None}
  BY <1>0 DEF HistoryOK
<1>1. ASSUME NEW p \in Pairings, Create(p) PROVE PairedOK'
  <2>0. UNCHANGED requests
    BY <1>1 DEF Create
  <2>1. CASE UNCHANGED accounts
    BY <2>0, <2>1 DEF PairedOK, accounts, requests
  <2>2. CASE ~UNCHANGED accounts
    <3>1. PICK i \in Identities :
            /\ ~accountRow[i].exists
            /\ accountRow' = [accountRow EXCEPT ![i] = [exists |-> TRUE, key |-> p]]
            /\ account' = [account EXCEPT ![i] = [exists |-> TRUE, key |-> p]]
            /\ made' = [made EXCEPT ![p] = i]
      BY <1>1, <2>2, CreateEffect
    <3>2. \A j \in Identities \ {i} : account'[j] = account[j] /\ accountRow'[j] = accountRow[j]
      BY <1>0, <3>1 DEF AccountsOK
    <3>3. account'[i] = [exists |-> TRUE, key |-> p] /\ accountRow'[i] = [exists |-> TRUE, key |-> p]
      BY <1>0, <3>1 DEF AccountsOK
    <3>4. made'[p] = i /\ \A q \in Pairings \ {p} : made'[q] = made[q]
      BY <1>0, <3>1 DEF HistoryOK
    <3>5. \A q \in Pairings : made[q] # None => made[q] \in Identities \ {i}
      BY <1>a, <3>1 DEF KnownOK
    <3> QED BY <2>0, <3>2, <3>3, <3>4, <3>5 DEF PairedOK, requests
  <2> QED BY <2>1, <2>2
<1>2. ASSUME NEW g \in Registers, Registering(g) PROVE PairedOK'
  <2>0. UNCHANGED <<rebind, made>>
    BY <1>2 DEF Registering, RegisterCheck, RegisterInsert, RegisterPublish, accounts
  <2>1. \A i \in Identities : accountRow'[i].key = accountRow[i].key
    BY <1>0, <1>2 DEF Registering, RegisterCheck, RegisterInsert, RegisterPublish, accounts,
                      AccountsOK, Accounts
  <2>2. \A p \in Pairings : made[p] # None => account'[made[p]] = account[made[p]]
    <3>1. CASE RegisterPublish(g)
      <4>1. /\ \A p \in Pairings : made[p] # register[g].identity
            /\ account' = [account EXCEPT ![register[g].identity] = [exists |-> TRUE, key |-> None]]
        BY <3>1 DEF RegisterPublish, KnownOK
      <4> QED BY <1>0, <1>a, <4>1 DEF AccountsOK
    <3> QED BY <1>2, <3>1 DEF Registering, RegisterCheck, RegisterInsert, accounts
  <2> QED BY <1>a, <2>0, <2>1, <2>2 DEF PairedOK
<1>3. ASSUME NEW r \in Rebinds, NEW i \in Identities, BindSet(r, i) PROVE PairedOK'
  <2>1. /\ accountRow' = accountRow /\ made' = made
        /\ account' = [account EXCEPT ![i].key = r]
        /\ rebind[r].stage = "new"
        /\ \A q \in Rebinds \ {r} : rebind'[q] = rebind[q]
        /\ rebind'[r].stage # "new" /\ rebind'[r].identity = i
    BY <1>0, <1>3 DEF BindSet, RequestsOK
  <2>2. /\ \A j \in Identities \ {i} : account'[j] = account[j]
        /\ account'[i].exists <=> account[i].exists
    BY <1>0, <2>1 DEF AccountsOK, Accounts
  <2> QED BY <1>a, <2>1, <2>2 DEF PairedOK
<1>4. ASSUME NEW r \in Rebinds, BindRead(r) PROVE PairedOK'
  <2>1. /\ rebind[r].stage = "set" /\ UNCHANGED accounts
        /\ rebind' = [rebind EXCEPT ![r] =
             [rebind[r] EXCEPT !.stage = "read", !.image = account[rebind[r].identity].key]]
    BY <1>4 DEF BindRead
  <2>2. \A q \in Rebinds : /\ rebind'[q].identity = rebind[q].identity
                           /\ rebind[q].stage # "new" => rebind'[q].stage # "new"
    BY <1>0, <2>1 DEF RequestsOK
  <2> QED BY <2>1, <2>2 DEF PairedOK, accounts
<1>5. ASSUME NEW r \in Rebinds, BindStore(r) PROVE PairedOK'
  <2>1. /\ rebind[r].stage = "read" /\ UNCHANGED <<account, made>>
        /\ \A q \in Rebinds : /\ rebind'[q].identity = rebind[q].identity
                              /\ rebind[q].stage # "new" => rebind'[q].stage # "new"
        /\ \A i \in Identities :
              accountRow'[i].key = accountRow[i].key \/ i = rebind[r].identity
    BY <1>5, BindStoreEffect
  <2> QED BY <1>a, <2>1 DEF PairedOK
<1>6. CASE Restart
  <2>1. /\ account' = accountRow /\ UNCHANGED <<accountRow, made>>
        /\ \A q \in Rebinds : /\ rebind'[q].identity = rebind[q].identity
                              /\ rebind[q].stage # "new" => rebind'[q].stage # "new"
    BY <1>6, RestartEffect
  <2> QED BY <2>1 DEF PairedOK, KnownOK
<1>7. CASE UNCHANGED <<accounts, requests>>
  BY <1>7 DEF PairedOK, accounts, requests
<1> QED BY <1>1, <1>2, <1>3, <1>4, <1>5, <1>6, <1>7, KeySteps DEF Rebinding

LEMMA MadeStays ==
  ASSUME TypeOK, [Next]_vars, NEW p \in Pairings, made[p] # None
  PROVE  made'[p] # None
<1>1. made \in [Pairings -> Identities \cup {None}] /\ None \notin Identities
  BY PairingAssumption DEF TypeOK, HistoryOK
<1>2. ASSUME NEW q \in Pairings, Create(q) PROVE made'[p] # None
  BY <1>1, <1>2, CreateEffect DEF accounts
<1>3. CASE made' = made
  BY <1>3
<1> QED BY <1>2, <1>3, KeySteps, RestartEffect
        DEF Registering, RegisterCheck, RegisterInsert, RegisterPublish, Rebinding, BindSet,
            BindRead, BindStore, accounts

LEMMA HeldKept ==
  ASSUME TypeOK, RoomOK, HeldOK, [Next]_vars PROVE HeldOK'
<1>0. SessionsOK /\ RequestsOK /\ HistoryOK
  BY DEF TypeOK
<1>m. \A p \in Pairings : made[p] # None => made'[p] # None
  BY MadeStays
<1>w. \A c \in Connectors : socket[c].stage \in {"waiting", "sending"} =>
        socket[c].pairing \in Pairings
  BY <1>0 DEF RequestsOK
\* What a step has to show.
<1>q. ASSUME \A p \in Pairings : session'[p].secret => made[p] # None,
             held' \subseteq {p \in Pairings : made[p] # None},
             confirming' \in {None, confirming} \cup {p \in Pairings : made'[p] # None},
             \A c \in Connectors : socket'[c].stage = "sending" =>
               \/ socket'[c] = socket[c]
               \/ socket'[c].pairing \in Pairings /\ made[socket'[c].pairing] # None
      PROVE  HeldOK'
  BY <1>m, <1>q, <1>w, PairingAssumption DEF HeldOK
<1>h. held \subseteq {p \in Pairings : made[p] # None}
  BY <1>0 DEF HeldOK, HistoryOK
<1>s. \A p \in Pairings : session[p].secret => made[p] # None
  BY DEF HeldOK
<1>u. ASSUME UNCHANGED <<session, held>>, confirming' \in {None, confirming},
             \A c \in Connectors : socket'[c].stage = "sending" => socket'[c] = socket[c]
      PROVE  HeldOK'
  BY <1>h, <1>q, <1>s, <1>u
<1>t. ASSUME NEW p \in Pairings, NEW s \in Sessions, NEW ok, Store(p, s, ok),
             s.secret => made[p] # None, held' = held, confirming' \in {None, confirming},
             \A c \in Connectors : socket'[c].stage = "sending" =>
               \/ socket'[c] = socket[c]
               \/ socket'[c].pairing \in Pairings /\ made[socket'[c].pairing] # None
      PROVE  HeldOK'
  <2>1. \A q \in Pairings : session'[q].secret => made[q] # None
    <3>1. \A q \in Pairings : session'[q] = IF q = p THEN s ELSE session[q]
      BY <1>0, <1>t, StoreEffect
    <3> QED BY <1>s, <1>t, <3>1
  <2> QED BY <1>h, <1>q, <1>t, <2>1
<1>1. ASSUME NEW p \in Pairings, Custodian(p) PROVE HeldOK'
  <2>0. Expired(p) \in Sessions /\ (Expired(p).secret => made[p] # None)
    BY <1>0, <1>s, SessionForms
  <2>1. CASE Start(p)
    <3> DEFINE s == [Absent EXCEPT !.status = "OPEN"]
    <3>1. s \in Sessions /\ ~s.secret
      BY <1>0, SessionForms DEF Absent
    <3>2. (\E ok \in Saves : Store(p, s, ok)) /\ UNCHANGED <<held, confirming, socket>>
      BY <2>1 DEF Start
    <3> HIDE DEF s
    <3> QED BY <1>t, <3>1, <3>2
  <2>2. CASE ViewExpiring(p)
    BY <1>t, <2>0, <2>2 DEF ViewExpiring
  <2>3. CASE View(p) \/ Deadline(p)
    BY <1>u, <2>3 DEF View, Deadline, pairing, told
  <2>4. CASE CancelExpiring(p)
    <3>1. \A q \in Pairings : session'[q] = IF q = p THEN Expired(p) ELSE session[q]
      BY <1>0, <2>4 DEF CancelExpiring, SessionsOK
    <3>2. UNCHANGED <<held, confirming, socket>>
      BY <2>4 DEF CancelExpiring, told
    <3> QED BY <1>h, <1>q, <1>s, <2>0, <3>1, <3>2
  <2>5. CASE Cancel(p)
    <3> DEFINE s == [session[p] EXCEPT !.status = "CANCELLED"]
    <3>1. s \in Sessions /\ (s.secret => made[p] # None)
      BY <1>0, <1>s, SessionForms DEF SessionsOK, Sessions
    <3>2. (\E ok \in Saves : Store(p, s, ok)) /\ UNCHANGED <<held, confirming, socket>>
      BY <2>5 DEF Cancel
    <3> HIDE DEF s
    <3> QED BY <1>t, <3>1, <3>2
  <2>6. CASE Create(p)
    <3>1. UNCHANGED <<session, held, socket>>
      BY <2>6 DEF Create, pairing, told
    <3>2. confirming' \in {None, confirming} \cup {q \in Pairings : made'[q] # None}
      <4>1. CASE UNCHANGED accounts
        BY <1>0, <2>6, <4>1, PairingAssumption
           DEF Create, Confirmable, SessionsOK, Sessions, HistoryOK, accounts
      <4>2. CASE ~UNCHANGED accounts
        BY <1>0, <2>6, <4>2, CreateEffect, PairingAssumption DEF Create, HistoryOK
      <4> QED BY <4>1, <4>2
    <3> QED BY <1>h, <1>q, <1>s, <3>1, <3>2
  <2>7. CASE Confirm(p)
    <3> DEFINE s == [session[p] EXCEPT !.status = "CONFIRMED", !.secret = TRUE]
    <3>1. s \in Sessions /\ made[p] # None
      BY <1>0, <2>7, SessionForms DEF Confirm, HeldOK
    <3>2. (\E ok \in Saves : Store(p, s, ok)) /\ UNCHANGED <<held, socket>> /\ confirming' = None
      BY <2>7 DEF Confirm, told
    <3> HIDE DEF s
    <3> QED BY <1>t, <3>1, <3>2
  <2> QED BY <1>1, <2>1, <2>2, <2>3, <2>4, <2>5, <2>6, <2>7 DEF Custodian
<1>2. ASSUME NEW c \in Connectors, Submission(c) PROVE HeldOK'
  <2>0. ASSUME NEW v, v.stage # "sending", socket' = [socket EXCEPT ![c] = v]
        PROVE  \A d \in Connectors : socket'[d].stage = "sending" => socket'[d] = socket[d]
    BY <1>0, <2>0 DEF RequestsOK
  <2>1. ASSUME NEW p \in Pairings, SubmitExpiring(c, p) PROVE HeldOK'
    <3>1. Expired(p) \in Sessions /\ (Expired(p).secret => made[p] # None)
      BY <1>0, <1>s, SessionForms
    <3>2. /\ \E ok \in Saves : Store(p, Expired(p), ok)
          /\ socket' = [socket EXCEPT ![c] = Closed] /\ UNCHANGED <<held, confirming>>
      BY <2>1 DEF SubmitExpiring, told
    <3>3. \A d \in Connectors : socket'[d].stage = "sending" => socket'[d] = socket[d]
      BY <2>0, <3>2 DEF Closed
    <3> QED BY <1>t, <3>1, <3>2, <3>3
  <2>2. ASSUME NEW p \in Pairings, NEW i \in Identities, NEW stage, Submit(c, p, i, stage)
        PROVE  HeldOK'
    <3> DEFINE s == [session[p] EXCEPT !.status = "CANDIDATE_SUBMITTED", !.candidate = i,
                                       !.owner = c]
    <3>1. s \in Sessions /\ (s.secret => made[p] # None)
      BY <1>0, <1>s, SubmittedForm DEF SessionsOK, Sessions
    <3>2. (\E ok \in Saves : Store(p, s, ok)) /\ UNCHANGED <<held, confirming>>
      BY <2>2 DEF Submit
    <3>3. \/ socket' = [socket EXCEPT ![c] = Closed]
          \/ socket' = [socket EXCEPT ![c] = [stage |-> "waiting", pairing |-> p]]
      BY <2>2 DEF Submit
    <3>4. \A d \in Connectors : socket'[d].stage = "sending" => socket'[d] = socket[d]
      BY <2>0, <3>3 DEF Closed
    <3> HIDE DEF s
    <3> QED BY <1>t, <3>1, <3>2, <3>4
  <2> QED BY <1>2, <2>1, <2>2 DEF Submission
<1>3. ASSUME NEW c \in Connectors, Consume(c) PROVE HeldOK'
  <2> DEFINE p == socket[c].pairing
             s == [session[p] EXCEPT !.delivered = TRUE, !.secret = FALSE]
  <2>1. p \in Pairings
    BY <1>3, <1>w DEF Consume
  <2>2. s \in Sessions /\ ~s.secret /\ made[p] # None
    BY <1>0, <1>3, <1>s, <2>1, SessionForms DEF Consume, SessionsOK, Sessions
  <2>3. (\E ok \in Saves : Store(p, s, ok)) /\ UNCHANGED <<held, confirming>>
    BY <1>3 DEF Consume, told
  <2>4. ASSUME NEW d \in Connectors PROVE socket'[d] = socket[d] \/ socket'[d].pairing = p
                                          \/ socket'[d].stage = "closed"
    BY <1>0, <1>3 DEF Consume, Closed, RequestsOK
  <2> HIDE DEF p, s
  <2> QED BY <1>t, <2>1, <2>2, <2>3, <2>4
<1>4. ASSUME NEW c \in Connectors, Send(c) \/ Drop(c) PROVE HeldOK'
  <2>1. \A d \in Connectors : socket'[d].stage = "sending" => socket'[d] = socket[d]
    BY <1>0, <1>4 DEF Send, Drop, Closed, RequestsOK
  <2>2. held' \subseteq {q \in Pairings : made[q] # None}
    BY <1>4, <1>h, <1>w DEF Send, Drop, told, HeldOK
  <2>3. UNCHANGED <<session, confirming>>
    BY <1>4 DEF Send, Drop, pairing
  <2> QED BY <1>q, <1>s, <2>1, <2>2, <2>3
<1>5. CASE WrongCode
  <2>1. \A q \in Pairings : session'[q].secret => made[q] # None
    BY <1>0, <1>5, <1>s, GuessEffect
  <2> QED BY <1>5, <1>h, <1>q, <2>1 DEF WrongCode
<1>6. ASSUME NEW g \in Registers, Registering(g) PROVE HeldOK'
  BY <1>6, <1>u DEF Registering, RegisterCheck, RegisterInsert, RegisterPublish, pairing, told
<1>7. ASSUME NEW r \in Rebinds, Rebinding(r) PROVE HeldOK'
  BY <1>7, <1>u DEF Rebinding, BindSet, BindRead, BindStore, pairing, told
<1>8. CASE Restart
  <2>1. \A q \in Pairings : ~session'[q].secret
    BY <1>0, <1>8 DEF Restart, LoadedRow, Absent, SessionsOK
  <2>2. \A d \in Connectors : socket'[d].stage # "sending"
    BY <1>8 DEF Restart, Closed
  <2>3. held' = held /\ confirming' = None
    BY <1>8 DEF Restart, told
  <2> QED BY <1>h, <1>q, <2>1, <2>2, <2>3
<1>9. CASE UNCHANGED vars
  BY <1>9, <1>u DEF vars, pairing, told
<1> QED BY <1>1, <1>2, <1>3, <1>4, <1>5, <1>6, <1>7, <1>8, <1>9, Steps DEF Delivery

\* A connector that was handed a key can sign in with it, in this process and a
\* later one, until bind_connector is called for the account.
THEOREM HandedKeysOpen == Spec => []HandedKeyOpens
<1>1. Init => KnownOK /\ PairedOK /\ HeldOK
  BY PairingAssumption DEF Init, KnownOK, PairedOK, HeldOK, NoAccount, Absent
<1>2. /\ TypeOK /\ RoomOK /\ KnownOK /\ PairedOK /\ HeldOK
      /\ [Next]_vars
      => KnownOK' /\ PairedOK' /\ HeldOK'
  BY KnownKept, PairedKept, HeldKept
<1>3. TypeOK /\ PairedOK /\ HeldOK => HandedKeyOpens
  BY PairingAssumption DEF TypeOK, HistoryOK, PairedOK, HeldOK, HandedKeyOpens, Opens
<1> QED BY <1>1, <1>2, <1>3, TypeInvariant, PTL DEF Spec

-----------------------------------------------------------------------------
(* Wrong codes.                                                            *)

\* What lets an open session outlive more wrong codes than were charged to it.
Outlived == Cardinality(Exhausted) + faults

\* The wrong codes of an open session were charged to it, in memory as on record,
\* but for what it outlived; a row is never ahead of memory.
BoundOK == \A p \in Pairings :
    /\ session[p].status = "OPEN" => guesses[p] <= session[p].failed + Outlived
    /\ row[p].status = "OPEN" => guesses[p] <= row[p].failed + Outlived
    /\ session[p].status # "NONE" => row[p].failed <= session[p].failed
    /\ row[p].status = "NONE" => row[p].failed = 0
    /\ row[p].status = "NONE" /\ p \notin unsaved =>
           session[p].status = "NONE" /\ guesses[p] = 0

LEMMA OutlivedType ==
  ASSUME TypeOK
  PROVE  /\ Outlived \in Nat /\ IsFiniteSet(Exhausted) /\ Cardinality(Exhausted) \in Nat
         /\ faults \in Nat
<1>1. IsFiniteSet(Exhausted)
  BY PairingAssumption, FS_Subset DEF Exhausted
<1>2. Cardinality(Exhausted) \in Nat
  BY <1>1, FS_CardinalityType
<1> QED BY <1>1, <1>2 DEF Outlived, TypeOK, HistoryOK

\* Rows never lose a charge, so that both counts grow.
LEMMA OutlivedGrows ==
  ASSUME TypeOK, TypeOK', faults' >= faults,
         \A q \in Pairings : row'[q].failed >= row[q].failed
  PROVE  /\ Outlived' >= Outlived /\ Outlived \in Nat /\ Outlived' \in Nat
         /\ faults' > faults \/ (\E p \in Pairings : p \in Exhausted' /\ p \notin Exhausted)
            => Outlived' >= Outlived + 1
<1>1. Exhausted \subseteq Exhausted'
  <2>1. \A q \in Pairings : /\ row[q].failed \in Nat /\ row'[q].failed \in Nat
                            /\ MaxFailures \in Nat
    BY PairingAssumption DEF TypeOK, SessionsOK, Sessions
  <2> QED BY <2>1 DEF Exhausted
<1>2. /\ IsFiniteSet(Exhausted) /\ Cardinality(Exhausted) \in Nat /\ faults \in Nat
      /\ IsFiniteSet(Exhausted') /\ Cardinality(Exhausted') \in Nat /\ faults' \in Nat
  <2>1. IsFiniteSet(Exhausted')
    BY PairingAssumption, FS_Subset DEF Exhausted
  <2>2. Cardinality(Exhausted') \in Nat
    BY <2>1, FS_CardinalityType
  <2> QED BY <2>1, <2>2, OutlivedType DEF TypeOK, HistoryOK
<1>3. /\ Cardinality(Exhausted) <= Cardinality(Exhausted')
      /\ Cardinality(Exhausted) = Cardinality(Exhausted') => Exhausted = Exhausted'
  BY <1>1, <1>2, FS_Subset
<1>4. Outlived = Cardinality(Exhausted) + faults
      /\ Outlived' = Cardinality(Exhausted') + faults'
  BY DEF Outlived
<1> QED BY <1>1, <1>2, <1>3, <1>4

\* What every step but a wrong code does to a session and its row.
Saved(q) == row'[q].status = session'[q].status /\ row'[q].failed = session'[q].failed
Moves(q) ==
    \/ session'[q] = session[q] /\ row'[q] = row[q]
    \/ /\ session[q].status # "NONE" /\ session'[q].status \notin {"NONE", "OPEN"}
       /\ session'[q].failed = session[q].failed
       /\ row'[q] = row[q] \/ Saved(q)
    \/ session'[q].status = "NONE" /\ row'[q] = row[q]
    \/ session'[q] = row[q] /\ row'[q] = row[q]
    \/ /\ row[q].status = "NONE" /\ q \notin unsaved
       /\ session'[q].status = "OPEN" /\ session'[q].failed = 0
       /\ Saved(q) \/ (row'[q] = row[q] /\ q \in unsaved')

LEMMA MovesBound ==
  ASSUME TypeOK, TypeOK', BoundOK, UNCHANGED guesses, faults' >= faults,
         unsaved \subseteq unsaved', \A q \in Pairings : Moves(q)
  PROVE  BoundOK'
<1>1. \A q \in Pairings :
          /\ row[q].failed \in Nat /\ row'[q].failed \in Nat /\ guesses[q] \in Nat
          /\ session[q].failed \in Nat /\ session'[q].failed \in Nat
  BY PairingAssumption DEF TypeOK, SessionsOK, Sessions, HistoryOK
<1>2. \A q \in Pairings : row'[q].failed >= row[q].failed
  BY <1>1 DEF BoundOK, Moves, Saved
<1>3. Outlived' >= Outlived /\ Outlived \in Nat /\ Outlived' \in Nat
  BY <1>2, OutlivedGrows
<1>5. ASSUME NEW q \in Pairings
      PROVE  /\ session'[q].status = "OPEN" => guesses'[q] <= session'[q].failed + Outlived'
             /\ row'[q].status = "OPEN" => guesses'[q] <= row'[q].failed + Outlived'
             /\ session'[q].status # "NONE" => row'[q].failed <= session'[q].failed
             /\ row'[q].status = "NONE" => row'[q].failed = 0
             /\ row'[q].status = "NONE" /\ q \notin unsaved' =>
                    session'[q].status = "NONE" /\ guesses'[q] = 0
  BY <1>1, <1>3, <1>5 DEF BoundOK, Moves, Saved
<1> QED BY <1>5 DEF BoundOK

\* A session that is charged, and its row if it is saved.
LEMMA ChargedSession ==
  ASSUME TypeOK, RoomOK, NEW q \in OpenSessions
  PROVE  /\ Guessed(q).failed = session[q].failed + 1
         /\ Guessed(q).status \in {"OPEN", "EXPIRED"}
         /\ Stored(Guessed(q)).failed = Guessed(q).failed
         /\ Stored(Guessed(q)).status = Guessed(q).status
<1>1. q \in Pairings /\ session[q] \in Sessions /\ SessionsOK
  BY DEF OpenSessions, TypeOK, SessionsOK
<1>2. Guessed(q) \in Sessions /\ Guessed(q).status \in {"OPEN", "EXPIRED"}
  BY <1>1, GuessedType
<1>3. Guessed(q).failed = session[q].failed + 1
  BY <1>1 DEF Guessed, Sessions
<1> QED BY <1>2, <1>3 DEF Stored, Sessions

\* A wrong code is charged to every open session, or something lets the others
\* outlive it.
LEMMA GuessedBound ==
  ASSUME TypeOK, TypeOK', RoomOK, BoundOK, WrongCode
  PROVE  BoundOK'
<1> DEFINE Charged(q) == /\ session'[q].failed = session[q].failed + 1
                         /\ session'[q].status \in {"OPEN", "EXPIRED"}
           Kept(q) == session'[q] = session[q] /\ row'[q] = row[q]
<1>1. \A q \in Pairings :
          /\ row[q].failed \in Nat /\ row'[q].failed \in Nat /\ guesses[q] \in Nat
          /\ session[q].failed \in Nat /\ session'[q].failed \in Nat
          /\ MaxFailures \in Nat
  BY PairingAssumption DEF TypeOK, SessionsOK, Sessions, HistoryOK
<1>2. \A q \in Pairings :
          guesses'[q] = IF q \in OpenSessions THEN guesses[q] + 1 ELSE guesses[q]
  BY DEF WrongCode, OpenSessions, TypeOK, HistoryOK
<1>3. \A q \in OpenSessions :
          /\ q \in Pairings /\ session[q].status = "OPEN"
          /\ row[q].failed <= session[q].failed /\ session[q].failed < MaxFailures
          /\ row[q].status = "NONE" => q \in unsaved
  BY DEF OpenSessions, BoundOK, RoomOK
<1>4. ASSUME NEW S \in SUBSET OpenSessions, NEW last \in SUBSET OpenSessions,
             NEW ok \in BOOLEAN, SaveGuess(S, last, ok)
      PROVE  /\ \A q \in Pairings : q \notin S \cup last => Kept(q)
             /\ \A q \in S : Charged(q) /\ Saved(q)
             /\ \A q \in last : Charged(q) /\ (IF ok THEN Saved(q) ELSE row'[q] = row[q] \/ Saved(q))
             /\ unsaved \subseteq unsaved' /\ faults' >= faults /\ (~ok => faults' > faults)
  <2>1. /\ session' = [p \in Pairings |-> IF p \in S \cup last THEN Guessed(p) ELSE session[p]]
        /\ row' = [p \in Pairings |-> IF p \in (IF ok THEN S \cup last ELSE S)
                                      THEN Stored(Guessed(p)) ELSE row[p]]
        /\ unsaved \subseteq unsaved' /\ faults' = IF ok THEN faults ELSE faults + 1
    BY <1>4 DEF SaveGuess, Count
  <2>2. \A q \in S \cup last : /\ q \in Pairings /\ session'[q] = Guessed(q)
                               /\ row'[q] \in {row[q], Stored(Guessed(q))}
                               /\ q \in S \/ ok => row'[q] = Stored(Guessed(q))
    BY <2>1, <1>3
  <2>3. \A q \in S \cup last : Charged(q) /\ (row'[q] = Stored(Guessed(q)) => Saved(q))
    BY <2>2, ChargedSession DEF Saved
  <2>4. faults \in Nat
    BY DEF TypeOK, HistoryOK
  <2>5. \A q \in Pairings : q \notin S \cup last => Kept(q)
    BY <2>1
  <2>6. faults' >= faults /\ (~ok => faults' > faults)
    BY <2>1, <2>4
  <2>7. \A q \in last : Charged(q) /\ (IF ok THEN Saved(q) ELSE row'[q] = row[q] \/ Saved(q))
    BY <2>2, <2>3
  <2>8. \A q \in S : Charged(q) /\ Saved(q)
    BY <2>2, <2>3
  <2> HIDE DEF Kept, Charged
  <2> QED BY <2>1, <2>5, <2>6, <2>7, <2>8
<1> DEFINE ChargedAll == /\ Outlived' >= Outlived
                         /\ \A q \in OpenSessions : Charged(q) /\ Saved(q)
           ChargedSome == /\ Outlived' >= Outlived + 1
                          /\ \A q \in OpenSessions :
                                 \/ Kept(q)
                                 \/ Charged(q) /\ (row'[q] = row[q] \/ Saved(q))
<1> HIDE DEF Kept, Charged
<1>5. /\ unsaved \subseteq unsaved' /\ Outlived \in Nat /\ Outlived' \in Nat
      /\ \A q \in Pairings \ OpenSessions : Kept(q)
      /\ ChargedAll \/ ChargedSome
  <2>1. CASE SaveGuess(OpenSessions, {}, TRUE)
    <3>0. {} \in SUBSET OpenSessions /\ OpenSessions \in SUBSET OpenSessions /\ TRUE \in BOOLEAN
      OBVIOUS
    <3>1. /\ \A q \in Pairings \ OpenSessions : Kept(q)
          /\ \A q \in OpenSessions : Charged(q) /\ Saved(q)
          /\ unsaved \subseteq unsaved' /\ faults' >= faults
      BY <1>4, <2>1, <3>0
    <3>2. \A q \in Pairings : row'[q].failed >= row[q].failed
      BY <1>1, <1>3, <3>1 DEF Saved, Kept, Charged
    <3> QED BY <3>1, <3>2, OutlivedGrows
  <2>2. ASSUME NEW p \in OpenSessions, NEW S \in SUBSET OpenSessions, NEW ok \in BOOLEAN,
               ok => session[p].failed + 1 >= MaxFailures, SaveGuess(S, {p}, ok)
        PROVE  /\ unsaved \subseteq unsaved' /\ Outlived \in Nat /\ Outlived' \in Nat
               /\ \A q \in Pairings \ OpenSessions : Kept(q)
               /\ ChargedSome
    <3>1. /\ \A q \in Pairings : q \notin S \cup {p} => Kept(q)
          /\ \A q \in S : Charged(q) /\ Saved(q)
          /\ Charged(p) /\ (IF ok THEN Saved(p) ELSE row'[p] = row[p] \/ Saved(p))
          /\ unsaved \subseteq unsaved' /\ faults' >= faults /\ (~ok => faults' > faults)
      <4>1. {p} \in SUBSET OpenSessions
        OBVIOUS
      <4>2. /\ \A q \in Pairings : q \notin S \cup {p} => Kept(q)
            /\ \A q \in S : Charged(q) /\ Saved(q)
            /\ \A q \in {p} :
                   Charged(q) /\ (IF ok THEN Saved(q) ELSE row'[q] = row[q] \/ Saved(q))
            /\ unsaved \subseteq unsaved' /\ faults' >= faults /\ (~ok => faults' > faults)
        BY <1>4, <2>2, <4>1
      <4> QED BY <4>2
    <3>2. \A q \in Pairings : row'[q].failed >= row[q].failed
      BY <1>1, <1>3, <3>1 DEF Saved, Kept, Charged
    <3>3. ok => p \in Exhausted' /\ p \notin Exhausted
      BY <1>1, <1>3, <2>2, <3>1 DEF Saved, Charged, Exhausted
    <3>4. /\ Outlived' >= Outlived + 1 /\ Outlived \in Nat /\ Outlived' \in Nat
      <4>1. faults' > faults \/ (\E q \in Pairings : q \in Exhausted' /\ q \notin Exhausted)
        BY <1>3, <3>1, <3>3
      <4> QED BY <3>1, <3>2, <4>1, OutlivedGrows
    <3>5. \A q \in OpenSessions :
              \/ Kept(q)
              \/ Charged(q) /\ (row'[q] = row[q] \/ Saved(q))
      <4> TAKE q \in OpenSessions
      <4>1. CASE q \in S
        BY <3>1, <4>1
      <4>2. CASE q = p
        BY <3>1, <4>2
      <4>3. CASE q \notin S \cup {p}
        BY <1>3, <3>1, <4>3
      <4> QED BY <4>1, <4>2, <4>3
    <3>6. \A q \in Pairings \ OpenSessions : Kept(q)
      BY <2>2, <3>1
    <3> QED BY <3>1, <3>4, <3>5, <3>6
  <2>3. \/ SaveGuess(OpenSessions, {}, TRUE)
        \/ \E p \in OpenSessions, S \in SUBSET OpenSessions, ok \in BOOLEAN :
               (ok => session[p].failed + 1 >= MaxFailures) /\ SaveGuess(S, {p}, ok)
    BY DEF WrongCode, OpenSessions, Saves
  <2> QED BY <2>1, <2>2, <2>3
<1>6. ASSUME NEW q \in Pairings
      PROVE  /\ session'[q].status = "OPEN" => guesses'[q] <= session'[q].failed + Outlived'
             /\ row'[q].status = "OPEN" => guesses'[q] <= row'[q].failed + Outlived'
             /\ session'[q].status # "NONE" => row'[q].failed <= session'[q].failed
             /\ row'[q].status = "NONE" => row'[q].failed = 0
             /\ row'[q].status = "NONE" /\ q \notin unsaved' =>
                    session'[q].status = "NONE" /\ guesses'[q] = 0
  <2>1. CASE q \notin OpenSessions
    BY <1>1, <1>2, <1>5, <1>6, <2>1 DEF BoundOK, Kept
  <2>2. CASE q \in OpenSessions
    BY <1>1, <1>2, <1>3, <1>5, <1>6, <2>2 DEF BoundOK, Kept, Charged, Saved
  <2> QED BY <2>1, <2>2
<1> QED BY <1>6 DEF BoundOK

LEMMA BoundKept ==
  ASSUME TypeOK, TypeOK', RoomOK, LockOK, BoundOK, [Next]_vars PROVE BoundOK'
<1>0. SessionsOK /\ RequestsOK /\ HistoryOK /\ faults \in Nat
  BY DEF TypeOK, HistoryOK
<1>u. ASSUME UNCHANGED <<pairing, guesses>>, faults' >= faults PROVE BoundOK'
  BY <1>u, MovesBound DEF Moves, pairing
<1>s. ASSUME NEW p \in Pairings, NEW s \in Sessions, NEW ok, Store(p, s, ok),
             s.status \notin {"NONE", "OPEN"}, session[p].status # "NONE",
             s.failed = session[p].failed, guesses' = guesses
      PROVE  BoundOK'
  <2>1. faults' >= faults /\ unsaved \subseteq unsaved'
    BY <1>0, <1>s DEF Store, Count
  <2>2. Stored(s).failed = s.failed /\ Stored(s).status = s.status
    BY DEF Stored, Sessions
  <2>3. ASSUME NEW q \in Pairings PROVE Moves(q)
    BY <1>0, <1>s, <2>2, StoreEffect DEF Moves, Saved
  <2> QED BY <1>s, <2>1, <2>3, MovesBound
<1>c. ASSUME NEW ok, Count(ok) PROVE faults' >= faults
  BY <1>0, <1>c DEF Count
<1>f. \A p \in Pairings :
          /\ Expired(p).failed = session[p].failed
          /\ [session[p] EXCEPT !.status = "CANCELLED"].failed = session[p].failed
          /\ [session[p] EXCEPT !.status = "CANCELLED"].status = "CANCELLED"
          /\ [session[p] EXCEPT !.status = "CONFIRMED", !.secret = TRUE].failed = session[p].failed
          /\ [session[p] EXCEPT !.status = "CONFIRMED", !.secret = TRUE].status = "CONFIRMED"
          /\ Expiring(p) => session[p].status # "NONE"
  BY <1>0 DEF Expired, Expiring, SessionsOK, Sessions, Loaded
<1>1. ASSUME NEW p \in Pairings, Custodian(p) PROVE BoundOK'
  <2>1. CASE Start(p)
    <3> DEFINE s == [Absent EXCEPT !.status = "OPEN"]
    <3>1. PICK ok \in Saves : Store(p, s, ok)
      BY <2>1 DEF Start
    <3>2. s \in Sessions /\ s.status = "OPEN" /\ s.failed = 0
      BY <1>0, SessionForms DEF Absent
    <3>3. row[p].status = "NONE" /\ p \notin unsaved /\ guesses' = guesses
      BY <2>1 DEF Start
    <3> HIDE DEF s
    <3>4. faults' >= faults /\ unsaved \subseteq unsaved'
      BY <1>0, <3>1 DEF Store, Count
    <3>5. Stored(s).failed = s.failed /\ Stored(s).status = s.status
      BY <3>2 DEF Stored, Sessions
    <3>6. ASSUME NEW q \in Pairings PROVE Moves(q)
      BY <1>0, <3>1, <3>2, <3>3, <3>5, StoreEffect DEF Moves, Saved
    <3> QED BY <3>3, <3>4, <3>6, MovesBound
  <2>2. CASE ViewExpiring(p)
    BY <1>0, <1>s, <1>f, <2>2, SessionForms DEF ViewExpiring
  <2>3. CASE CancelExpiring(p)
    <3>1. /\ session' = [session EXCEPT ![p] = Expired(p)]
          /\ UNCHANGED <<row, unsaved, guesses, faults>> /\ Expiring(p)
      BY <2>3 DEF CancelExpiring, told
    <3>2. ASSUME NEW q \in Pairings PROVE Moves(q)
      BY <1>0, <1>f, <3>1, SessionForms DEF Moves, SessionsOK
    <3> QED BY <1>0, <3>1, <3>2, MovesBound
  <2>4. CASE Cancel(p)
    BY <1>0, <1>s, <1>f, <2>4, SessionForms DEF Cancel, Loaded
  <2>5. CASE Confirm(p)
    <3>1. session[p].status # "NONE" /\ guesses' = guesses
      BY <2>5, PairingAssumption DEF Confirm, LockOK, told
    <3> QED BY <1>0, <1>s, <1>f, <2>5, <3>1, SessionForms DEF Confirm
  <2>6. CASE Create(p)
    BY <1>u, <1>c, <2>6 DEF Create, told
  <2> QED BY <1>0, <1>1, <1>u, <2>1, <2>2, <2>3, <2>4, <2>5, <2>6 DEF Custodian, View, Deadline, told
<1>2. ASSUME NEW c \in Connectors, Submission(c) PROVE BoundOK'
  <2>1. ASSUME NEW p \in Pairings, SubmitExpiring(c, p) PROVE BoundOK'
    BY <1>0, <1>s, <1>f, <2>1, SessionForms DEF SubmitExpiring, told
  <2>2. ASSUME NEW p \in Pairings, NEW i \in Identities, NEW stage, Submit(c, p, i, stage)
        PROVE  BoundOK'
    <3> DEFINE s == [session[p] EXCEPT !.status = "CANDIDATE_SUBMITTED", !.candidate = i,
                                       !.owner = c]
    <3>1. s \in Sessions /\ s.status = "CANDIDATE_SUBMITTED" /\ s.failed = session[p].failed
      BY <1>0, SubmittedForm DEF SessionsOK, Sessions
    <3>2. PICK ok \in Saves : Store(p, s, ok)
      BY <2>2 DEF Submit
    <3>3. session[p].status # "NONE" /\ guesses' = guesses
      BY <2>2 DEF Submit, Usable
    <3> HIDE DEF s
    <3> QED BY <1>s, <3>1, <3>2, <3>3
  <2> QED BY <1>2, <2>1, <2>2 DEF Submission
<1>3. ASSUME NEW c \in Connectors, Delivery(c) PROVE BoundOK'
  <2>1. CASE Consume(c)
    <3> DEFINE p == socket[c].pairing
               s == [session[p] EXCEPT !.delivered = TRUE, !.secret = FALSE]
    <3>1. p \in Pairings
      BY <1>0, <2>1 DEF Consume, RequestsOK
    <3>2. s \in Sessions /\ s.status = "CONFIRMED" /\ s.failed = session[p].failed
      BY <1>0, <2>1, <3>1, SessionForms DEF Consume, SessionsOK, Sessions
    <3>3. (\E ok \in Saves : Store(p, s, ok)) /\ guesses' = guesses
          /\ session[p].status # "NONE"
      BY <2>1 DEF Consume, told
    <3> HIDE DEF p, s
    <3> QED BY <1>s, <3>1, <3>2, <3>3
  <2> QED BY <1>0, <1>3, <1>u, <2>1 DEF Delivery, Send, Drop, told
<1>4. CASE WrongCode
  BY <1>4, GuessedBound
<1>5. ASSUME NEW g \in Registers, Registering(g) PROVE BoundOK'
  BY <1>0, <1>5, <1>u, <1>c DEF Registering, RegisterCheck, RegisterInsert, RegisterPublish, told
<1>6. ASSUME NEW r \in Rebinds, Rebinding(r) PROVE BoundOK'
  <2>1. UNCHANGED <<pairing, guesses>>
    BY <1>6 DEF Rebinding, BindSet, BindRead, BindStore, told
  <2>2. faults' = faults \/ \E ok : Count(ok)
    BY <1>6 DEF Rebinding, BindSet, BindRead, BindStore
  <2> QED BY <1>0, <1>c, <1>u, <2>1, <2>2
<1>7. CASE Restart
  <2>1. /\ session' = [p \in Pairings |-> LoadedRow(p)]
        /\ UNCHANGED <<row, unsaved, guesses, faults>>
    BY <1>7 DEF Restart, told
  <2>2. ASSUME NEW q \in Pairings PROVE Moves(q)
    BY <2>1 DEF Moves, LoadedRow, Absent
  <2> QED BY <1>0, <2>1, <2>2, MovesBound
<1>8. CASE UNCHANGED vars
  BY <1>0, <1>8, <1>u DEF vars, told
<1> QED BY <1>1, <1>2, <1>3, <1>4, <1>5, <1>6, <1>7, <1>8, Steps

\* A session open to a wrong code has outlived fewer than the limit, but for one
\* that each exhausted session, and each failed save, let it outlive: for any
\* number of sessions and restarts (pairing.py, _find_by_code).
THEOREM GuessesAreBounded == Spec => []GuessesBounded
<1>1. Init => LockOK /\ BoundOK
  BY DEF Init, LockOK, BoundOK, Absent
<1>2. TypeOK /\ TypeOK' /\ RoomOK /\ LockOK /\ BoundOK /\ [Next]_vars => LockOK' /\ BoundOK'
  BY LockKept, BoundKept
<1>3. TypeOK /\ RoomOK /\ BoundOK => GuessesBounded
  <2> SUFFICES ASSUME TypeOK, RoomOK, BoundOK, NEW p \in Pairings, session[p].status = "OPEN"
               PROVE  guesses[p] < MaxFailures + Cardinality(Exhausted) + faults
    BY DEF GuessesBounded
  <2>1. guesses[p] <= session[p].failed + Outlived /\ session[p].failed < MaxFailures
    BY DEF BoundOK, RoomOK
  <2>2. guesses[p] \in Nat /\ session[p].failed \in Nat /\ MaxFailures \in Nat
    BY PairingAssumption DEF TypeOK, SessionsOK, Sessions, HistoryOK
  <2>3. /\ Cardinality(Exhausted) \in Nat /\ faults \in Nat
        /\ Outlived = Cardinality(Exhausted) + faults
    BY OutlivedType DEF Outlived
  <2> QED BY <2>1, <2>2, <2>3
<1> QED BY <1>1, <1>2, <1>3, TypeInvariant, PTL DEF Spec
=============================================================================
