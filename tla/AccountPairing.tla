---------------------------- MODULE AccountPairing ----------------------------
(***************************************************************************)
(* Account Discovery Pairing (pairing.py) and the accounts and connector   *)
(* keys it creates (broker_accounts.py), with the HTTP handlers and the    *)
(* websocket loop that drive them (main.py).                               *)
(*                                                                         *)
(* The registries keep their state in memory and save it row by row: a     *)
(* crash forgets the memory, and a save that fails leaves memory ahead of  *)
(* its row.  Every method of PairingRegistry holds its lock from beginning *)
(* to end, so that it is one step, except confirm, which commits the       *)
(* account before it saves the session.  register and bind_connector take  *)
(* no lock and run in threads of their own.                                *)
(*                                                                         *)
(* An account is named by its identity, which the tables keep unique; a    *)
(* key by the pairing or the bind_connector call that made it; a device    *)
(* code by its pairing.  One custodian session.  Readiness flags, leases   *)
(* and what the dashboard shows are left out.                              *)
(***************************************************************************)
EXTENDS Naturals, FiniteSets

CONSTANTS
    Pairings,       \* pairing sessions
    Connectors,     \* connector sessions, one websocket or post each
    Identities,     \* broker identities
    Registers,      \* calls of register
    Rebinds,        \* calls of bind_connector
    None,           \* no candidate, connector or key
    MaxFailures,    \* max_failed_attempts
    MaxGuesses,     \* bound on wrong device codes
    MaxFaults,      \* bound on saves that fail
    MaxRestarts     \* bound on restarts

ASSUME PairingAssumption ==
    /\ MaxFailures \in Nat \ {0} /\ MaxGuesses \in Nat
    /\ MaxFaults \in Nat /\ MaxRestarts \in Nat
    /\ IsFiniteSet(Pairings) /\ Pairings \cap Rebinds = {}
    /\ None \notin Pairings \cup Connectors \cup Identities \cup Rebinds

VARIABLES
    session,        \* PairingRegistry._sessions
    row,            \* table pairing_sessions
    account,        \* AccountRegistry.accounts and bindings
    accountRow,     \* tables broker_accounts and connector_bindings
    confirming,     \* the pairing confirm holds the lock for
    socket,         \* a connector's websocket and the pairing it submitted to
    register,       \* calls of register
    rebind,         \* calls of bind_connector
    due,            \* pairings past expires_at
    \* history
    codes,          \* device codes given to the custodian
    accepted,       \* submissions a connector was told were received
    seen,           \* the candidate the custodian was shown
    ended,          \* pairings the custodian was told are cancelled or expired
    made,           \* the identity of the account a pairing made
    created,        \* accounts made of an identity
    guesses,        \* wrong codes tried while a pairing was open
    held,           \* keys handed to their connector
    unsaved,        \* pairings with a save that failed
    \* bounds
    wrong, faults, restarts

pairing == <<session, row, unsaved>>
accounts == <<account, accountRow, made, created>>
requests == <<register, rebind>>
told == <<codes, accepted, seen, ended, guesses, held>>
vars == <<pairing, accounts, confirming, socket, requests, due, told,
          wrong, faults, restarts>>

Keys == Pairings \cup Rebinds
Ended == {"CONFIRMED", "CANCELLED", "EXPIRED"}
Loaded == {"OPEN", "CANDIDATE_SUBMITTED"}
Absent == [status |-> "NONE", candidate |-> None, owner |-> None, failed |-> 0,
           delivered |-> FALSE, secret |-> FALSE]
Closed == [stage |-> "closed", pairing |-> None]
Over == [stage |-> "done", identity |-> None]
NoAccount == [exists |-> FALSE, key |-> None]

Init ==
    /\ session = [p \in Pairings |-> Absent] /\ row = session
    /\ account = [i \in Identities |-> NoAccount] /\ accountRow = account
    /\ confirming = None
    /\ socket = [c \in Connectors |-> [stage |-> "new", pairing |-> None]]
    /\ register = [g \in Registers |-> [stage |-> "new", identity |-> None]]
    /\ rebind = [r \in Rebinds |-> [stage |-> "new", identity |-> None,
                                    image |-> None, over |-> None]]
    /\ due = {} /\ codes = {} /\ ended = {} /\ held = {} /\ unsaved = {}
    /\ accepted = [p \in Pairings |-> 0] /\ guesses = accepted
    /\ seen = [p \in Pairings |-> None] /\ made = seen
    /\ created = [i \in Identities |-> 0]
    /\ wrong = 0 /\ faults = 0 /\ restarts = 0

-----------------------------------------------------------------------------
(* Saving.                                                                 *)

Saves == IF faults < MaxFaults THEN BOOLEAN ELSE {TRUE}
Count(ok) == faults' = IF ok THEN faults ELSE faults + 1

\* The row of a session: everything but the connector's secret.
Stored(s) == [s EXCEPT !.secret = FALSE]

\* A session changes in memory, and _persist saves it or raises.
Store(p, s, ok) ==
    /\ session' = [session EXCEPT ![p] = s]
    /\ row' = IF ok THEN [row EXCEPT ![p] = Stored(s)] ELSE row
    /\ unsaved' = IF ok THEN unsaved ELSE unsaved \cup {p}
    /\ Count(ok)

\* No confirm holds the registry's lock.
Free == confirming = None

Expiring(p) == p \in due /\ session[p].status \in Loaded
Expired(p) == [session[p] EXCEPT !.status = "EXPIRED"]

-----------------------------------------------------------------------------
(* The custodian.                                                          *)

\* A session whose first save fails stays in memory; its code is never told.
Start(p) ==
    /\ Free /\ session[p].status = "NONE" /\ row[p].status = "NONE" /\ p \notin unsaved
    /\ \E ok \in Saves :
        /\ Store(p, [Absent EXCEPT !.status = "OPEN"], ok)
        /\ codes' = IF ok THEN codes \cup {p} ELSE codes
    /\ UNCHANGED <<accounts, confirming, socket, requests, due, accepted, seen,
                   ended, guesses, held, wrong, restarts>>

ViewExpiring(p) ==
    /\ Free /\ Expiring(p)
    /\ \E ok \in Saves :
        /\ Store(p, Expired(p), ok)
        /\ ended' = IF ok THEN ended \cup {p} ELSE ended
    /\ UNCHANGED <<accounts, confirming, socket, requests, due, codes, accepted,
                   seen, guesses, held, wrong, restarts>>

View(p) ==
    /\ Free /\ session[p].status # "NONE" /\ ~Expiring(p)
    /\ seen' = [seen EXCEPT ![p] = session[p].candidate]
    /\ ended' = IF session[p].status \in {"CANCELLED", "EXPIRED"}
                THEN ended \cup {p} ELSE ended
    /\ UNCHANGED <<pairing, accounts, confirming, socket, requests, due, codes,
                   accepted, guesses, held, wrong, faults, restarts>>

\* A session found expired is refused without being saved.
CancelExpiring(p) ==
    /\ Free /\ Expiring(p)
    /\ session' = [session EXCEPT ![p] = Expired(p)]
    /\ UNCHANGED <<row, unsaved, accounts, confirming, socket, requests, due,
                   told, wrong, faults, restarts>>

Cancel(p) ==
    /\ Free /\ session[p].status \in Loaded /\ ~Expiring(p)
    /\ \E ok \in Saves :
        /\ Store(p, [session[p] EXCEPT !.status = "CANCELLED"], ok)
        /\ ended' = IF ok THEN ended \cup {p} ELSE ended
    /\ UNCHANGED <<accounts, confirming, socket, requests, due, codes, accepted,
                   seen, guesses, held, wrong, restarts>>

\* confirm_pairing_session and the guards of confirm.  A custodian confirms a
\* candidate it was shown.
Confirmable(p) ==
    /\ Free /\ ~Expiring(p) /\ seen[p] # None
    /\ session[p].status = "CANDIDATE_SUBMITTED" /\ session[p].candidate # None

\* Mutant: the binding is left out of the transaction.
CreateUnbound(p) ==
    LET i == session[p].candidate
    IN  /\ Confirmable(p) /\ ~account[i].exists /\ ~accountRow[i].exists
        /\ accountRow' = [accountRow EXCEPT ![i].exists = TRUE]
        /\ account' = [account EXCEPT ![i] = [exists |-> TRUE, key |-> p]]
        /\ made' = [made EXCEPT ![p] = i]
        /\ created' = [created EXCEPT ![i] = @ + 1]
        /\ confirming' = p
        /\ UNCHANGED <<pairing, socket, requests, due, told, wrong, faults, restarts>>

\* The first half of confirm, create_bound_account: the account and its key
\* are committed in one transaction.  An identity that memory or the tables
\* know is refused.
Create(p) ==
    LET i == session[p].candidate
    IN  /\ Confirmable(p) /\ ~account[i].exists /\ ~accountRow[i].exists
        /\ \E ok \in Saves :
            /\ Count(ok)
            /\ IF ok
               THEN /\ accountRow' = [accountRow EXCEPT ![i] = [exists |-> TRUE, key |-> p]]
                    /\ account' = [account EXCEPT ![i] = [exists |-> TRUE, key |-> p]]
                    /\ made' = [made EXCEPT ![p] = i]
                    /\ created' = [created EXCEPT ![i] = @ + 1]
                    /\ confirming' = p
               ELSE UNCHANGED <<accounts, confirming>>
        /\ UNCHANGED <<pairing, socket, requests, due, told, wrong, restarts>>

\* The second half: the secret waits in memory for its connector.
Confirm(p) ==
    /\ confirming = p /\ confirming' = None
    /\ \E ok \in Saves :
        Store(p, [session[p] EXCEPT !.status = "CONFIRMED", !.secret = TRUE], ok)
    /\ UNCHANGED <<accounts, socket, requests, due, told, wrong, restarts>>

-----------------------------------------------------------------------------
(* The connector.                                                          *)

\* submit_candidate with the right code, over a websocket that then waits or
\* by a post that does not.  A code that was used is refused without a change.
SubmitExpiring(c, p) ==
    /\ Free /\ socket[c].stage = "new" /\ p \in codes /\ Expiring(p)
    /\ \E ok \in Saves : Store(p, Expired(p), ok)
    /\ socket' = [socket EXCEPT ![c] = Closed]
    /\ UNCHANGED <<accounts, confirming, requests, due, told, wrong, restarts>>

\* Mutant: a candidate may be submitted again until the custodian confirms.
UsableAgain(p) == session[p].status \in Loaded

Usable(p) == session[p].status = "OPEN"

\* Mutant: the use of a code is not saved.
SubmitUnsaved(c, p, i, stage) ==
    /\ Free /\ socket[c].stage = "new" /\ p \in codes /\ ~Expiring(p)
    /\ Usable(p)
    /\ session' = [session EXCEPT ![p] =
           [@ EXCEPT !.status = "CANDIDATE_SUBMITTED", !.candidate = i, !.owner = c]]
    /\ socket' = [socket EXCEPT ![c] =
           IF stage = "waiting" THEN [stage |-> stage, pairing |-> p] ELSE Closed]
    /\ accepted' = [accepted EXCEPT ![p] = @ + 1]
    /\ UNCHANGED <<row, unsaved, accounts, confirming, requests, due, codes, seen,
                   ended, guesses, held, wrong, faults, restarts>>

Submit(c, p, i, stage) ==
    /\ Free /\ socket[c].stage = "new" /\ p \in codes /\ ~Expiring(p)
    /\ Usable(p)
    /\ \E ok \in Saves :
        /\ Store(p, [session[p] EXCEPT !.status = "CANDIDATE_SUBMITTED",
                                       !.candidate = i, !.owner = c], ok)
        /\ socket' = [socket EXCEPT ![c] =
               IF ok /\ stage = "waiting" THEN [stage |-> stage, pairing |-> p] ELSE Closed]
        /\ accepted' = [accepted EXCEPT ![p] = IF ok THEN @ + 1 ELSE @]
    /\ UNCHANGED <<accounts, confirming, requests, due, codes, seen, ended,
                   guesses, held, wrong, restarts>>

SubmitAndWait(c, p, i) == Submit(c, p, i, "waiting")
SubmitByPost(c, p, i) == Submit(c, p, i, "closed")

\* A code no session in memory has counts against every open session.  The
\* loop stops at the first that is exhausted, or whose save fails: the ones
\* before it (in an order left open) are counted, the ones after it are not.
Guessed(p) ==
    LET n == session[p].failed + 1
    IN  [session[p] EXCEPT !.failed = n,
                           !.status = IF n >= MaxFailures THEN "EXPIRED" ELSE @]

\* Mutant: only the session that is exhausted is saved.
SaveGuessLast(S, last, ok) ==
    /\ session' = [p \in Pairings |-> IF p \in S \cup last THEN Guessed(p) ELSE session[p]]
    /\ row' = [p \in Pairings |-> IF ok /\ p \in last THEN Stored(Guessed(p)) ELSE row[p]]
    /\ unsaved' = IF ok THEN unsaved ELSE unsaved \cup last
    /\ Count(ok)

SaveGuess(S, last, ok) ==
    LET stored == IF ok THEN S \cup last ELSE S
    IN  /\ session' = [p \in Pairings |-> IF p \in S \cup last THEN Guessed(p) ELSE session[p]]
        /\ row' = [p \in Pairings |-> IF p \in stored THEN Stored(Guessed(p)) ELSE row[p]]
        /\ unsaved' = unsaved \cup ((S \cup last) \ stored)
        /\ Count(ok)

WrongCode ==
    LET Open == {p \in Pairings : session[p].status = "OPEN"}
        Last == {p \in Open : session[p].failed + 1 >= MaxFailures}
    IN  /\ Free /\ wrong < MaxGuesses /\ wrong' = wrong + 1 /\ Open # {}
        /\ guesses' = [p \in Pairings |-> IF p \in Open THEN guesses[p] + 1 ELSE guesses[p]]
        /\ \/ Last = {} /\ SaveGuess(Open, {}, TRUE)
           \/ \E p \in Open, S \in SUBSET (Open \ Last), ok \in Saves :
                /\ p \notin S /\ (ok => p \in Last)
                /\ SaveGuess(S, {p}, ok)
        /\ UNCHANGED <<accounts, confirming, socket, requests, due, codes,
                       accepted, seen, ended, held, restarts>>

\* consume_key for a websocket that waits: the key is marked delivered, and
\* forgotten, before it is sent.
Consume(c) ==
    LET p == socket[c].pairing
    IN  /\ Free /\ socket[c].stage = "waiting" /\ session[p].status = "CONFIRMED"
        /\ session[p].owner = c /\ ~session[p].delivered /\ session[p].secret
        /\ \E ok \in Saves :
            /\ Store(p, [session[p] EXCEPT !.delivered = TRUE, !.secret = FALSE], ok)
            /\ socket' = [socket EXCEPT ![c] = IF ok THEN [@ EXCEPT !.stage = "sending"] ELSE Closed]
        /\ UNCHANGED <<accounts, confirming, requests, due, told, wrong, restarts>>

Send(c) ==
    /\ socket[c].stage = "sending"
    /\ held' = held \cup {socket[c].pairing}
    /\ socket' = [socket EXCEPT ![c] = Closed]
    /\ UNCHANGED <<pairing, accounts, confirming, requests, due, codes, accepted,
                   seen, ended, guesses, wrong, faults, restarts>>

Drop(c) ==
    /\ socket[c].stage \in {"waiting", "sending"}
    /\ socket' = [socket EXCEPT ![c] = Closed]
    /\ UNCHANGED <<pairing, accounts, confirming, requests, due, told, wrong,
                   faults, restarts>>

-----------------------------------------------------------------------------
(* register and bind_connector.                                            *)

\* The identity is looked up in memory, ...
RegisterCheck(g, i) ==
    /\ register[g].stage = "new" /\ ~account[i].exists
    /\ register' = [register EXCEPT ![g] = [stage |-> "checked", identity |-> i]]
    /\ UNCHANGED <<pairing, accounts, confirming, socket, rebind, due, told,
                   wrong, faults, restarts>>

\* Mutant: the tables take a second account of an identity.
InsertAnyway(g) ==
    /\ register[g].stage = "checked"
    /\ accountRow' = [accountRow EXCEPT ![register[g].identity].exists = TRUE]
    /\ created' = [created EXCEPT ![register[g].identity] = @ + 1]
    /\ register' = [register EXCEPT ![g].stage = "inserted"]
    /\ UNCHANGED <<pairing, account, made, confirming, socket, rebind, due, told,
                   wrong, faults, restarts>>

\* ... inserted, where the tables refuse a duplicate, ...
RegisterInsert(g) ==
    LET i == register[g].identity
    IN  /\ register[g].stage = "checked"
        /\ \E ok \in Saves :
            /\ Count(ok)
            /\ IF ok /\ ~accountRow[i].exists
               THEN /\ accountRow' = [accountRow EXCEPT ![i].exists = TRUE]
                    /\ created' = [created EXCEPT ![i] = @ + 1]
                    /\ register' = [register EXCEPT ![g].stage = "inserted"]
               ELSE /\ register' = [register EXCEPT ![g] = Over]
                    /\ UNCHANGED <<accountRow, created>>
        /\ UNCHANGED <<pairing, account, made, confirming, socket, rebind, due,
                       told, wrong, restarts>>

\* ... and published.
RegisterPublish(g) ==
    /\ register[g].stage = "inserted"
    /\ account' = [account EXCEPT ![register[g].identity] = [exists |-> TRUE, key |-> None]]
    /\ register' = [register EXCEPT ![g] = Over]
    /\ UNCHANGED <<pairing, accountRow, made, created, confirming, socket, rebind,
                   due, told, wrong, faults, restarts>>

\* bind_connector puts a new key in memory, ...  over (history) is the key on
\* record that it replaces, unless other calls for the account are in progress.
Binding(i) == {r \in Rebinds : rebind[r].identity = i /\ rebind[r].stage \in {"set", "read"}}
BindSet(r, i) ==
    /\ rebind[r].stage = "new" /\ account[i].exists
    /\ account' = [account EXCEPT ![i].key = r]
    /\ rebind' = [rebind EXCEPT ![r] =
           [stage |-> "set", identity |-> i, image |-> None,
            over |-> IF Binding(i) = {} THEN accountRow[i].key ELSE None]]
    /\ UNCHANGED <<pairing, accountRow, made, created, confirming, socket,
                   register, due, told, wrong, faults, restarts>>

\* ... reads back the binding that is there then, ...
BindRead(r) ==
    /\ rebind[r].stage = "set"
    /\ rebind' = [rebind EXCEPT ![r] =
           [@ EXCEPT !.stage = "read", !.image = account[rebind[r].identity].key]]
    /\ UNCHANGED <<pairing, accounts, confirming, socket, register, due, told,
                   wrong, faults, restarts>>

\* Mutant: the answer is given without saving the key.
BindAnswered(r) ==
    /\ rebind[r].stage = "read"
    /\ rebind' = [rebind EXCEPT ![r] = [@ EXCEPT !.stage = "done", !.image = None]]
    /\ UNCHANGED <<pairing, accounts, confirming, socket, register, due, told,
                   wrong, faults, restarts>>

\* ... and saves it; a save of the account, which may fail too, comes before
\* the answer.
BindStore(r) ==
    /\ rebind[r].stage = "read"
    /\ \E stored, answered \in Saves :
        /\ answered => stored
        /\ Count(answered)
        /\ accountRow' = IF stored
                         THEN [accountRow EXCEPT ![rebind[r].identity].key = rebind[r].image]
                         ELSE accountRow
        /\ rebind' = [rebind EXCEPT ![r] =
               [@ EXCEPT !.stage = IF answered THEN "done" ELSE "failed", !.image = None]]
    /\ UNCHANGED <<pairing, account, made, created, confirming, socket, register,
                   due, told, wrong, restarts>>

\* authenticate, as far as keys go.
Opens(i, k) == account[i].exists /\ k # None /\ account[i].key = k

-----------------------------------------------------------------------------
(* Time, and the process.                                                  *)

Deadline(p) ==
    /\ session[p].status \in Loaded /\ p \notin due
    /\ due' = due \cup {p}
    /\ UNCHANGED <<pairing, accounts, confirming, socket, requests, told, wrong,
                   faults, restarts>>

\* _load reads the sessions that can go on.
LoadedRow(p) == IF row[p].status \in Loaded THEN row[p] ELSE Absent

\* What was in flight is gone; every account is read back.
Restart ==
    /\ restarts < MaxRestarts /\ restarts' = restarts + 1
    /\ session' = [p \in Pairings |-> LoadedRow(p)]
    /\ account' = accountRow
    /\ confirming' = None
    /\ socket' = [c \in Connectors |-> IF socket[c].stage \in {"waiting", "sending"}
                                       THEN Closed
                                       ELSE socket[c]]
    /\ register' = [g \in Registers |-> IF register[g].stage \in {"checked", "inserted"}
                                        THEN Over
                                        ELSE register[g]]
    /\ rebind' = [r \in Rebinds |-> IF rebind[r].stage \in {"set", "read"}
                                    THEN [rebind[r] EXCEPT !.stage = "failed", !.image = None]
                                    ELSE rebind[r]]
    /\ UNCHANGED <<row, unsaved, accountRow, made, created, due, told, wrong, faults>>

Next ==
    \/ \E p \in Pairings :
        \/ Start(p) \/ ViewExpiring(p) \/ View(p) \/ CancelExpiring(p) \/ Cancel(p)
        \/ Create(p) \/ Confirm(p) \/ Deadline(p)
    \/ \E c \in Connectors :
        \/ \E p \in Pairings :
            \/ SubmitExpiring(c, p)
            \/ \E i \in Identities : SubmitAndWait(c, p, i) \/ SubmitByPost(c, p, i)
        \/ Consume(c) \/ Send(c) \/ Drop(c)
    \/ WrongCode
    \/ \E g \in Registers :
        (\E i \in Identities : RegisterCheck(g, i)) \/ RegisterInsert(g) \/ RegisterPublish(g)
    \/ \E r \in Rebinds :
        (\E i \in Identities : BindSet(r, i)) \/ BindRead(r) \/ BindStore(r)
    \/ Restart

Spec == Init /\ [][Next]_vars
-----------------------------------------------------------------------------
(* Properties.                                                             *)

Sessions == [status : {"NONE"} \cup Loaded \cup Ended,
             candidate : Identities \cup {None}, owner : Connectors \cup {None},
             failed : 0 .. MaxFailures, delivered : BOOLEAN, secret : BOOLEAN]
Accounts == [exists : BOOLEAN, key : Keys \cup {None}]

SessionsOK ==
    /\ session \in [Pairings -> Sessions]
    /\ row \in [Pairings -> {s \in Sessions : ~s.secret}]

AccountsOK ==
    /\ account \in [Identities -> Accounts] /\ accountRow \in [Identities -> Accounts]

RequestsOK ==
    /\ confirming \in Pairings \cup {None}
    /\ socket \in [Connectors -> [stage : {"new", "closed"}, pairing : {None}]
                              \cup [stage : {"waiting", "sending"}, pairing : Pairings]]
    /\ register \in [Registers -> [stage : {"new", "done"}, identity : {None}]
                               \cup [stage : {"checked", "inserted"}, identity : Identities]]
    /\ rebind \in [Rebinds -> [stage : {"new", "set", "read", "done", "failed"},
                               identity : Identities \cup {None},
                               image : Keys \cup {None}, over : Keys \cup {None}]]
    /\ \A r \in Rebinds : rebind[r].stage # "new" => rebind[r].identity \in Identities

HistoryOK ==
    /\ due \subseteq Pairings /\ codes \subseteq Pairings /\ ended \subseteq Pairings
    /\ held \subseteq Pairings /\ unsaved \subseteq Pairings
    /\ accepted \in [Pairings -> Nat] /\ guesses \in [Pairings -> Nat]
    /\ seen \in [Pairings -> Identities \cup {None}]
    /\ made \in [Pairings -> Identities \cup {None}]
    /\ created \in [Identities -> Nat]
    /\ wrong \in Nat /\ faults \in Nat /\ restarts \in Nat

\* Types; the rows of sessions never hold a connector's secret, as the
\* docstring of PairingRegistry has it (pairing.py:113).
TypeOK == SessionsOK /\ AccountsOK /\ RequestsOK /\ HistoryOK

\* A device code is accepted from one connector at most, whatever is lost in
\* a restart: submit_candidate answers only after the use is saved.
CodeTakenOnce == \A p \in Pairings : accepted[p] <= 1

\* The account a confirmation makes is the candidate the custodian was shown,
\* unless a save of the session failed: submit_candidate never replaces it.
ConfirmedAsSeen ==
    \A p \in Pairings \ unsaved : made[p] \in {None, seen[p]}

\* A pairing the custodian was told is cancelled or expired makes no account
\* from then on, not in a later process either, unless a save of it failed.
EndedIsFinal ==
    [][\A p \in ended \ unsaved : made'[p] = made[p]]_vars

\* One account per broker identity, although register looks it up without a
\* lock and confirm may come between the look and the insert.
CreatedOnce == \A i \in Identities : created[i] <= 1

\* Once bind_connector has answered, the key that was on record when it began
\* opens no session, in this process or a later one, whatever calls begin
\* after it (a call still in progress then may save an older key).
SupersededKeyIsDead ==
    \A r \in Rebinds :
        rebind[r].stage = "done" => ~Opens(rebind[r].identity, rebind[r].over)

\* Wrong codes an open pairing has outlived: fewer than the limit, one for
\* each session that was exhausted before it in the loop of _find_by_code,
\* and one for a save that failed.  A restart wins no more.
Exhausted == {p \in Pairings : row[p].failed >= MaxFailures}
GuessesBounded ==
    \A p \in Pairings : session[p].status = "OPEN" =>
        guesses[p] < MaxFailures + Cardinality(Exhausted) + faults

\* A connector that was handed a key can sign in with it to the account its
\* candidate became, in this process and a later one, until a new key is bound:
\* the account and its binding are one transaction.
HandedKeyOpens ==
    \A p \in held :
        \/ Opens(made[p], p)
        \/ \E r \in Rebinds : rebind[r].stage # "new" /\ rebind[r].identity = made[p]
=============================================================================
