----------------------------- MODULE BrokerAccounts -----------------------------
(***************************************************************************)
(* One broker account of AccountRegistry (broker_accounts.py), its lease,  *)
(* health and custodian's choices, and the sessions of its connector as    *)
(* the stream handler of main.py and the registry of connector_delivery.py *)
(* admit, serve and end them.                                              *)
(*                                                                         *)
(* A handler runs on the event loop, where nothing else runs until it      *)
(* awaits: its database saves are calls that block the loop.  Custodian    *)
(* requests run in threads, with their own saves.  Every save writes the   *)
(* whole row from the values read when it began, without a lock.           *)
(*                                                                         *)
(* Of the custodian's settings (mode, live execution) one stands for all.  *)
(* A session id is used again only when nothing holds it any more, so that *)
(* it is as good as new.  Identity and keys are in AccountPairing, what a  *)
(* served session delivers in ConnectorDelivery, and what the connector's  *)
(* health does to the exposure gate in ExecutionCoordinator.               *)
(***************************************************************************)
EXTENDS Naturals, FiniteSets

CONSTANTS
    Sessions,     \* ids of connector sessions
    Editors,      \* threads with a custodian's request
    None,         \* no session
    Settings,     \* values of the custodian's setting
    MaxChanges,   \* bound on changes of the setting
    MaxBreaks,    \* bound on connections that the connector loses
    MaxRestarts   \* bound on backend restarts

ASSUME AccountsAssumption ==
    /\ None \notin Sessions /\ IsFiniteSet(Sessions)
    /\ "loop" \notin Editors /\ Settings # {}
    /\ MaxChanges \in Nat /\ MaxBreaks \in Nat /\ MaxRestarts \in Nat

VARIABLES
    account,     \* BrokerAccount: setting, healthy, reconciled, lease_owner
    leased,      \* is lease_expires_at in the future?
    row,         \* its row in broker_accounts
    saving,      \* the values each save in progress was called with, or {}
    admitting,   \* the session whose hello the loop is saving, or None
    handler,     \* the stream handler of each session
    registered,  \* ConnectorDeliveryRegistry._sessions of the account
    peer,        \* the session the connector has a connection for
    changes, breaks, restarts

loop == <<admitting, handler, registered, peer>>
bounds == <<changes, breaks, restarts>>
vars == <<account, leased, row, saving, loop, bounds>>

Idle == saving["loop"] = {}
Renewed(a, s) == [a EXCEPT !.owner = s, !.healthy = TRUE]

\* nothing remembers the id s
Unused(s) ==
    /\ handler[s] = "none" /\ registered # s /\ peer # s
    /\ \A a \in {account, row} \cup UNION {saving[t] : t \in DOMAIN saving} : a.owner # s

\* a fresh id: which one does not matter
Fresh(s) == Unused(s) /\ s = CHOOSE t \in Sessions : Unused(t)

Init ==
    /\ \E v \in Settings :
           account = [setting |-> v, healthy |-> FALSE, reconciled |-> FALSE, owner |-> None]
    /\ row = account /\ leased = FALSE
    /\ saving = [t \in Editors \cup {"loop"} |-> {}]
    /\ admitting = None /\ handler = [s \in Sessions |-> "none"]
    /\ registered = None /\ peer = None
    /\ changes = 0 /\ breaks = 0 /\ restarts = 0

-----------------------------------------------------------------------------
(* _persist_account: the values are read when it is called, and written    *)
(* some time later.                                                        *)

Persist(t, a) == saving' = [saving EXCEPT ![t] = {a}]

\* set_live_execution, set_execution_mode: a value already set is not saved.
Change(e, v) ==
    /\ saving[e] = {} /\ changes < MaxChanges /\ v # account.setting
    /\ account' = [account EXCEPT !.setting = v] /\ Persist(e, account')
    /\ changes' = changes + 1
    /\ UNCHANGED <<leased, row, loop, breaks, restarts>>

\* The same mode again, or bind_connector: saves the account as it is.
SaveAgain(e) ==
    /\ saving[e] = {} /\ changes < MaxChanges
    /\ Persist(e, account) /\ changes' = changes + 1
    /\ UNCHANGED <<account, leased, row, loop, breaks, restarts>>

EditorSaved(e) ==
    /\ \E a \in saving[e] : row' = a
    /\ saving' = [saving EXCEPT ![e] = {}]
    /\ UNCHANGED <<account, leased, loop, bounds>>

-----------------------------------------------------------------------------
(* The stream handler.                                                     *)

\* heartbeat refuses s while another session holds the lease
HeldFrom(s) == account.owner \notin {None, s} /\ leased

\* authenticate and heartbeat of a hello; a refused one changes nothing, and the
\* connector tries again with another id.  The lease is taken before the registry
\* is asked.
Hello(s) ==
    /\ Idle /\ peer = None /\ Fresh(s) /\ ~HeldFrom(s)
    /\ account' = Renewed(account, s) /\ leased' = TRUE /\ Persist("loop", account')
    /\ admitting' = s /\ peer' = s
    /\ UNCHANGED <<row, handler, registered, bounds>>

\* Mutant: open_session replaces the session that is registered.
AdmitAny(s) ==
    /\ handler' = [handler EXCEPT ![s] = "greeting"] /\ registered' = s
    /\ UNCHANGED peer

\* open_session refuses a second session of the account (SESSION_ALREADY_ACTIVE):
\* the handler closes the connection with 1013.
Admit(s) ==
    \/ /\ registered = None
       /\ handler' = [handler EXCEPT ![s] = "greeting"] /\ registered' = s
       /\ UNCHANGED peer
    \/ /\ registered # None
       /\ peer' = IF peer = s THEN None ELSE peer
       /\ UNCHANGED <<handler, registered>>

\* The loop's save is done; after a hello open_session follows at once.
LoopSaved ==
    /\ \E a \in saving["loop"] : row' = a
    /\ saving' = [saving EXCEPT !["loop"] = {}]
    /\ IF admitting = None THEN UNCHANGED <<handler, registered, peer>>
                           ELSE Admit(admitting)
    /\ admitting' = None
    /\ UNCHANGED <<account, leased, bounds>>

\* The snapshot and reconciliation.required are sent.
Greet(s) ==
    /\ Idle /\ handler[s] = "greeting"
    /\ handler' = [handler EXCEPT ![s] = "served"]
    /\ UNCHANGED <<account, leased, row, saving, admitting, registered, peer, bounds>>

\* Mutant: a heartbeat that finds the account healthy is not saved.
BeatUnsaved(s) ==
    /\ Idle /\ handler[s] = "served" /\ peer = s /\ ~HeldFrom(s)
    /\ account' = Renewed(account, s) /\ leased' = TRUE
    /\ saving' = IF account.healthy THEN saving ELSE [saving EXCEPT !["loop"] = {account'}]
    /\ UNCHANGED <<row, loop, bounds>>

\* A heartbeat of the connector.  It is never refused: one connector process has one
\* connection, and what it serves was the last to take the lease.
Beat(s) ==
    /\ Idle /\ handler[s] = "served" /\ peer = s /\ ~HeldFrom(s)
    /\ account' = Renewed(account, s) /\ leased' = TRUE /\ Persist("loop", account')
    /\ UNCHANGED <<row, loop, bounds>>

\* mark_reconciled, after a complete observation
Reconciled(s) ==
    /\ Idle /\ handler[s] = "served" /\ peer = s
    /\ account' = [account EXCEPT !.reconciled = TRUE] /\ Persist("loop", account')
    /\ UNCHANGED <<leased, row, loop, bounds>>

\* close_session only removes the session it is called for.
Close(s) == registered' = IF registered = s THEN None ELSE registered

\* WebSocketDisconnect with another code than 1000 and 1001: mark_connector_unhealthy
MarkUnhealthy ==
    account' = [account EXCEPT !.healthy = FALSE] /\ Persist("loop", account')

\* The handler of s learns that its connection is gone.
EndClean(s) ==
    /\ Idle /\ handler[s] = "served" /\ peer # s
    /\ handler' = [handler EXCEPT ![s] = "none"] /\ Close(s)
    /\ UNCHANGED <<account, leased, row, saving, admitting, peer, bounds>>

\* Mutant: the handler leaves without close_session.
EndAbruptlyOpen(s) ==
    /\ Idle /\ handler[s] = "served" /\ peer # s
    /\ handler' = [handler EXCEPT ![s] = "none"]
    /\ MarkUnhealthy
    /\ UNCHANGED <<leased, row, admitting, registered, peer, bounds>>

EndAbruptly(s) ==
    /\ Idle /\ handler[s] = "served" /\ peer # s
    /\ handler' = [handler EXCEPT ![s] = "none"] /\ Close(s)
    /\ MarkUnhealthy
    /\ UNCHANGED <<leased, row, admitting, peer, bounds>>

\* The snapshot cannot be sent (before the try block), or the writer task has
\* failed and awaiting it raises again: close_session is skipped, and the session
\* stays registered.
Leak(s) ==
    /\ Idle /\ handler[s] \in {"greeting", "served"} /\ peer # s
    /\ handler' = [handler EXCEPT ![s] = "leaked"]
    /\ MarkUnhealthy \/ UNCHANGED <<account, saving>>
    /\ UNCHANGED <<leased, row, admitting, registered, peer, bounds>>

-----------------------------------------------------------------------------
(* Time, the connection and the process.                                   *)

\* lease_expires_at passes
Lapse ==
    /\ leased /\ leased' = FALSE
    /\ UNCHANGED <<account, row, saving, loop, bounds>>

\* The connector loses its connection, or restarts; the backend does not know.
Break ==
    /\ peer # None /\ breaks < MaxBreaks
    /\ peer' = None /\ breaks' = breaks + 1
    /\ UNCHANGED <<account, leased, row, saving, admitting, handler, registered,
                   changes, restarts>>

\* The backend restarts: _load restores the row, saves in progress are lost, and
\* the restart may outlast the lease.
Restart ==
    /\ restarts < MaxRestarts /\ restarts' = restarts + 1
    /\ account' = row /\ leased' \in (IF leased THEN BOOLEAN ELSE {FALSE})
    /\ saving' = [t \in DOMAIN saving |-> {}]
    /\ admitting' = None /\ handler' = [s \in Sessions |-> "none"]
    /\ registered' = None /\ peer' = None
    /\ UNCHANGED <<row, changes, breaks>>

Next ==
    \/ \E e \in Editors :
           \/ \E v \in Settings : Change(e, v)
           \/ SaveAgain(e) \/ EditorSaved(e)
    \/ \E s \in Sessions :
           \/ Hello(s) \/ Greet(s) \/ Beat(s) \/ Reconciled(s)
           \/ EndClean(s) \/ EndAbruptly(s) \/ Leak(s)
    \/ LoopSaved \/ Lapse \/ Break \/ Restart

\* The database answers; the loop runs every handler between its saves (strong
\* fairness: a save disables the others for a while); the connector dials again and, served, beats
\* more often than its lease lapses; a lease nobody renews lapses; a connection that
\* is gone is noticed.
Renewing == account.owner # None /\ handler[account.owner] = "served" /\ peer = account.owner

Fairness ==
    /\ \A e \in Editors : WF_vars(EditorSaved(e))
    /\ WF_vars(LoopSaved) /\ SF_vars(\E s \in Sessions : Hello(s))
    /\ WF_vars(Lapse /\ ~Renewing)
    /\ SF_vars(\E s \in Sessions : Greet(s)) /\ SF_vars(\E s \in Sessions : Beat(s))
    /\ SF_vars(\E s \in Sessions : EndClean(s) \/ EndAbruptly(s) \/ Leak(s))

Spec == Init /\ [][Next]_vars
FairSpec == Spec /\ Fairness

-----------------------------------------------------------------------------
(* Properties.                                                             *)

Records == [setting : Settings, healthy : BOOLEAN, reconciled : BOOLEAN,
            owner : Sessions \cup {None}]

\* Every variable keeps its type, and a thread saves one row at a time.
TypeOK ==
    /\ account \in Records /\ row \in Records /\ leased \in BOOLEAN
    /\ saving \in [Editors \cup {"loop"} -> SUBSET Records]
    /\ \A t \in DOMAIN saving : Cardinality(saving[t]) <= 1
    /\ admitting \in Sessions \cup {None}
    /\ handler \in [Sessions -> {"none", "greeting", "served", "leaked"}]
    /\ registered \in Sessions \cup {None} /\ peer \in Sessions \cup {None}
    /\ changes \in 0..MaxChanges /\ breaks \in 0..MaxBreaks /\ restarts \in 0..MaxRestarts

Leaked == \E s \in Sessions : handler[s] = "leaked"
Serving == \E s \in Sessions : handler[s] = "served" /\ peer = s

\* A session that is admitted is the registered one and its account is healthy: the
\* end of an earlier session, noticed late, does not mark the account of the session
\* that has replaced it.
ServedIsHealthy ==
    \A s \in Sessions : handler[s] \in {"greeting", "served"} =>
        registered = s /\ account.healthy

\* A heartbeat of the session that is served is never refused: the lease is its own,
\* although hellos take it before the registry is asked, and earlier ids may have
\* held it.
BeatIsAccepted ==
    \A s \in Sessions : handler[s] = "served" /\ peer = s => ~HeldFrom(s)

\* Once the connector keeps its connection it is served for good, although its own
\* earlier ids hold the lease or the registry for a while (HeldFrom, open_session) -
\* unless a handler has left its session registered, which nothing but a restart of
\* the backend ends.
ConnectorReturns == <>[](Serving \/ Leaked)

\* A save that overtakes a later one leaves old values in the row, a setting among
\* them (_persist_account takes no lock).  While the connector is served its
\* heartbeats write the row again, so that it ends up equal to the account.
RowConverges == <>[](row = account \/ Leaked)

\* backend-v0.md:807, "durable live-execution flag": a restart keeps the setting when
\* every save is done.
SettingIsDurable ==
    [][restarts' # restarts /\ (\A t \in DOMAIN saving : saving[t] = {})
        => account'.setting = account.setting]_vars
=============================================================================
