----------------------------- MODULE EntryAdmission -----------------------------
(***************************************************************************)
(* How a Signal becomes an Order of one BrokerAccount (backend signals.py;  *)
(* execution.py approve_signal, execute_signal, schedule_automated_signal,  *)
(* accept_execution; the handlers of main.py that call them).  The handlers *)
(* run in threads: each is a task whose steps are what it does between two  *)
(* reads or writes that another thread may come between.  What is done      *)
(* under the account lock is one step.                                      *)
(*                                                                         *)
(* Every entry asks for one unit of risk.  A Signal may expire at any time: *)
(* whatever looks at one that was eligible or approved may see EXPIRED.  The *)
(* gates that are not about the Signal (exposure gate, interlock, calendar, *)
(* account state, connector), and the checks of form, may refuse any entry: *)
(* Refuse.  A revision has an identity of its own, so revision numbers are  *)
(* left out except where the canonical hash is compared.  Time passes when  *)
(* the mode changes; a created_at is the time then.                         *)
(***************************************************************************)
EXTENDS Naturals, FiniteSets, Sequences

CONSTANTS
    Tasks,          \* threads that handle requests
    Keys,           \* idempotency keys that clients send
    NoKey,          \* a request without one
    MaxSignals,     \* bound on Signals
    MaxOrders,      \* bound on accepted orders
    Limit,          \* max_total_open_risk, in entries
    MaxChanges,     \* bound on mode changes
    MaxRestarts     \* bound on restarts

ASSUME AdmissionAssumption ==
    /\ NoKey \notin Keys
    /\ {MaxSignals, MaxOrders, Limit, MaxChanges, MaxRestarts} \subseteq Nat

VARIABLES
    signal,     \* SignalStore.signals: status, revision, created_at; memory only
    mode,       \* BrokerAccount.execution_mode
    since,      \* BrokerAccount.mode_changed_at
    setting,    \* a mode change has written the mode and not yet the time
    books,      \* what the coordinator keeps: orders, cmd, approved, queued
    disk,       \* the books as last saved
    task,       \* the request each thread handles, and how far it is
    changes, restarts

admission == <<signal, mode, since, setting>>
bounds == <<changes, restarts>>
vars == <<admission, books, disk, task, bounds>>

Modes == {"MANUAL", "SEMI_AUTO", "FULL_AUTO"}
Signals == 1..MaxSignals
\* the key a client sent, the one approve derives from it, the one of FULL_AUTO
AllKeys == ({"client", "order"} \X Keys) \cup ({"auto"} \X Signals)

Steps == {"idle", "revise", "auto", "autoLock", "record", "approve", "store", "semi",
          "semiLock", "executeLock", "queue"}
Statuses == {"NONE", "ELIGIBLE", "APPROVED", "INVALIDATED", "LOST"}
Idle == [step |-> "idle", sig |-> 0, key |-> NoKey, seen |-> "NONE", order |-> 0, asked |-> 0]

NoBooks == [orders |-> <<>>, cmd |-> [k \in Keys |-> "NONE"], approved |-> {}, queued |-> {}]
NoSignal == [status |-> "NONE", revision |-> 0, born |-> 0]

Init ==
    /\ signal = [s \in Signals |-> NoSignal]
    /\ mode = "MANUAL" /\ since = 0 /\ setting = FALSE
    /\ books = NoBooks /\ disk = NoBooks
    /\ task = [t \in Tasks |-> Idle]
    /\ changes = 0 /\ restarts = 0

-----------------------------------------------------------------------------
Exists(s) == signal[s].status \notin {"NONE", "LOST"}
Unused == {s \in Signals : signal[s].status = "NONE"}

\* _idempotent_result: the order accepted for a key
Prior(key) == {i \in DOMAIN books.orders : books.orders[i].key = key}

\* _mutation's exit; it saves only when no other operation is inside, in whatever
\* thread and of whatever account (_mutation_depth), which is taken to be so
Save(new) == books' = new /\ disk' = new

Goto(t, step) == task' = [task EXCEPT ![t].step = step]
Done(t) == task' = [task EXCEPT ![t] = Idle]
Request(step, s, k, status) ==
    [step |-> step, sig |-> s, key |-> k, seen |-> status, order |-> 0, asked |-> since]
Ask(t, step, s, k) ==
    task' = [task EXCEPT ![t] = Request(step, s, k, signal[s].status)]

\* Mutant: risk that is in a position is not counted.
ReservedOpen == {i \in DOMAIN books.orders : books.orders[i].risk = "ACTIVE"}

\* reserved_risk
Reserved == {i \in DOMAIN books.orders : books.orders[i].risk \in {"ACTIVE", "CONSUMED"}}

\* _pre_order_risk_assessment and RiskEngine.assess, of the Signal the thread holds
Assessed(t) == Cardinality(Reserved) + 1 <= Limit

-----------------------------------------------------------------------------
(* Creating and revising Signals.                                          *)

\* One that the first assessment blocks makes nothing happen, and is left out.
NewSignal(t, revision) ==
    \E s \in Unused :
        /\ \A u \in Unused : s <= u
        /\ signal' = [signal EXCEPT ![s] =
               [status |-> "ELIGIBLE", revision |-> revision, born |-> since]]
        /\ task' = [task EXCEPT ![t] = Request("auto", s, NoKey, "ELIGIBLE")]

Create(t) ==
    /\ task[t] = Idle /\ NewSignal(t, 1)
    /\ UNCHANGED <<mode, since, setting, books, disk, bounds>>

\* create_revision: whatever the prior's status; the new one follows in a second step
Revise(t, s) ==
    /\ task[t] = Idle /\ Exists(s) /\ Unused # {}
    /\ signal' = [signal EXCEPT ![s].status = "INVALIDATED"]
    /\ Ask(t, "revise", s, NoKey)
    /\ UNCHANGED <<mode, since, setting, books, disk, bounds>>

Revised(t) ==
    /\ task[t].step = "revise" /\ NewSignal(t, signal[task[t].sig].revision + 1)
    /\ UNCHANGED <<mode, since, setting, books, disk, bounds>>

\* _schedule_full_auto_signal, outside the lock
AutoMode(t) ==
    /\ task[t].step = "auto"
    /\ \/ mode = "FULL_AUTO" /\ task[t].seen = "ELIGIBLE" /\ Goto(t, "autoLock")
       \/ Done(t)
    /\ UNCHANGED <<admission, books, disk, bounds>>

-----------------------------------------------------------------------------
(* Approving.                                                              *)

\* SEMI_AUTO answers a key that made an order with it, or refuses: nothing changes
Approve(t, s, k) ==
    /\ task[t] = Idle /\ Exists(s)
    /\ ~(mode = "SEMI_AUTO" /\ Prior(<<"order", k>>) # {})
    /\ Ask(t, "record", s, k)
    /\ UNCHANGED <<admission, books, disk, bounds>>

\* execution.approve_signal
Record(t) ==
    /\ task[t].step = "record"
    /\ LET k == task[t].key  status == books.cmd[k] IN
       \/ /\ status \in {"NONE", "ACCEPTED"} /\ task[t].seen = "ELIGIBLE"
          /\ Save([books EXCEPT !.cmd[k] = "ACCEPTED", !.approved = @ \cup {task[t].sig}])
          /\ Goto(t, "approve")
       \/ /\ status \in {"NONE", "ACCEPTED"}
          /\ Save([books EXCEPT !.cmd[k] = "REJECTED"]) /\ Done(t)
       \/ /\ status = "REJECTED" /\ Done(t) /\ Save(books)
       \/ /\ status = "EXECUTED" /\ Goto(t, "approve") /\ Save(books)
    /\ UNCHANGED <<admission, bounds>>

\* signals.approve looks at the Signal as it is now ...
SignalApprove(t) ==
    /\ task[t].step = "approve"
    /\ LET now == signal[task[t].sig].status IN
       \/ now = "ELIGIBLE" /\ Goto(t, "store")
       \/ now = "APPROVED" /\ task' = [task EXCEPT ![t].step = "semi", ![t].seen = now]
       \/ Done(t)
    /\ UNCHANGED <<admission, books, disk, bounds>>

\* ... and writes what it made of it
SignalStore(t) ==
    /\ task[t].step = "store"
    /\ signal' = [signal EXCEPT ![task[t].sig].status = "APPROVED"]
    /\ task' = [task EXCEPT ![t].step = "semi", ![t].seen = "APPROVED"]
    /\ UNCHANGED <<mode, since, setting, books, disk, bounds>>

SemiMode(t) ==
    /\ task[t].step = "semi"
    /\ IF mode = "SEMI_AUTO" THEN Goto(t, "semiLock") ELSE Done(t)
    /\ UNCHANGED <<admission, books, disk, bounds>>

-----------------------------------------------------------------------------
(* Accepting an order, under the account lock.                             *)

\* execute: existing_pre_order answers a key that made an order, and a Signal that is
\* not APPROVED now is refused: neither changes anything
Execute(t, s, k) ==
    /\ task[t] = Idle /\ signal[s].status = "APPROVED" /\ Prior(<<"client", k>>) = {}
    /\ Ask(t, "executeLock", s, k)
    /\ UNCHANGED <<admission, books, disk, bounds>>

NewOrder(t, key) ==
    [key |-> key, sig |-> task[t].sig, revision |-> signal[task[t].sig].revision, risk |-> "ACTIVE"]

\* Mutant: the key was looked up before the lock.
AcceptUnlooked(t, key, allowed, new, step) ==
    /\ allowed /\ Assessed(t) /\ Len(books.orders) < MaxOrders
    /\ Save([new EXCEPT !.orders = Append(@, NewOrder(t, key))])
    /\ task' = [task EXCEPT ![t] = IF step = "idle" THEN Idle
                   ELSE [@ EXCEPT !.step = step, !.order = Len(books.orders) + 1]]

\* The key is looked up first: with the same hash its order is the result, with
\* another one it is refused.  Then the caller's conditions, then accept_execution.
Accept(t, key, allowed, new, step) ==
    \/ \E i \in Prior(key) :
           /\ books.orders[i].revision = signal[task[t].sig].revision /\ Save(books)
           /\ task' = [task EXCEPT ![t] = IF step = "idle" THEN Idle
                          ELSE [@ EXCEPT !.step = step, !.order = i]]
    \/ /\ Prior(key) = {} /\ allowed /\ Assessed(t) /\ Len(books.orders) < MaxOrders
       /\ Save([new EXCEPT !.orders = Append(@, NewOrder(t, key))])
       /\ task' = [task EXCEPT ![t] = IF step = "idle" THEN Idle
                      ELSE [@ EXCEPT !.step = step, !.order = Len(books.orders) + 1]]

\* Mutant: an older Signal is not held back.
YoungAny(t) == TRUE

\* SIGNAL_PRECEDES_MODE_CHANGE
Young(t) == signal[task[t].sig].born >= since

AutoAccept(t) ==
    /\ task[t].step = "autoLock"
    /\ Accept(t, <<"auto", task[t].sig>>, Young(t) /\ task[t].seen = "ELIGIBLE", books, "queue")
    /\ UNCHANGED <<admission, bounds>>

\* The order of SEMI_AUTO is not queued for the connector.
SemiAccept(t) ==
    /\ task[t].step = "semiLock"
    /\ Accept(t, <<"order", task[t].key>>, Young(t) /\ task[t].seen = "APPROVED", books, "idle")
    /\ UNCHANGED <<admission, bounds>>

ExecuteAccept(t) ==
    /\ task[t].step = "executeLock"
    /\ Accept(t, <<"client", task[t].key>>,
              task[t].sig \in books.approved,
              [books EXCEPT !.cmd[task[t].key] = "EXECUTED"], "queue")
    /\ UNCHANGED <<admission, bounds>>

\* An entry that is refused raises: nothing is saved, and execute leaves its command
\* ACCEPTED when accept_execution is what refuses.
Refuse(t) ==
    /\ task[t].step \in {"autoLock", "semiLock", "executeLock", "record"}
    /\ \/ UNCHANGED books
       \/ /\ task[t].step = "executeLock"
          /\ task[t].sig \in books.approved /\ books.cmd[task[t].key] = "NONE"
          /\ books' = [books EXCEPT !.cmd[task[t].key] = "ACCEPTED"]
    /\ Done(t)
    /\ UNCHANGED <<admission, disk, bounds>>

\* prepare_connector_dispatch, once per order; it may raise as well
Queue(t) ==
    /\ task[t].step = "queue" /\ Done(t)
    /\ \/ Save([books EXCEPT !.queued = @ \cup {task[t].order}])
       \/ UNCHANGED <<books, disk>>
    /\ UNCHANGED <<admission, bounds>>

-----------------------------------------------------------------------------
(* What happens to the account and its orders otherwise.                   *)

\* set_execution_mode writes the mode first, then the time
SetMode(m) ==
    /\ ~setting /\ m # mode /\ changes < MaxChanges
    /\ mode' = m /\ setting' = TRUE /\ changes' = changes + 1
    /\ UNCHANGED <<signal, since, books, disk, task, restarts>>

StampMode ==
    /\ setting /\ setting' = FALSE /\ since' = since + 1
    /\ UNCHANGED <<signal, mode, books, disk, task, bounds>>

\* The connector's results and fills decide a reservation.
Settle(i, risk) ==
    /\ i \in books.queued /\ books.orders[i].risk = "ACTIVE"
    /\ Save([books EXCEPT !.orders[i].risk = risk])
    /\ UNCHANGED <<admission, task, bounds>>

\* The account's mode is stored (a restart in the middle of its change is left to
\* BrokerAccounts); the Signals are gone, and their approvals with them.
Restart ==
    /\ ~setting /\ restarts < MaxRestarts /\ restarts' = restarts + 1
    /\ books' = [disk EXCEPT !.approved = {}] /\ disk' = books'
    /\ signal' = [s \in Signals |->
           IF Exists(s) THEN [signal[s] EXCEPT !.status = "LOST"] ELSE signal[s]]
    /\ task' = [t \in Tasks |-> Idle]
    /\ UNCHANGED <<mode, since, setting, changes>>

Next ==
    \/ \E t \in Tasks :
           \/ Create(t) \/ Revised(t) \/ AutoMode(t) \/ Record(t) \/ SignalApprove(t)
           \/ SignalStore(t) \/ SemiMode(t) \/ AutoAccept(t) \/ SemiAccept(t)
           \/ ExecuteAccept(t) \/ Refuse(t) \/ Queue(t)
           \/ \E s \in Signals :
                  Revise(t, s) \/ \E k \in Keys : Approve(t, s, k) \/ Execute(t, s, k)
    \/ \E m \in Modes : SetMode(m)
    \/ StampMode \/ Restart
    \/ \E i \in DOMAIN books.orders, risk \in {"CONSUMED", "RELEASED"} : Settle(i, risk)

Spec == Init /\ [][Next]_vars

-----------------------------------------------------------------------------
(* Properties.                                                             *)

Books == [orders : Seq([key : AllKeys, sig : Signals, revision : Nat,
                        risk : {"ACTIVE", "CONSUMED", "RELEASED"}]),
          cmd : [Keys -> {"NONE", "ACCEPTED", "REJECTED", "EXECUTED"}],
          approved : SUBSET Signals, queued : SUBSET (1..MaxOrders)]

\* Every variable keeps its type.
TypeOK ==
    /\ signal \in [Signals -> [status : Statuses, revision : Nat, born : Nat]]
    /\ mode \in Modes /\ since \in Nat /\ setting \in BOOLEAN
    /\ books \in Books /\ disk \in Books
    /\ task \in [Tasks -> [step : Steps, sig : Signals \cup {0}, key : Keys \cup {NoKey},
                           seen : Statuses, order : 0..MaxOrders, asked : Nat]]

\* Whatever threads do at once, the risk of the account's open entries, pending or
\* filled, never exceeds its limit: the assessment and the reservation are one step.
TotalRiskBounded ==
    Cardinality({i \in DOMAIN books.orders : books.orders[i].risk # "RELEASED"}) <= Limit

\* A key makes one order, though every handler looks it up before the lock as well.
KeyMakesOneOrder ==
    \A i, j \in DOMAIN books.orders : books.orders[i].key = books.orders[j].key => i = j

\* What was accepted stays accepted, under its key and for its Signal, what was decided
\* of its risk stays, and so does its place in the connector's queue: a restart goes
\* back to no earlier state, whatever requests and failed entries it comes between.
OrdersEndure ==
    [][/\ \A i \in DOMAIN books.orders :
              /\ i \in DOMAIN books'.orders
              /\ [books'.orders[i] EXCEPT !.risk = "ACTIVE"]
                     = [books.orders[i] EXCEPT !.risk = "ACTIVE"]
              /\ books.orders[i].risk # "ACTIVE" => books'.orders[i] = books.orders[i]
       /\ books.queued \subseteq books'.queued]_vars

Automated(t) == task[t].step \in {"autoLock", "semiLock"}
Makes(t) == /\ Len(books'.orders) > Len(books.orders) /\ task'[t].step # task[t].step

\* A request that automation turns into an order after a mode change was complete is
\* never for a Signal from before that change.
ModeFencesOldSignals ==
    [][\A t \in Tasks : Automated(t) /\ Makes(t) =>
           signal[task[t].sig].born >= task[t].asked]_vars

\* broker_accounts.py:144, "A mode change is an explicit fence: it can never wake an
\* older Signal": not even while the change is being made.
ModeChangeWakesNothing ==
    [][\A t \in Tasks : Automated(t) /\ Makes(t) => ~setting]_vars

\* backend-v0.md:321, ORDERED is terminal, and :687, "exactly one Order intent".
OneOrderPerSignal ==
    \A i, j \in DOMAIN books.orders : books.orders[i].sig = books.orders[j].sig => i = j

\* backend-v0.md:323, a revision "supersedes and invalidates the prior revision, and
\* invalidates its approval".
SupersededStaysInvalid ==
    [][\A s \in Signals : signal[s].status = "INVALIDATED" =>
           signal'[s].status \in {"INVALIDATED", "LOST"}]_vars

\* backend-v0.md:836, "Same idempotency key plus same canonical hash returns the
\* original Command": the retry of an approval does not turn it down.
ApprovalStands ==
    [][\A k \in Keys : books.cmd[k] = "ACCEPTED" => books'.cmd[k] # "REJECTED"]_vars
=============================================================================
