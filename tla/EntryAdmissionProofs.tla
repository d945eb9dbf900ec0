-------------------------- MODULE EntryAdmissionProofs --------------------------
(***************************************************************************)
(* Proofs about EntryAdmission, for any threads, keys and bounds.  Every    *)
(* step leaves the orders as they are, appends one that was looked up and   *)
(* assessed under the lock, or settles one (OrdersStep); the properties     *)
(* about orders follow from these three cases.                              *)
(***************************************************************************)
EXTENDS EntryAdmission, FiniteSetTheorems, TLAPS

Keyed == {"record", "approve", "store", "semi", "semiLock", "executeLock"}
Order == [key : AllKeys, sig : Signals, revision : Nat, risk : {"ACTIVE", "CONSUMED", "RELEASED"}]
Task == [step : Steps, sig : Signals \cup {0}, key : Keys \cup {NoKey},
         seen : Statuses, order : 0..MaxOrders, asked : Nat]

\* What a request has by the time it comes to a step; it was asked in the past.
Fit(r) ==
    /\ r \in Task
    /\ r.step \in Keyed => r.key \in Keys
    /\ r.step # "idle" => r.sig \in Signals
    /\ r.step = "queue" => r.order # 0
    /\ r.asked <= since

TasksOK == task \in [Tasks -> Task] /\ \A t \in Tasks : Fit(task[t])
SignalsOK == signal \in [Signals -> [status : Statuses, revision : Nat, born : Nat]]
ModeOK == mode \in Modes /\ since \in Nat /\ setting \in BOOLEAN
BooksOK == books \in Books /\ disk \in Books /\ Len(books.orders) <= MaxOrders

\* A refused execution leaves a command that is not saved, but never an order.
OrdersSaved == disk.orders = books.orders

IInv == TasksOK /\ SignalsOK /\ ModeOK /\ BooksOK /\ OrdersSaved

-----------------------------------------------------------------------------
(* Shapes.                                                                 *)

LEMMA StepNames ==
    /\ Keyed \subseteq Steps
    /\ {"idle", "revise", "auto", "autoLock", "queue"} \subseteq Steps
    /\ {"NONE", "ELIGIBLE", "APPROVED", "INVALIDATED", "LOST"} = Statuses
    BY DEF Keyed, Steps, Statuses

LEMMA BoundsAreNumbers ==
    /\ MaxSignals \in Nat /\ MaxOrders \in Nat /\ Limit \in Nat
    /\ Signals \subseteq Nat /\ 0 \notin Signals
    BY AdmissionAssumption DEF Signals

LEMMA IdleFits ==
    ASSUME since \in Nat PROVE Fit(Idle) /\ Idle \in Task
    BY BoundsAreNumbers DEF Fit, Idle, Task, Steps, Statuses, Keyed

\* A thread's next state fits if it is at rest.
LEMMA TaskStep ==
    ASSUME TasksOK, since' = since, NEW t \in Tasks, NEW r, Fit(r),
           task' = [task EXCEPT ![t] = r]
    PROVE  TasksOK'
    BY DEF TasksOK, Fit

LEMMA TasksRest ==
    ASSUME TasksOK, UNCHANGED <<task, since>> PROVE TasksOK'
    BY DEF TasksOK, Fit

LEMMA DoneKeeps ==
    ASSUME TasksOK, ModeOK, since' = since, NEW t \in Tasks, Done(t) PROVE TasksOK'
    BY IdleFits, TaskStep DEF Done, ModeOK

LEMMA GotoKeeps ==
    ASSUME TasksOK, since' = since, NEW t \in Tasks, NEW step \in Steps, Goto(t, step),
           step # "idle", step # "queue",
           task[t].step # "idle", step \in Keyed => task[t].step \in Keyed
    PROVE  TasksOK'
    <1> DEFINE r == [task[t] EXCEPT !.step = step]
    <1>1. Fit(task[t]) /\ task[t] \in Task
        BY DEF TasksOK
    <1>2. Fit(r)
        BY <1>1 DEF Fit, Task
    <1>3. task' = [task EXCEPT ![t] = r]
        BY DEF Goto, TasksOK
    <1> QED BY <1>2, <1>3, TaskStep

LEMMA RequestFits ==
    ASSUME ModeOK, NEW s \in Signals, NEW k \in Keys \cup {NoKey}, NEW status \in Statuses,
           NEW step \in Steps, step # "queue", step \in Keyed => k \in Keys
    PROVE  Fit(Request(step, s, k, status))
    <1>1. 0 \in 0..MaxOrders /\ since \in Nat /\ since <= since
        BY BoundsAreNumbers DEF ModeOK
    <1> QED BY <1>1 DEF Request, Fit, Task

LEMMA AskKeeps ==
    ASSUME TasksOK, ModeOK, SignalsOK, since' = since, NEW t \in Tasks, NEW s \in Signals,
           NEW k \in Keys \cup {NoKey}, NEW step \in Steps, step # "queue",
           step \in Keyed => k \in Keys, Ask(t, step, s, k)
    PROVE  TasksOK'
    <1>1. signal[s].status \in Statuses
        BY DEF SignalsOK
    <1> QED BY <1>1, RequestFits, TaskStep DEF Ask

LEMMA NewSignalKeeps ==
    ASSUME TasksOK, ModeOK, SignalsOK, since' = since, NEW t \in Tasks, NEW n \in Nat,
           NewSignal(t, n)
    PROVE  TasksOK' /\ SignalsOK'
    <1>1. PICK s \in Unused :
              /\ signal' = [signal EXCEPT ![s] =
                     [status |-> "ELIGIBLE", revision |-> n, born |-> since]]
              /\ task' = [task EXCEPT ![t] = Request("auto", s, NoKey, "ELIGIBLE")]
        BY DEF NewSignal
    <1>2. s \in Signals /\ "auto" \in Steps /\ "auto" \notin Keyed /\ "ELIGIBLE" \in Statuses
        BY DEF Unused, Steps, Keyed, Statuses
    <1>3. TasksOK'
        BY <1>1, <1>2, RequestFits, TaskStep
    <1>4. SignalsOK'
        BY <1>1, <1>2 DEF SignalsOK, ModeOK
    <1> QED BY <1>3, <1>4

LEMMA SaveKeeps ==
    ASSUME NEW new \in Books, Len(new.orders) <= MaxOrders, Save(new)
    PROVE  BooksOK' /\ OrdersSaved'
    BY DEF Save, BooksOK, OrdersSaved

LEMMA BooksRest ==
    ASSUME BooksOK, OrdersSaved, UNCHANGED <<books, disk>> PROVE BooksOK' /\ OrdersSaved'
    BY DEF BooksOK, OrdersSaved

LEMMA AdmissionRests ==
    ASSUME SignalsOK, ModeOK, UNCHANGED admission
    PROVE  SignalsOK' /\ ModeOK' /\ since' = since
    BY DEF SignalsOK, ModeOK, admission

-----------------------------------------------------------------------------
(* Accepting an order.                                                     *)

\* The order that a thread makes.
LEMMA NewOrderIsOne ==
    ASSUME TasksOK, SignalsOK, NEW t \in Tasks, task[t].step # "idle", NEW key \in AllKeys
    PROVE  NewOrder(t, key) \in Order /\ NewOrder(t, key).risk = "ACTIVE"
                                      /\ NewOrder(t, key).key = key
    BY DEF NewOrder, Order, TasksOK, Fit, SignalsOK

LEMMA AcceptKeeps ==
    ASSUME IInv, NEW t \in Tasks, task[t].step \in {"autoLock", "semiLock", "executeLock"},
           NEW key \in AllKeys, NEW allowed, NEW new \in Books, new.orders = books.orders,
           NEW step \in {"idle", "queue"}, since' = since, Accept(t, key, allowed, new, step)
    PROVE  TasksOK' /\ BooksOK' /\ OrdersSaved'
    <1>1. task[t] \in Task /\ Fit(task[t]) /\ Fit(Idle) /\ "queue" \in Steps /\ "queue" \notin Keyed
        BY IdleFits DEF IInv, TasksOK, ModeOK, Steps, Keyed
    <1>2. ASSUME NEW n \in 1..MaxOrders,
                 task' = [task EXCEPT ![t] = IF step = "idle" THEN Idle
                             ELSE [@ EXCEPT !.step = step, !.order = n]]
          PROVE  TasksOK'
        <2> DEFINE r == IF step = "idle" THEN Idle
                        ELSE [task[t] EXCEPT !.step = step, !.order = n]
        <2>1. n \in 0..MaxOrders /\ n # 0
            BY BoundsAreNumbers
        <2>2. Fit(r)
            BY <1>1, <2>1 DEF Fit, Task
        <2>3. task' = [task EXCEPT ![t] = r]
            BY <1>2 DEF IInv, TasksOK
        <2> QED BY <2>2, <2>3, TaskStep DEF IInv
    <1>3. books \in Books /\ books.orders \in Seq(Order) /\ Len(books.orders) \in 0..MaxOrders
        BY BoundsAreNumbers DEF IInv, BooksOK, Books, Order
    <1>4. CASE \E i \in Prior(key) :
                  /\ Save(books)
                  /\ task' = [task EXCEPT ![t] = IF step = "idle" THEN Idle
                                 ELSE [@ EXCEPT !.step = step, !.order = i]]
        <2>1. Prior(key) \subseteq 1..MaxOrders
            BY <1>3, BoundsAreNumbers DEF Prior
        <2>2. TasksOK'
            BY <1>2, <1>4, <2>1
        <2> QED BY <1>3, <1>4, <2>2, SaveKeeps
    <1>5. CASE /\ Len(books.orders) < MaxOrders
               /\ Save([new EXCEPT !.orders = Append(@, NewOrder(t, key))])
               /\ task' = [task EXCEPT ![t] = IF step = "idle" THEN Idle
                              ELSE [@ EXCEPT !.step = step, !.order = Len(books.orders) + 1]]
        <2>1. Len(books.orders) + 1 \in 1..MaxOrders
            BY <1>3, <1>5, BoundsAreNumbers
        <2>2. TasksOK'
            BY <1>2, <1>5, <2>1
        <2> DEFINE longer == Append(books.orders, NewOrder(t, key))
                   kept == [new EXCEPT !.orders = longer]
        <2>3. longer \in Seq(Order) /\ Len(longer) <= MaxOrders
            BY <1>3, <2>1, NewOrderIsOne DEF IInv
        <2>4. kept \in Books /\ kept.orders = longer
            BY <2>3 DEF Books, Order
        <2>5. Save(kept)
            BY <1>5
        <2> QED BY <2>2, <2>3, <2>4, <2>5, SaveKeeps
    <1> QED BY <1>4, <1>5 DEF Accept

-----------------------------------------------------------------------------
(* Type correctness.                                                       *)

LEMMA IInvHolds == Init => IInv
    <1> SUFFICES ASSUME Init PROVE IInv
        OBVIOUS
    <1>1. NoBooks \in Books /\ Len(NoBooks.orders) = 0
        BY DEF NoBooks, Books
    <1>2. NoSignal \in [status : Statuses, revision : Nat, born : Nat]
        BY DEF NoSignal, Statuses
    <1>3. since \in Nat /\ TasksOK
        BY IdleFits DEF Init, TasksOK
    <1>4. SignalsOK
        BY <1>2 DEF Init, SignalsOK
    <1>5. ModeOK
        BY DEF Init, ModeOK, Modes
    <1>6. BooksOK /\ OrdersSaved
        <2>1. books = NoBooks /\ disk = NoBooks
            BY DEF Init
        <2> QED BY <1>1, <2>1, BoundsAreNumbers DEF BooksOK, OrdersSaved
    <1> QED BY <1>3, <1>4, <1>5, <1>6 DEF IInv

LEMMA Keyings ==
    /\ \A k \in Keys : <<"client", k>> \in AllKeys /\ <<"order", k>> \in AllKeys
    /\ \A s \in Signals : <<"auto", s>> \in AllKeys
    BY DEF AllKeys

LEMMA ThreadStepKeeps ==
    ASSUME IInv, NEW t \in Tasks,
           \/ Create(t) \/ Revised(t) \/ AutoMode(t) \/ Record(t) \/ SignalApprove(t)
           \/ SignalStore(t) \/ SemiMode(t) \/ AutoAccept(t) \/ SemiAccept(t)
           \/ ExecuteAccept(t) \/ Refuse(t) \/ Queue(t)
    PROVE  IInv'
    <1> USE DEF IInv
    <1>0. task[t] \in Task /\ Fit(task[t]) /\ signal[task[t].sig] = signal[task[t].sig]
        BY DEF TasksOK
    <1>n. /\ books \in Books /\ Len(books.orders) <= MaxOrders
          /\ {"autoLock", "approve", "store", "semi", "semiLock"} \subseteq Steps
          /\ "autoLock" \notin Keyed
          /\ {"approve", "store", "semi", "semiLock", "record", "executeLock"} = Keyed
        BY DEF BooksOK, Steps, Keyed
    <1>1. CASE Create(t)
        <2>1. since' = since /\ ModeOK'
            BY <1>1 DEF Create, ModeOK
        <2> QED BY <1>1, <2>1, NewSignalKeeps, BooksRest DEF Create
    <1>2. CASE Revised(t)
        <2>1. since' = since /\ ModeOK'
            BY <1>2 DEF Revised, ModeOK
        <2>2. signal[task[t].sig].revision + 1 \in Nat
            BY <1>0, <1>2 DEF Revised, SignalsOK, Fit
        <2> QED BY <1>2, <2>1, <2>2, NewSignalKeeps, BooksRest DEF Revised
    <1>3. CASE AutoMode(t)
        BY <1>3, <1>n, AdmissionRests, BooksRest, DoneKeeps, GotoKeeps DEF AutoMode
    <1>4. CASE Record(t)
        <2>1. SignalsOK' /\ ModeOK' /\ since' = since
            BY <1>4, AdmissionRests DEF Record
        <2>2. TasksOK'
            BY <1>4, <1>n, <2>1, DoneKeeps, GotoKeeps DEF Record
        <2> DEFINE k == task[t].key
                   taken == [books EXCEPT !.cmd[k] = "ACCEPTED", !.approved = @ \cup {task[t].sig}]
                   turned == [books EXCEPT !.cmd[k] = "REJECTED"]
        <2>3. k \in Keys /\ task[t].sig \in Signals
            BY <1>0, <1>4 DEF Record, Fit, Keyed
        <2>4. taken \in Books /\ taken.orders = books.orders
            BY <1>n, <2>3 DEF Books
        <2>5. turned \in Books /\ turned.orders = books.orders
            BY <1>n, <2>3 DEF Books
        <2>6. Save(taken) \/ Save(turned) \/ Save(books)
            BY <1>4 DEF Record
        <2>7. BooksOK' /\ OrdersSaved'
            BY <1>n, <2>4, <2>5, <2>6, SaveKeeps
        <2> QED BY <2>1, <2>2, <2>7
    <1>5. CASE SignalApprove(t)
        <2>1. SignalsOK' /\ ModeOK' /\ since' = since /\ BooksOK' /\ OrdersSaved'
            BY <1>5, AdmissionRests, BooksRest DEF SignalApprove
        <2> DEFINE r == [task[t] EXCEPT !.step = "semi", !.seen = "APPROVED"]
        <2>2. Fit(r)
            BY <1>0, <1>5, <1>n DEF SignalApprove, Fit, Task, Statuses
        <2>3. CASE task' = [task EXCEPT ![t].step = "semi", ![t].seen = "APPROVED"]
            <3>1. task' = [task EXCEPT ![t] = r]
                BY <2>3 DEF TasksOK
            <3> QED BY <2>1, <2>2, <3>1, TaskStep
        <2>4. CASE Goto(t, "store")
            BY <1>5, <1>n, <2>1, <2>4, GotoKeeps DEF SignalApprove
        <2>5. CASE Done(t)
            BY <2>1, <2>5, DoneKeeps
        <2> QED BY <1>5, <2>3, <2>4, <2>5 DEF SignalApprove
    <1>6. CASE SignalStore(t)
        <2>1. SignalsOK' /\ ModeOK' /\ since' = since /\ BooksOK' /\ OrdersSaved'
            BY <1>6, BooksRest DEF SignalStore, ModeOK, SignalsOK, Statuses
        <2> DEFINE r == [task[t] EXCEPT !.step = "semi", !.seen = "APPROVED"]
        <2>2. Fit(r)
            BY <1>0, <1>6, <1>n DEF SignalStore, Fit, Task, Statuses
        <2>3. task' = [task EXCEPT ![t] = r]
            BY <1>6 DEF SignalStore, TasksOK
        <2> QED BY <2>1, <2>2, <2>3, TaskStep
    <1>7. CASE SemiMode(t)
        BY <1>7, <1>n, AdmissionRests, BooksRest, DoneKeeps, GotoKeeps DEF SemiMode
    <1>8. CASE AutoAccept(t)
        <2>1. SignalsOK' /\ ModeOK' /\ since' = since
            BY <1>8, AdmissionRests DEF AutoAccept
        <2>2. <<"auto", task[t].sig>> \in AllKeys
            BY <1>0, <1>8, Keyings DEF AutoAccept, Fit
        <2> QED BY <1>8, <1>n, <2>1, <2>2, AcceptKeeps DEF AutoAccept
    <1>9. CASE SemiAccept(t)
        <2>1. SignalsOK' /\ ModeOK' /\ since' = since
            BY <1>9, AdmissionRests DEF SemiAccept
        <2>2. <<"order", task[t].key>> \in AllKeys
            BY <1>0, <1>9, Keyings DEF SemiAccept, Fit, Keyed
        <2> QED BY <1>9, <1>n, <2>1, <2>2, AcceptKeeps DEF SemiAccept
    <1>10. CASE ExecuteAccept(t)
        <2>1. SignalsOK' /\ ModeOK' /\ since' = since
            BY <1>10, AdmissionRests DEF ExecuteAccept
        <2>2. task[t].key \in Keys /\ <<"client", task[t].key>> \in AllKeys
            BY <1>0, <1>10, Keyings DEF ExecuteAccept, Fit, Keyed
        <2> DEFINE new == [books EXCEPT !.cmd[task[t].key] = "EXECUTED"]
        <2>3. new \in Books /\ new.orders = books.orders
            BY <1>n, <2>2 DEF Books
        <2> QED BY <1>10, <1>n, <2>1, <2>2, <2>3, AcceptKeeps DEF ExecuteAccept
    <1>11. CASE Refuse(t)
        <2>1. SignalsOK' /\ ModeOK' /\ since' = since
            BY <1>11, AdmissionRests DEF Refuse
        <2>2. TasksOK'
            BY <1>11, <2>1, DoneKeeps DEF Refuse
        <2>3. CASE UNCHANGED books
            BY <1>11, <2>1, <2>2, <2>3, BooksRest DEF Refuse
        <2>4. CASE /\ task[t].step = "executeLock"
                   /\ books' = [books EXCEPT !.cmd[task[t].key] = "ACCEPTED"]
            <3> DEFINE new == [books EXCEPT !.cmd[task[t].key] = "ACCEPTED"]
            <3>1. task[t].key \in Keys
                BY <1>0, <2>4 DEF Fit, Keyed
            <3>2. new \in Books /\ new.orders = books.orders
                BY <1>n, <3>1 DEF Books
            <3>3. books' = new /\ disk' = disk
                BY <1>11, <2>4 DEF Refuse
            <3>4. BooksOK' /\ OrdersSaved'
                BY <3>2, <3>3 DEF BooksOK, OrdersSaved
            <3> QED BY <2>1, <2>2, <3>4
        <2> QED BY <1>11, <2>3, <2>4 DEF Refuse
    <1>12. CASE Queue(t)
        <2>1. SignalsOK' /\ ModeOK' /\ since' = since
            BY <1>12, AdmissionRests DEF Queue
        <2>2. TasksOK'
            BY <1>12, <2>1, DoneKeeps DEF Queue
        <2> DEFINE new == [books EXCEPT !.queued = @ \cup {task[t].order}]
        <2>3. task[t].order \in 1..MaxOrders
            BY <1>0, <1>12, BoundsAreNumbers DEF Queue, Fit, Task
        <2>4. new \in Books /\ new.orders = books.orders
            BY <1>n, <2>3 DEF Books
        <2>5. BooksOK' /\ OrdersSaved'
            BY <1>12, <1>n, <2>4, SaveKeeps, BooksRest DEF Queue
        <2> QED BY <2>1, <2>2, <2>5
    <1> QED BY <1>1, <1>2, <1>3, <1>4, <1>5, <1>6, <1>7, <1>8, <1>9, <1>10, <1>11, <1>12

LEMMA RequestKeeps ==
    ASSUME IInv, NEW t \in Tasks, NEW s \in Signals,
           Revise(t, s) \/ \E k \in Keys : Approve(t, s, k) \/ Execute(t, s, k)
    PROVE  IInv'
    <1> USE DEF IInv
    <1>n. {"revise", "record", "executeLock"} \subseteq Steps /\ "revise" \notin Keyed
        BY DEF Steps, Keyed
    <1>1. CASE Revise(t, s)
        <2>1. since' = since /\ ModeOK' /\ BooksOK' /\ OrdersSaved'
            BY <1>1, BooksRest DEF Revise, ModeOK
        <2>2. SignalsOK'
            BY <1>1 DEF Revise, SignalsOK, Statuses
        <2>3. TasksOK'
            BY <1>1, <1>n, <2>1, AskKeeps DEF Revise
        <2> QED BY <2>1, <2>2, <2>3
    <1>2. CASE \E k \in Keys : Approve(t, s, k)
        BY <1>2, <1>n, AdmissionRests, BooksRest, AskKeeps DEF Approve
    <1>3. CASE \E k \in Keys : Execute(t, s, k)
        BY <1>3, <1>n, AdmissionRests, BooksRest, AskKeeps DEF Execute
    <1> QED BY <1>1, <1>2, <1>3

LEMMA AccountStepKeeps ==
    ASSUME IInv,
           \/ \E m \in Modes : SetMode(m)
           \/ StampMode \/ Restart
           \/ \E i \in DOMAIN books.orders, risk \in {"CONSUMED", "RELEASED"} : Settle(i, risk)
           \/ UNCHANGED vars
    PROVE  IInv'
    <1> USE DEF IInv
    <1>1. CASE \E m \in Modes : SetMode(m)
        BY <1>1, TasksRest, BooksRest DEF SetMode, SignalsOK, ModeOK
    <1>2. CASE StampMode
        <2>1. since' \in Nat /\ since <= since' /\ task' = task
            BY <1>2 DEF StampMode, ModeOK
        <2>2. TasksOK'
            BY <2>1 DEF TasksOK, Fit, Task, ModeOK
        <2>3. SignalsOK' /\ ModeOK' /\ BooksOK' /\ OrdersSaved'
            BY <1>2, <2>1, BooksRest DEF StampMode, SignalsOK, ModeOK
        <2> QED BY <2>2, <2>3
    <1>3. CASE Restart
        <2>1. since' = since /\ ModeOK'
            BY <1>3 DEF Restart, ModeOK
        <2>2. SignalsOK'
            BY <1>3 DEF Restart, SignalsOK, Statuses
        <2>3. TasksOK'
            BY <1>3, <2>1, IdleFits DEF Restart, TasksOK, ModeOK, Fit
        <2> DEFINE new == [disk EXCEPT !.approved = {}]
        <2>4. new \in Books /\ new.orders = books.orders
            BY DEF BooksOK, OrdersSaved, Books
        <2>5. books' = new /\ disk' = new
            BY <1>3 DEF Restart
        <2>6. BooksOK' /\ OrdersSaved'
            BY <2>4, <2>5 DEF BooksOK, OrdersSaved
        <2> QED BY <2>1, <2>2, <2>3, <2>6
    <1>4. CASE \E i \in DOMAIN books.orders, risk \in {"CONSUMED", "RELEASED"} : Settle(i, risk)
        <2>1. PICK i \in DOMAIN books.orders, risk \in {"CONSUMED", "RELEASED"} : Settle(i, risk)
            BY <1>4
        <2>2. SignalsOK' /\ ModeOK' /\ since' = since /\ TasksOK'
            BY <2>1, AdmissionRests, TasksRest DEF Settle
        <2> DEFINE settled == [books.orders EXCEPT ![i].risk = risk]
                   new == [books EXCEPT !.orders = settled]
        <2>3. books \in Books /\ books.orders \in Seq(Order) /\ Len(books.orders) <= MaxOrders
            BY DEF BooksOK, Books, Order
        <2>4. settled \in Seq(Order) /\ Len(settled) = Len(books.orders)
            <3>1. i \in 1..Len(books.orders) /\ books.orders[i] \in Order
                BY <2>3
            <3> DEFINE one == [books.orders[i] EXCEPT !.risk = risk]
            <3>2. one \in Order /\ settled = [books.orders EXCEPT ![i] = one]
                BY <3>1 DEF Order
            <3> QED BY <2>3, <3>1, <3>2
        <2>5. new \in Books /\ Len(new.orders) <= MaxOrders
            BY <2>3, <2>4 DEF Books, Order
        <2>6. Save(new)
            BY <2>1 DEF Settle
        <2> QED BY <2>2, <2>5, <2>6, SaveKeeps
    <1>5. CASE UNCHANGED vars
        BY <1>5, AdmissionRests, TasksRest, BooksRest DEF vars, bounds
    <1> QED BY <1>1, <1>2, <1>3, <1>4, <1>5

\* The actions, by who takes them.
LEMMA WhoSteps ==
    ASSUME [Next]_vars
    PROVE  \/ \E t \in Tasks :
                  \/ Create(t) \/ Revised(t) \/ AutoMode(t) \/ Record(t) \/ SignalApprove(t)
                  \/ SignalStore(t) \/ SemiMode(t) \/ AutoAccept(t) \/ SemiAccept(t)
                  \/ ExecuteAccept(t) \/ Refuse(t) \/ Queue(t)
           \/ \E t \in Tasks, s \in Signals :
                  Revise(t, s) \/ \E k \in Keys : Approve(t, s, k) \/ Execute(t, s, k)
           \/ \/ \E m \in Modes : SetMode(m)
              \/ StampMode \/ Restart
              \/ \E i \in DOMAIN books.orders, risk \in {"CONSUMED", "RELEASED"} : Settle(i, risk)
              \/ UNCHANGED vars
    BY DEF Next

LEMMA IInvKept == IInv /\ [Next]_vars => IInv'
    BY WhoSteps, ThreadStepKeeps, RequestKeeps, AccountStepKeeps

LEMMA IInvAlways == Spec => []IInv
    BY IInvHolds, IInvKept, PTL DEF Spec

\* Every variable of EntryAdmission keeps its type.
THEOREM TypeCorrect == Spec => []TypeOK
    <1>1. IInv => TypeOK
        BY DEF IInv, TasksOK, SignalsOK, ModeOK, BooksOK, TypeOK, Task
    <1> QED BY <1>1, IInvAlways, PTL

-----------------------------------------------------------------------------
(* What a step does to the orders.                                         *)

\* A thread appends an order under the lock: nothing was made with its key, there was
\* room for its risk, and an automated one is for a Signal of the mode's own time.
Ordered(t, key) ==
    /\ key \in AllKeys /\ Prior(key) = {} /\ Assessed(t)
    /\ books'.orders = Append(books.orders, NewOrder(t, key))
    /\ NewOrder(t, key) \in Order /\ NewOrder(t, key).key = key
    /\ Automated(t) => Young(t)
    /\ \A u \in Tasks \ {t} : task'[u] = task[u]

Settled(i, risk) ==
    /\ books.orders[i].risk = "ACTIVE"
    /\ books'.orders = [books.orders EXCEPT ![i].risk = risk]

\* Either the order of the key is the answer, or one is appended.
LEMMA AcceptOrders ==
    ASSUME IInv, NEW t \in Tasks, task[t].step \in {"autoLock", "semiLock", "executeLock"},
           NEW key \in AllKeys, NEW allowed, Automated(t) /\ allowed => Young(t),
           NEW new \in Books, new.orders = books.orders,
           NEW step, Accept(t, key, allowed, new, step)
    PROVE  books'.orders = books.orders \/ Ordered(t, key)
    <1>1. CASE \E i \in Prior(key) : Save(books)
        BY <1>1 DEF Save
    <1>2. CASE /\ Prior(key) = {} /\ allowed /\ Assessed(t)
               /\ Save([new EXCEPT !.orders = Append(@, NewOrder(t, key))])
               /\ task' = [task EXCEPT ![t] = IF step = "idle" THEN Idle
                              ELSE [@ EXCEPT !.step = step, !.order = Len(books.orders) + 1]]
        <2>1. books'.orders = Append(books.orders, NewOrder(t, key))
            BY <1>2 DEF Save, Books
        <2>2. \A u \in Tasks \ {t} : task'[u] = task[u]
            BY <1>2 DEF IInv, TasksOK
        <2>3. NewOrder(t, key) \in Order /\ NewOrder(t, key).key = key
            BY NewOrderIsOne DEF IInv
        <2> QED BY <1>2, <2>1, <2>2, <2>3 DEF Ordered
    <1> QED BY <1>1, <1>2 DEF Accept

LEMMA OrdersStep ==
    ASSUME IInv, [Next]_vars
    PROVE  \/ books'.orders = books.orders
           \/ \E t \in Tasks, key \in AllKeys : Ordered(t, key)
           \/ \E i \in DOMAIN books.orders, risk \in {"CONSUMED", "RELEASED"} : Settled(i, risk)
    <1> DEFINE Same == books'.orders = books.orders
    <1>0. books \in Books
        BY DEF IInv, BooksOK
    <1>1. ASSUME NEW t \in Tasks,
                 Create(t) \/ Revised(t) \/ AutoMode(t) \/ SignalApprove(t)
                     \/ SignalStore(t) \/ SemiMode(t)
          PROVE  Same
        BY <1>1 DEF Create, Revised, AutoMode, SignalApprove, SignalStore, SemiMode
    <1>2. ASSUME NEW t \in Tasks, Record(t) \/ Refuse(t) \/ Queue(t)
          PROVE  Same
        BY <1>0, <1>2 DEF Record, Refuse, Queue, Save, Books
    <1>3. ASSUME NEW t \in Tasks, AutoAccept(t) \/ SemiAccept(t) \/ ExecuteAccept(t)
          PROVE  Same \/ \E key \in AllKeys : Ordered(t, key)
        <2>0. Fit(task[t])
            BY DEF IInv, TasksOK
        <2>1. CASE AutoAccept(t)
            <3>1. <<"auto", task[t].sig>> \in AllKeys
                BY <2>0, <2>1, Keyings DEF AutoAccept, Fit
            <3> QED BY <1>0, <2>1, <3>1, AcceptOrders DEF AutoAccept
        <2>2. CASE SemiAccept(t)
            <3>1. <<"order", task[t].key>> \in AllKeys
                BY <2>0, <2>2, Keyings DEF SemiAccept, Fit, Keyed
            <3> QED BY <1>0, <2>2, <3>1, AcceptOrders DEF SemiAccept
        <2>3. CASE ExecuteAccept(t)
            <3>1. task[t].key \in Keys /\ <<"client", task[t].key>> \in AllKeys
                BY <2>0, <2>3, Keyings DEF ExecuteAccept, Fit, Keyed
            <3> DEFINE new == [books EXCEPT !.cmd[task[t].key] = "EXECUTED"]
            <3>2. new \in Books /\ new.orders = books.orders
                BY <1>0, <3>1 DEF Books
            <3>3. ~Automated(t)
                BY <2>3 DEF ExecuteAccept, Automated
            <3> QED BY <2>3, <3>1, <3>2, <3>3, AcceptOrders DEF ExecuteAccept
        <2> QED BY <1>3, <2>1, <2>2, <2>3
    <1>4. ASSUME NEW t \in Tasks, NEW s \in Signals,
                 Revise(t, s) \/ \E k \in Keys : Approve(t, s, k) \/ Execute(t, s, k)
          PROVE  Same
        BY <1>4 DEF Revise, Approve, Execute
    <1>5. CASE \/ \E m \in Modes : SetMode(m)
               \/ StampMode \/ UNCHANGED vars
        BY <1>5 DEF SetMode, StampMode, vars
    <1>6. CASE Restart
        BY <1>6 DEF Restart, IInv, OrdersSaved, BooksOK, Books
    <1>7. ASSUME NEW i \in DOMAIN books.orders, NEW risk \in {"CONSUMED", "RELEASED"},
                 Settle(i, risk)
          PROVE  Settled(i, risk)
        BY <1>0, <1>7 DEF Settle, Settled, Save, Books
    <1> QED BY WhoSteps, <1>1, <1>2, <1>3, <1>4, <1>5, <1>6, <1>7

-----------------------------------------------------------------------------
(* Safety.                                                                 *)

OrdersAreList == books.orders \in Seq(Order)

LEMMA OrdersListed == IInv => OrdersAreList
    BY DEF IInv, BooksOK, Books, Order, OrdersAreList

LEMMA OneKeyKept ==
    ASSUME IInv, KeyMakesOneOrder, [Next]_vars PROVE KeyMakesOneOrder'
    <1>0. books.orders \in Seq(Order)
        BY OrdersListed DEF OrdersAreList
    <1>1. CASE books'.orders = books.orders
        BY <1>1 DEF KeyMakesOneOrder
    <1>2. ASSUME NEW t \in Tasks, NEW key \in AllKeys, Ordered(t, key)
          PROVE  KeyMakesOneOrder'
        <2> DEFINE n == Len(books.orders)
        <2>1. /\ DOMAIN books'.orders = 1..(n + 1) /\ DOMAIN books.orders = 1..n /\ n \in Nat
              /\ \A i \in 1..n : books'.orders[i] = books.orders[i]
              /\ books'.orders[n + 1].key = key
            BY <1>0, <1>2 DEF Ordered
        <2>2. \A i \in 1..n : books.orders[i].key # key
            BY <1>2, <2>1 DEF Ordered, Prior
        <2>3. ASSUME NEW i \in 1..(n + 1), NEW j \in 1..(n + 1),
                     books'.orders[i].key = books'.orders[j].key
              PROVE  i = j
            <3>1. CASE i \in 1..n /\ j \in 1..n
                BY <2>1, <2>3, <3>1 DEF KeyMakesOneOrder
            <3>2. CASE i = n + 1 /\ j \in 1..n
                BY <2>1, <2>2, <2>3, <3>2
            <3>3. CASE j = n + 1 /\ i \in 1..n
                BY <2>1, <2>2, <2>3, <3>3
            <3> QED BY <2>1, <3>1, <3>2, <3>3
        <2> QED BY <2>1, <2>3 DEF KeyMakesOneOrder
    <1>3. ASSUME NEW i \in DOMAIN books.orders, NEW risk, Settled(i, risk)
          PROVE  KeyMakesOneOrder'
        <2>1. /\ DOMAIN books'.orders = DOMAIN books.orders
              /\ \A j \in DOMAIN books.orders : books'.orders[j].key = books.orders[j].key
            BY <1>0, <1>3 DEF Settled, Order
        <2> QED BY <2>1 DEF KeyMakesOneOrder
    <1> QED BY <1>1, <1>2, <1>3, OrdersStep

\* An idempotency key makes one order, whatever the threads that look it up.
THEOREM OneOrderPerKey == Spec => []KeyMakesOneOrder
    <1>1. Init => KeyMakesOneOrder
        BY DEF Init, NoBooks, KeyMakesOneOrder
    <1>2. IInv /\ KeyMakesOneOrder /\ [Next]_vars => KeyMakesOneOrder'
        BY OneKeyKept
    <1> QED BY <1>1, <1>2, IInvAlways, PTL DEF Spec

Open == {i \in DOMAIN books.orders : books.orders[i].risk # "RELEASED"}

LEMMA OpenIsReserved ==
    ASSUME IInv PROVE Open = Reserved /\ IsFiniteSet(Open)
    <1>1. books.orders \in Seq(Order)
        BY OrdersListed DEF OrdersAreList
    <1>2. Open = Reserved
        <2>1. \A i \in DOMAIN books.orders : books.orders[i] \in Order
            BY <1>1
        <2>2. \A i \in DOMAIN books.orders :
                  books.orders[i].risk # "RELEASED" <=> books.orders[i].risk \in {"ACTIVE", "CONSUMED"}
            BY <2>1 DEF Order
        <2> QED BY <2>2 DEF Open, Reserved
    <1>3. IsFiniteSet(1..Len(books.orders)) /\ Open \subseteq 1..Len(books.orders)
        BY <1>1, FS_Interval DEF Open
    <1> QED BY <1>2, <1>3, FS_Subset

LEMMA RiskBoundKept ==
    ASSUME IInv, IInv', Cardinality(Open) <= Limit, [Next]_vars
    PROVE  Cardinality(Open') <= Limit
    <1>0. books.orders \in Seq(Order) /\ IsFiniteSet(Open) /\ Open = Reserved /\ Limit \in Nat
        BY OrdersListed, OpenIsReserved, BoundsAreNumbers DEF OrdersAreList
    <1>c. Cardinality(Open) \in Nat
        BY <1>0, FS_CardinalityType
    <1>1. CASE books'.orders = books.orders
        BY <1>1 DEF Open
    <1>2. ASSUME NEW t \in Tasks, NEW key \in AllKeys, Ordered(t, key)
          PROVE  Cardinality(Open') <= Limit
        <2> DEFINE n == Len(books.orders)
        <2>1. /\ DOMAIN books'.orders = 1..(n + 1) /\ DOMAIN books.orders = 1..n /\ n \in Nat
              /\ \A i \in 1..n : books'.orders[i] = books.orders[i]
            BY <1>0, <1>2 DEF Ordered
        <2>2. Open' \subseteq Open \cup {n + 1} /\ n + 1 \notin Open
            BY <2>1 DEF Open
        <2>3. Cardinality(Open \cup {n + 1}) = Cardinality(Open) + 1
            BY <1>0, <2>2, FS_AddElement
        <2>4. IsFiniteSet(Open \cup {n + 1})
            BY <1>0, FS_AddElement
        <2>5. Cardinality(Open') <= Cardinality(Open \cup {n + 1})
            BY <2>2, <2>4, FS_Subset
        <2>6. Cardinality(Open) + 1 <= Limit
            BY <1>0, <1>2 DEF Ordered, Assessed
        <2>7. Cardinality(Open') \in Nat
            BY <2>2, <2>4, FS_Subset, FS_CardinalityType
        <2> QED BY <1>0, <1>c, <2>3, <2>5, <2>6, <2>7
    <1>3. ASSUME NEW i \in DOMAIN books.orders, NEW risk, Settled(i, risk)
          PROVE  Cardinality(Open') <= Limit
        <2>1. Open' \subseteq Open
            BY <1>0, <1>3 DEF Settled, Open, Order
        <2>2. Cardinality(Open') <= Cardinality(Open) /\ Cardinality(Open') \in Nat
            BY <1>0, <2>1, FS_Subset, FS_CardinalityType
        <2> QED BY <1>0, <1>c, <2>2
    <1> QED BY <1>1, <1>2, <1>3, OrdersStep

\* The open risk of an account never exceeds its limit, whatever threads enter at once.
THEOREM RiskNeverExceeds == Spec => []TotalRiskBounded
    <1>1. Init => TotalRiskBounded
        <2>1. Init => Open = {}
            BY DEF Init, NoBooks, Open
        <2> QED BY <2>1, FS_EmptySet, BoundsAreNumbers DEF TotalRiskBounded, Open
    <1>2. IInv /\ IInv' /\ TotalRiskBounded /\ [Next]_vars => TotalRiskBounded'
        BY RiskBoundKept DEF TotalRiskBounded, Open
    <1> QED BY <1>1, <1>2, IInvAlways, PTL DEF Spec

LEMMA FenceStep ==
    ASSUME IInv, [Next]_vars, NEW t \in Tasks, Automated(t), Makes(t)
    PROVE  signal[task[t].sig].born >= task[t].asked
    <1>0. books.orders \in Seq(Order)
        BY OrdersListed DEF OrdersAreList
    <1>1. PICK u \in Tasks, key \in AllKeys : Ordered(u, key)
        <2>1. books'.orders # books.orders
            BY <1>0 DEF Makes
        <2>2. ASSUME NEW i \in DOMAIN books.orders, NEW risk, Settled(i, risk)
              PROVE  FALSE
            BY <1>0, <2>2 DEF Settled, Makes
        <2> QED BY <2>1, <2>2, OrdersStep
    <1>2. u = t
        BY <1>1 DEF Ordered, Makes
    <1>3. Young(t)
        BY <1>1, <1>2 DEF Ordered
    <1>4. Fit(task[t]) /\ task[t] \in Task /\ since \in Nat
        BY DEF IInv, TasksOK, ModeOK
    <1>5. task[t].sig \in Signals
        BY <1>4 DEF Fit, Automated
    <1>6. signal[task[t].sig].born \in Nat /\ task[t].asked \in Nat /\ task[t].asked <= since
        BY <1>4, <1>5 DEF IInv, SignalsOK, Fit, Task
    <1> QED BY <1>3, <1>4, <1>6 DEF Young

\* Automation never makes an order of a Signal that precedes a complete mode change.
THEOREM OldSignalsStay == Spec => ModeFencesOldSignals
    <1>1. IInv /\ [Next]_vars =>
              \A t \in Tasks : Automated(t) /\ Makes(t) =>
                  signal[task[t].sig].born >= task[t].asked
        BY FenceStep
    <1> QED BY <1>1, IInvAlways, PTL DEF Spec, ModeFencesOldSignals

-----------------------------------------------------------------------------
(* What was accepted stays.                                                *)

Kept(i) ==
    /\ i \in DOMAIN books'.orders
    /\ [books'.orders[i] EXCEPT !.risk = "ACTIVE"] = [books.orders[i] EXCEPT !.risk = "ACTIVE"]
    /\ books.orders[i].risk # "ACTIVE" => books'.orders[i] = books.orders[i]

LEMMA OrdersKept ==
    ASSUME IInv, [Next]_vars, NEW i \in DOMAIN books.orders
    PROVE  Kept(i)
    <1>0. books.orders \in Seq(Order) /\ books.orders[i] \in Order
        BY OrdersListed DEF OrdersAreList
    <1>1. CASE books'.orders = books.orders
        BY <1>1 DEF Kept
    <1>2. ASSUME NEW t \in Tasks, NEW key \in AllKeys, Ordered(t, key)
          PROVE  Kept(i)
        <2>1. i \in DOMAIN books'.orders /\ books'.orders[i] = books.orders[i]
            BY <1>0, <1>2 DEF Ordered
        <2> QED BY <2>1 DEF Kept
    <1>3. ASSUME NEW j \in DOMAIN books.orders, NEW risk, Settled(j, risk)
          PROVE  Kept(i)
        <2>1. books'.orders = [books.orders EXCEPT ![j].risk = risk]
            BY <1>3 DEF Settled
        <2>2. CASE i # j
            BY <1>0, <2>1, <2>2 DEF Kept
        <2>3. CASE i = j
            <3>1. /\ i \in DOMAIN books'.orders
                  /\ books'.orders[i] = [books.orders[i] EXCEPT !.risk = risk]
                BY <1>0, <2>1, <2>3
            <3>2. books.orders[i].risk = "ACTIVE"
                BY <1>3, <2>3 DEF Settled
            <3> QED BY <1>0, <3>1, <3>2 DEF Kept, Order
        <2> QED BY <2>2, <2>3
    <1> QED BY <1>1, <1>2, <1>3, OrdersStep

\* The queue in memory is the queue on disk, and only grows.
QueueSaved == disk.queued = books.queued

LEMMA QueueKept ==
    ASSUME IInv, QueueSaved, [Next]_vars
    PROVE  QueueSaved' /\ books.queued \subseteq books'.queued
    <1> DEFINE Good == QueueSaved' /\ books.queued \subseteq books'.queued
    <1>0. books \in Books
        BY DEF IInv, BooksOK
    <1>s. ASSUME NEW new, Save(new), books.queued \subseteq new.queued PROVE Good
        BY <1>s DEF Save, QueueSaved
    <1>r. ASSUME UNCHANGED <<books, disk>> PROVE Good
        BY <1>r DEF QueueSaved
    <1>1. ASSUME NEW t \in Tasks,
                 Create(t) \/ Revised(t) \/ AutoMode(t) \/ SignalApprove(t)
                     \/ SignalStore(t) \/ SemiMode(t)
          PROVE  Good
        BY <1>1, <1>r DEF Create, Revised, AutoMode, SignalApprove, SignalStore, SemiMode
    <1>2. ASSUME NEW t \in Tasks, Record(t) PROVE Good
        <2> DEFINE k == task[t].key
                   taken == [books EXCEPT !.cmd[k] = "ACCEPTED",
                                          !.approved = @ \cup {task[t].sig}]
                   down == [books EXCEPT !.cmd[k] = "REJECTED"]
        <2>1. Save(books) \/ Save(taken) \/ Save(down)
            BY <1>2 DEF Record
        <2>2. taken.queued = books.queued /\ down.queued = books.queued
            BY <1>0 DEF Books
        <2> HIDE DEF taken, down
        <2> QED BY <2>1, <2>2, <1>s
    <1>3. ASSUME NEW t \in Tasks, Refuse(t) PROVE Good
        BY <1>0, <1>3 DEF Refuse, Books, QueueSaved
    <1>4. ASSUME NEW t \in Tasks, Queue(t) PROVE Good
        <2>1. CASE UNCHANGED <<books, disk>>
            BY <2>1, <1>r
        <2>2. CASE Save([books EXCEPT !.queued = @ \cup {task[t].order}])
            <3>1. books.queued \subseteq [books EXCEPT !.queued = @ \cup {task[t].order}].queued
                BY <1>0 DEF Books
            <3> QED BY <2>2, <3>1, <1>s
        <2> QED BY <1>4, <2>1, <2>2 DEF Queue
    <1>a. ASSUME NEW t, NEW key, NEW allowed, NEW new \in Books, NEW step,
                 new.queued = books.queued, Accept(t, key, allowed, new, step)
          PROVE  Good
        <2>1. \/ Save(books)
              \/ Save([new EXCEPT !.orders = Append(@, NewOrder(t, key))])
            BY <1>a DEF Accept
        <2>2. [new EXCEPT !.orders = Append(@, NewOrder(t, key))].queued = books.queued
            BY <1>a DEF Books
        <2> QED BY <2>1, <2>2, <1>s
    <1>5. ASSUME NEW t \in Tasks, AutoAccept(t) \/ SemiAccept(t) \/ ExecuteAccept(t)
          PROVE  Good
        <2>1. CASE AutoAccept(t) \/ SemiAccept(t)
            BY <1>0, <1>a, <2>1 DEF AutoAccept, SemiAccept
        <2>2. CASE ExecuteAccept(t)
            <3>1. task[t].key \in Keys
                BY <2>2 DEF ExecuteAccept, IInv, TasksOK, Fit, Keyed
            <3> DEFINE new == [books EXCEPT !.cmd[task[t].key] = "EXECUTED"]
            <3>2. new \in Books /\ new.queued = books.queued
                BY <1>0, <3>1 DEF Books
            <3>3. Accept(t, <<"client", task[t].key>>, task[t].sig \in books.approved, new, "queue")
                BY <2>2 DEF ExecuteAccept
            <3> HIDE DEF new
            <3> QED BY <1>a, <3>2, <3>3
        <2> QED BY <1>5, <2>1, <2>2
    <1>6. ASSUME NEW t \in Tasks, NEW s \in Signals,
                 Revise(t, s) \/ \E k \in Keys : Approve(t, s, k) \/ Execute(t, s, k)
          PROVE  Good
        BY <1>6, <1>r DEF Revise, Approve, Execute
    <1>7. CASE \/ \E m \in Modes : SetMode(m)
               \/ StampMode \/ UNCHANGED vars
        BY <1>7, <1>r DEF SetMode, StampMode, vars
    <1>8. CASE Restart
        <2>1. disk \in Books
            BY DEF IInv, BooksOK
        <2> QED BY <1>8, <2>1 DEF Restart, QueueSaved, Books
    <1>9. ASSUME NEW i \in DOMAIN books.orders, NEW risk \in {"CONSUMED", "RELEASED"},
                 Settle(i, risk)
          PROVE  Good
        <2>1. [books EXCEPT !.orders[i].risk = risk].queued = books.queued
            BY <1>0 DEF Books
        <2> QED BY <1>9, <2>1, <1>s DEF Settle
    <1> QED BY WhoSteps, <1>1, <1>2, <1>3, <1>4, <1>5, <1>6, <1>7, <1>8, <1>9

\* No accepted order, decision about its risk or place in the connector's queue is ever
\* lost or changed, by any threads, mode changes, refused entries and restarts.
THEOREM AcceptedOrdersEndure == Spec => OrdersEndure
    <1>1. Init => QueueSaved
        BY DEF Init, QueueSaved
    <1>2. IInv /\ [Next]_vars => \A i \in DOMAIN books.orders : Kept(i)
        BY OrdersKept
    <1>3. IInv /\ QueueSaved /\ [Next]_vars => QueueSaved' /\ books.queued \subseteq books'.queued
        BY QueueKept
    <1>4. OrdersEndure <=> [][/\ \A i \in DOMAIN books.orders : Kept(i)
                              /\ books.queued \subseteq books'.queued]_vars
        BY DEF OrdersEndure, Kept
    <1> QED BY <1>1, <1>2, <1>3, <1>4, IInvAlways, PTL DEF Spec
=============================================================================
