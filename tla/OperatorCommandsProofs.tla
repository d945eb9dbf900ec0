------------------------- MODULE OperatorCommandsProofs -------------------------
(***************************************************************************)
(* Proofs about OperatorCommands, for any orders, keys, volumes and number  *)
(* of restarts: a command is called once, risk is released only for what    *)
(* the broker cancelled, a complete fill wins, and doubt has work.          *)
(***************************************************************************)
EXTENDS OperatorCommands, FiniteSetTheorems, TLAPS

Statuses == {"NONE", "ACCEPTED", "DISPATCHING", "EXECUTED", "REJECTED", "UNKNOWN"}
OrderStates == {"SUBMITTED", "PARTIALLY_FILLED", "FILLED", "CANCELLED"}
OrderRow == [status : OrderStates, reserved : {"ACTIVE", "CONSUMED", "RELEASED"}]
CommandRow == [kind : Kinds \cup {"NONE"}, order : Orders \cup {None}, status : Statuses]
CallRow == [key : Keys \cup {None}, kind : Kinds, order : Orders \cup {None},
            answer : Answers \cup {"none"}]

Cancels(r) == r.kind = "CANCEL_ORDER"
Begun(k) == cmd[k].status \notin {"NONE", "ACCEPTED"}
Gone(o) == broker[o].state = "cancelled"

\* A command that has not begun was never called, and the broker has done nothing.
CommandsOK == \A k \in Keys :
    /\ cmd[k].kind = "NONE" <=> cmd[k].status = "NONE"
    /\ Cancels(cmd[k]) => cmd[k].order \in Orders
    /\ ~Begun(k) => calls[k] = 0 /\ did[k] = "nothing"
    /\ calls[k] <= 1

\* The command of the call in progress is DISPATCHING, and only that one is.
CallOK ==
    /\ call.key = None => call = NoCall
    /\ call.key # None =>
           /\ cmd[call.key].status = "DISPATCHING"
           /\ call.answer = "none" => calls[call.key] = 0
           /\ Cancels(call) => call.order \in Orders

LateOK == \A c \in late : Begun(c.key) /\ (Cancels(c) => c.order \in Orders)

\* What a snapshot says was true when it was read.
SnapshotOK == \A s \in snapshot :
    /\ s.orders \in [Orders -> OrderStates] /\ s.lots \in [Orders -> 0..Lots]
    /\ DOMAIN s.verdict \subseteq Keys
    /\ \A k \in DOMAIN s.verdict : s.verdict[k] \in {"EXECUTED", "REJECTED"} /\ Begun(k)
    /\ \A o \in Orders : /\ s.lots[o] <= broker[o].lots
                         /\ s.orders[o] = "CANCELLED" => Gone(o)

BrokerOK == \A o \in Orders :
    /\ broker[o].state = "filled" <=> broker[o].lots = Lots
    /\ known[o] <= broker[o].lots

\* As long as no key was reused, requests are for the order of their command, and a
\* cancel that was done took that order off the book.
NamedOK == ~reused =>
    /\ call.key # None => cmd[call.key].kind = call.kind /\ cmd[call.key].order = call.order
    /\ \A c \in late : cmd[c.key].kind = c.kind /\ cmd[c.key].order = c.order

CancelledOK == ~reused =>
    /\ \A k \in Keys : Cancels(cmd[k]) /\ did[k] = "done" => Gone(cmd[k].order)
    /\ Cancels(call) /\ call.answer = "EXECUTED" => Gone(call.order)
    /\ \A s \in snapshot : \A k \in DOMAIN s.verdict :
           Cancels(cmd[k]) /\ s.verdict[k] = "EXECUTED" => Gone(cmd[k].order)

-----------------------------------------------------------------------------
(* Shapes.                                                                 *)

LEMMA Bounds == Lots \in Nat /\ Lots # 0 /\ None \notin Orders /\ None \notin Keys
  BY CommandsAssumption

\* The types, row by row.
Types ==
    /\ order \in [Orders -> OrderRow] /\ known \in [Orders -> 0..Lots]
    /\ cmd \in [Keys -> CommandRow]
    /\ work \in [Keys -> {"NONE", "PENDING", "ESCALATED", "RECOVERED"}]
    /\ call \in CallRow /\ Cardinality(snapshot) <= 1
    /\ broker \in [Orders -> [state : {"resting", "filled", "cancelled"}, lots : 0..Lots]]
    /\ did \in [Keys -> {"nothing", "done", "refused"}]
    /\ late \subseteq [key : Keys, kind : Kinds, order : Orders \cup {None}, answer : {"none"}]
    /\ calls \in [Keys -> Nat] /\ reused \in BOOLEAN /\ restarts \in 0..MaxRestarts

Shape == Types /\ CommandsOK /\ CallOK /\ LateOK /\ SnapshotOK /\ BrokerOK
Truth == NamedOK /\ CancelledOK /\ ReleasedWasCancelled /\ FillWins
IInv == Shape /\ Truth

LEMMA TypesByRow == Types => TypeOK
  BY DEF Types, TypeOK, OrderRow, OrderStates, CommandRow, Statuses, CallRow

LEMMA Marked ==
  ASSUME NEW r \in CommandRow, NEW s \in Statuses
  PROVE  [r EXCEPT !.status = s] \in CommandRow
  BY DEF CommandRow

LEMMA InitInv == Init => IInv
<1> SUFFICES ASSUME Init PROVE IInv
  OBVIOUS
<1>1. Cardinality(snapshot) <= 1
  BY FS_EmptySet DEF Init
<1>2. Types
  <2>1. order \in [Orders -> OrderRow] /\ known \in [Orders -> 0..Lots]
    BY Bounds DEF Init, OrderRow, OrderStates
  <2>2. cmd \in [Keys -> CommandRow]
    BY DEF Init, CommandRow, Statuses
  <2>3. call \in CallRow
    BY DEF Init, NoCall, CallRow, Kinds
  <2>4. broker \in [Orders -> [state : {"resting", "filled", "cancelled"}, lots : 0..Lots]]
    BY Bounds DEF Init
  <2>5. restarts \in 0..MaxRestarts
    BY CommandsAssumption DEF Init
  <2>6. /\ work \in [Keys -> {"NONE", "PENDING", "ESCALATED", "RECOVERED"}]
        /\ did \in [Keys -> {"nothing", "done", "refused"}] /\ calls \in [Keys -> Nat]
        /\ late = {} /\ reused \in BOOLEAN
    BY DEF Init
  <2> QED
    BY <1>1, <2>1, <2>2, <2>3, <2>4, <2>5, <2>6 DEF Types
<1>3. CommandsOK /\ CallOK /\ LateOK /\ SnapshotOK /\ BrokerOK
  BY Bounds DEF Init, CommandsOK, CallOK, LateOK, SnapshotOK, BrokerOK, Begun, Cancels, NoCall
<1>4. Truth
  BY Bounds DEF Init, Truth, NamedOK, CancelledOK, ReleasedWasCancelled, FillWins, NoCall, Cancels
<1> QED
  BY <1>2, <1>3, <1>4 DEF IInv, Shape

LEMMA CommandFacts ==
  ASSUME Types, CommandsOK, NEW k \in Keys, NEW kind \in Kinds,
         NEW o \in Orders \cup {None}, Allowed(kind, o)
  PROVE  /\ Command(k, kind, o) \in CommandRow
         /\ Command(k, kind, o).kind # "NONE"
         /\ Command(k, kind, o).status =
                IF cmd[k].kind = "NONE" THEN "ACCEPTED" ELSE cmd[k].status
         /\ Cancels(Command(k, kind, o)) => Command(k, kind, o).order \in Orders
<1> cmd[k] \in CommandRow
  BY DEF Types
<1>1. CASE cmd[k].kind = "NONE"
  BY <1>1 DEF Command, CommandRow, Statuses, Cancels, Allowed, Kinds
<1>2. CASE cmd[k].kind # "NONE"
  BY <1>2 DEF Command, CommandRow, Statuses, Cancels, Allowed, CommandsOK, Kinds
<1> QED
  BY <1>1, <1>2

\* While no key is reused a command keeps its name.
LEMMA NameKept ==
  ASSUME Types, NEW k \in Keys, NEW kind \in Kinds, NEW o \in Orders \cup {None},
         Reused(k, kind, o), ~reused'
  PROVE  /\ ~reused
         /\ Command(k, kind, o).kind = kind /\ Command(k, kind, o).order = o
         /\ cmd[k].kind # "NONE" => cmd[k].kind = kind /\ cmd[k].order = o
<1> cmd[k] \in CommandRow /\ reused \in BOOLEAN
  BY DEF Types
<1>1. ~reused /\ (cmd[k].kind # "NONE" => cmd[k].kind = kind /\ cmd[k].order = o)
  BY DEF Reused
<1> QED
  BY <1>1 DEF Command, CommandRow

\* What remains true when commands keep their names, and begin only in Begin.
LEMMA NamesKept ==
  ASSUME IInv, cmd' \in [Keys -> CommandRow],
         \A k \in Keys : /\ cmd'[k].kind = cmd[k].kind /\ cmd'[k].order = cmd[k].order
                         /\ cmd'[k].status = cmd[k].status \/ (Begun(k) /\ Begun(k)'),
         UNCHANGED <<world, calls, reused>>, call' \in {call, NoCall},
         snapshot' \in {snapshot, {}}
  PROVE  CommandsOK' /\ LateOK' /\ SnapshotOK' /\ NamedOK' /\ CancelledOK'
<1> USE DEF IInv, Shape, Truth
<1> /\ cmd \in [Keys -> CommandRow]
    /\ late \subseteq [key : Keys, kind : Kinds, order : Orders \cup {None}, answer : {"none"}]
    /\ call \in CallRow
  BY DEF Types
<1>1. CommandsOK'
  BY DEF CommandsOK, Begun, Cancels, world
<1>2. LateOK'
  <2> SUFFICES ASSUME NEW c \in late PROVE Begun(c.key)' /\ (Cancels(c) => c.order \in Orders)
    BY DEF LateOK, world, Cancels
  <2> QED
    BY DEF LateOK, Begun
<1>3. SnapshotOK'
  <2> SUFFICES ASSUME NEW s \in snapshot
               PROVE  /\ s.orders \in [Orders -> OrderStates] /\ s.lots \in [Orders -> 0..Lots]
                      /\ DOMAIN s.verdict \subseteq Keys
                      /\ \A k \in DOMAIN s.verdict :
                             s.verdict[k] \in {"EXECUTED", "REJECTED"} /\ Begun(k)'
                      /\ \A o \in Orders : /\ s.lots[o] <= broker'[o].lots
                                           /\ s.orders[o] = "CANCELLED" => Gone(o)'
    BY DEF SnapshotOK
  <2> QED
    BY DEF SnapshotOK, Begun, Gone, world
<1>4. NamedOK'
  <2>1. call' = call \/ call'.key = None
    BY DEF NoCall
  <2> QED
    BY <2>1 DEF NamedOK, world, CallRow
<1>5. CancelledOK'
  <2> SUFFICES ASSUME ~reused
               PROVE  /\ \A k \in Keys : Cancels(cmd'[k]) /\ did[k] = "done" => Gone(cmd[k].order)
                      /\ Cancels(call') /\ call'.answer = "EXECUTED" => Gone(call'.order)
                      /\ \A s \in snapshot : \A k \in DOMAIN s.verdict :
                             Cancels(cmd'[k]) /\ s.verdict[k] = "EXECUTED" => Gone(cmd[k].order)
    BY DEF CancelledOK, world, Gone, SnapshotOK, Cancels
  <2>1. call' = call \/ call'.answer = "none"
    BY DEF NoCall
  <2> QED
    BY <2>1 DEF CancelledOK, Cancels, SnapshotOK
<1> QED
  BY <1>1, <1>2, <1>3, <1>4, <1>5

\* Of an order the broker has taken off its book nothing more is filled.
LEMMA GoneIsPart ==
  ASSUME IInv, NEW o \in Orders, Gone(o)
  PROVE  known[o] < Lots /\ broker[o].lots < Lots
<1>1. broker[o] \in [state : {"resting", "filled", "cancelled"}, lots : 0..Lots]
      /\ known[o] \in 0..Lots
  BY DEF IInv, Shape, Types
<1>2. broker[o].lots # Lots /\ known[o] <= broker[o].lots
  BY DEF IInv, Shape, BrokerOK, Gone
<1> QED
  BY <1>1, <1>2, Bounds

\* The rows of orders and fills, when an order is left alone, filled, or off the book.
LEMMA OrdersKept ==
  ASSUME IInv, UNCHANGED <<known, broker>>, reused' \in BOOLEAN, reused => reused',
         order' \in [Orders -> OrderRow],
         \A o \in Orders : order'[o] # order[o] => reused \/ Gone(o)
  PROVE  ReleasedWasCancelled' /\ FillWins'
<1>1. ReleasedWasCancelled'
  BY DEF IInv, Truth, ReleasedWasCancelled, Gone
<1>2. FillWins'
  BY GoneIsPart, Bounds DEF Types, IInv, Shape, Truth, FillWins
<1> QED
  BY <1>1, <1>2

-----------------------------------------------------------------------------
(* Steps that keep the names of commands.                                  *)

LEMMA EscalateKeeps ==
  ASSUME IInv, NEW k \in Keys, Escalate(k)
  PROVE  IInv'
<1> USE DEF IInv, Shape
<1>1. Types'
  BY DEF Types, Escalate, world
<1>2. CommandsOK' /\ LateOK' /\ SnapshotOK' /\ NamedOK' /\ CancelledOK'
  BY NamesKept DEF Types, Escalate
<1>3. CallOK' /\ BrokerOK'
  BY DEF Escalate, CallOK, BrokerOK, world, Cancels, NoCall
<1>4. ReleasedWasCancelled' /\ FillWins'
  BY DEF Escalate, Truth, ReleasedWasCancelled, FillWins, world
<1> QED
  BY <1>1, <1>2, <1>3, <1>4 DEF Truth

LEMMA RecordFillKeeps ==
  ASSUME IInv, NEW o \in Orders, RecordFill(o)
  PROVE  IInv'
<1> USE DEF IInv, Shape
<1>1. known' \in [Orders -> 0..Lots] /\ \A p \in Orders : known'[p] <= broker[p].lots
  BY Bounds DEF Types, RecordFill, BrokerOK
<1>2. order' \in [Orders -> OrderRow]
  BY DEF Types, RecordFill, OrderRow, OrderStates
<1>3. Types'
  BY <1>1, <1>2 DEF Types, RecordFill, world
<1>4. CommandsOK' /\ LateOK' /\ SnapshotOK' /\ NamedOK' /\ CancelledOK'
  BY NamesKept DEF Types, RecordFill
<1>5. CallOK' /\ BrokerOK'
  BY <1>1 DEF RecordFill, CallOK, BrokerOK, world, Cancels, NoCall
<1>6. ReleasedWasCancelled' /\ FillWins'
  BY DEF Types, RecordFill, Truth, ReleasedWasCancelled, FillWins, world
<1> QED
  BY <1>3, <1>4, <1>5, <1>6 DEF Truth

\* _apply_operator_command is for an order that is off the book.
LEMMA ApplyIsTrue ==
  ASSUME IInv, NEW k \in Keys, did[k] = "done"
  PROVE  /\ Apply(order, k) \in [Orders -> OrderRow]
         /\ \A o \in Orders : Apply(order, k)[o] # order[o] => reused \/ Gone(o)
  BY DEF Types, IInv, Shape, Truth, CommandsOK, CancelledOK, Apply, Cancels, OrderRow, OrderStates

LEMMA RecoverKeeps ==
  ASSUME IInv, NEW k \in Keys, Recover(k)
  PROVE  IInv'
<1> USE DEF IInv, Shape
<1>1. cmd' \in [Keys -> CommandRow]
  BY Marked DEF Types, Recover, Verdict, Statuses
<1>2. /\ order' \in [Orders -> OrderRow]
      /\ \A o \in Orders : order'[o] # order[o] => reused \/ Gone(o)
  BY ApplyIsTrue DEF Types, Recover, Verdict
<1>3. work' \in [Keys -> {"NONE", "PENDING", "ESCALATED", "RECOVERED"}]
  BY DEF Types, Recover, Complete
<1>4. Types'
  BY <1>1, <1>2, <1>3 DEF Types, Recover, world
<1>5. CommandsOK' /\ LateOK' /\ SnapshotOK' /\ NamedOK' /\ CancelledOK'
  BY <1>1, NamesKept DEF Types, Recover, Verdict, Begun, CommandRow
<1>6. CallOK' /\ BrokerOK'
  BY DEF Recover, CallOK, BrokerOK, world, Unlocked, NoCall
<1>7. ReleasedWasCancelled' /\ FillWins'
  BY <1>2, OrdersKept DEF Types, Recover, world
<1> QED
  BY <1>4, <1>5, <1>6, <1>7 DEF Truth

LEMMA AnswerKeeps ==
  ASSUME IInv, Answer
  PROVE  IInv'
<1> USE DEF IInv, Shape
<1>0. call.key \in Keys /\ cmd[call.key].status = "DISPATCHING" /\ call.answer \in Answers
  BY DEF Types, Answer, CallOK, CallRow, NoCall
<1>1. cmd' \in [Keys -> CommandRow]
  <2>1. PICK s \in Statuses : cmd' = [cmd EXCEPT ![call.key].status = s]
    BY <1>0 DEF Answer, Answers, Statuses
  <2> QED
    BY <1>0, <2>1, Marked DEF Types
<1>2. /\ order' \in [Orders -> OrderRow]
      /\ \A o \in Orders : order'[o] # order[o] => reused \/ Gone(o)
  BY <1>0, Bounds
  DEF Types, Answer, CallOK, Truth, CancelledOK, Cancels, OrderRow, OrderStates
<1>3. work' \in [Keys -> {"NONE", "PENDING", "ESCALATED", "RECOVERED"}]
  BY DEF Types, Answer, RecordUnknown
<1>4. call' \in CallRow /\ call' = NoCall
  BY DEF Answer, NoCall, CallRow, Kinds
<1>5. Types'
  BY <1>1, <1>2, <1>3, <1>4 DEF Types, Answer, world
<1>6. CommandsOK' /\ LateOK' /\ SnapshotOK' /\ NamedOK' /\ CancelledOK'
  BY <1>0, <1>1, NamesKept DEF Types, Answer, Answers, Begun, CommandRow
<1>7. CallOK' /\ BrokerOK'
  BY <1>4 DEF Answer, CallOK, BrokerOK, world, NoCall
<1>8. ReleasedWasCancelled' /\ FillWins'
  BY <1>2, OrdersKept DEF Types, Answer, world
<1> QED
  BY <1>5, <1>6, <1>7, <1>8 DEF Truth

LEMMA RestartKeeps ==
  ASSUME IInv, Restart
  PROVE  IInv'
<1> USE DEF IInv, Shape
<1>1. cmd' \in [Keys -> CommandRow]
  BY DEF Types, Restart, CommandRow, Statuses
<1>2. work' \in [Keys -> {"NONE", "PENDING", "ESCALATED", "RECOVERED"}]
  BY DEF Types, Restart, RecordUnknown
<1>3. call' \in CallRow /\ call' = NoCall
  BY DEF Restart, NoCall, CallRow, Kinds
<1>4. Cardinality(snapshot') <= 1
  BY FS_EmptySet DEF Restart
<1>5. restarts' \in 0..MaxRestarts
  BY CommandsAssumption DEF Types, Restart
<1>6. Types'
  BY <1>1, <1>2, <1>3, <1>4, <1>5 DEF Types, Restart, world
<1>7. CommandsOK' /\ LateOK' /\ SnapshotOK' /\ NamedOK' /\ CancelledOK'
  BY <1>1, NamesKept DEF Types, Restart, Begun, CommandRow
<1>8. CallOK' /\ BrokerOK'
  BY <1>3 DEF Restart, CallOK, BrokerOK, world, NoCall
<1>9. ReleasedWasCancelled' /\ FillWins'
  BY DEF Restart, Truth, ReleasedWasCancelled, FillWins, world
<1> QED
  BY <1>6, <1>7, <1>8, <1>9 DEF Truth

\* What a snapshot makes of an order's row.
LEMMA SeenRow ==
  ASSUME NEW now \in OrderRow, NEW seen \in OrderStates
  PROVE  /\ AfterOrder(now, seen) \in OrderRow
         /\ AfterOrder(now, seen).reserved = "RELEASED" =>
                now.reserved = "RELEASED" \/ seen = "CANCELLED"
         /\ now.status = "FILLED" /\ now.reserved = "CONSUMED" =>
                /\ AfterOrder(now, seen).status = "FILLED"
                /\ AfterOrder(now, seen).reserved = "CONSUMED"
  BY DEF AfterOrder, OrderRow, OrderStates

LEMMA FilledRow ==
  ASSUME NEW now \in OrderRow, NEW o \in Orders, NEW lots \in 0..Lots
  PROVE  /\ AfterFills(now, o, lots) \in OrderRow
         /\ AfterFills(now, o, lots).reserved = "RELEASED" => now.reserved = "RELEASED"
         /\ lots <= known[o] => AfterFills(now, o, lots) = now
         /\ ~(lots <= known[o]) /\ lots = Lots =>
                /\ AfterFills(now, o, lots).status = "FILLED"
                /\ AfterFills(now, o, lots).reserved = "CONSUMED"
  BY DEF AfterFills, OrderRow, OrderStates

LEMMA ReconcileKeeps ==
  ASSUME IInv, Reconcile
  PROVE  IInv'
<1> USE DEF IInv, Shape
<1> DEFINE Off == [status |-> "CANCELLED", reserved |-> "RELEASED"]
           Before(s, o) == IF o \in Cancelled(s) THEN Off ELSE AfterOrder(order[o], s.orders[o])
<1>1. PICK s \in snapshot :
         /\ order' = [o \in Orders |-> AfterFills(Before(s, o), o, s.lots[o])]
         /\ known' = [o \in Orders |-> IF s.lots[o] > known[o] THEN s.lots[o] ELSE known[o]]
         /\ cmd' = [k \in Keys |-> IF k \in Settled(s)
                                   THEN [cmd[k] EXCEPT !.status = s.verdict[k]] ELSE cmd[k]]
         /\ Complete(Settled(s))
  BY DEF Reconcile
<1>2. /\ s.orders \in [Orders -> OrderStates] /\ s.lots \in [Orders -> 0..Lots]
      /\ DOMAIN s.verdict \subseteq Keys
      /\ \A k \in DOMAIN s.verdict : s.verdict[k] \in {"EXECUTED", "REJECTED"} /\ Begun(k)
      /\ \A o \in Orders : /\ s.lots[o] <= broker[o].lots
                           /\ s.orders[o] = "CANCELLED" => Gone(o)
  BY DEF SnapshotOK
<1>3. Settled(s) \subseteq DOMAIN s.verdict
  BY DEF Settled
<1>4. cmd' \in [Keys -> CommandRow]
  BY <1>1, <1>2, <1>3, Marked DEF Types, Statuses
<1>5. \A o \in Orders : o \in Cancelled(s) => reused \/ Gone(o)
  BY <1>2, <1>3 DEF Cancelled, Truth, CancelledOK, Cancels
<1>6. ASSUME NEW o \in Orders
      PROVE  /\ Before(s, o) \in OrderRow
             /\ Before(s, o).reserved = "RELEASED" =>
                    order[o].reserved = "RELEASED" \/ reused \/ Gone(o)
  <2>1. Off \in OrderRow
    BY DEF OrderRow, OrderStates
  <2>2. order[o] \in OrderRow /\ s.orders[o] \in OrderStates
    BY <1>2 DEF Types
  <2> QED
    BY <1>2, <1>5, <2>1, <2>2, SeenRow
<1>7. order' \in [Orders -> OrderRow]
  BY <1>1, <1>2, <1>6, FilledRow
<1>8. known' \in [Orders -> 0..Lots] /\ \A o \in Orders : known'[o] <= broker[o].lots
  BY <1>1, <1>2 DEF Types, BrokerOK
<1>9. work' \in [Keys -> {"NONE", "PENDING", "ESCALATED", "RECOVERED"}]
  BY <1>1 DEF Complete, Types
<1>10. Cardinality(snapshot') <= 1
  BY FS_EmptySet DEF Reconcile
<1>11. Types'
  BY <1>4, <1>7, <1>8, <1>9, <1>10 DEF Types, Reconcile, world
<1>12. CommandsOK' /\ LateOK' /\ SnapshotOK' /\ NamedOK' /\ CancelledOK'
  <2>1. \A k \in Keys : /\ cmd'[k].kind = cmd[k].kind /\ cmd'[k].order = cmd[k].order
                        /\ cmd'[k].status = cmd[k].status \/ (Begun(k) /\ Begun(k)')
    BY <1>1, <1>2, <1>3 DEF Types, CommandRow, Begun
  <2> QED
    BY <1>4, <2>1, NamesKept DEF Reconcile
<1>13. CallOK' /\ BrokerOK'
  BY <1>8 DEF Reconcile, CallOK, BrokerOK, Unlocked, NoCall, world
<1>14. ReleasedWasCancelled'
  <2>1. \A o \in Orders : order'[o].reserved = "RELEASED" =>
           order[o].reserved = "RELEASED" \/ reused \/ Gone(o)
    BY <1>1, <1>2, <1>6, FilledRow
  <2> QED
    BY <2>1 DEF Truth, ReleasedWasCancelled, Reconcile, world, Gone
<1>15. FillWins'
  <2> SUFFICES ASSUME ~reused, NEW o \in Orders, known'[o] = Lots
               PROVE  order'[o].status = "FILLED" /\ order'[o].reserved = "CONSUMED"
    BY DEF FillWins, Reconcile
  <2>0. /\ order[o] \in OrderRow /\ s.orders[o] \in OrderStates /\ s.lots[o] \in 0..Lots
        /\ known[o] \in 0..Lots
    BY <1>2 DEF Types
  <2>1. CASE s.lots[o] <= known[o]
    <3>1. known[o] = Lots
      BY <1>1, <2>0, <2>1
    <3>2. o \notin Cancelled(s)
      BY <1>5, <3>1, GoneIsPart, Bounds
    <3>3. order[o].status = "FILLED" /\ order[o].reserved = "CONSUMED"
      BY <3>1 DEF Truth, FillWins
    <3>4. order'[o] = AfterOrder(order[o], s.orders[o])
      BY <1>1, <1>6, <2>0, <2>1, <3>2, FilledRow
    <3> QED
      BY <2>0, <3>3, <3>4, SeenRow
  <2>2. CASE ~(s.lots[o] <= known[o])
    <3>1. s.lots[o] = Lots
      BY <1>1, <2>0, <2>2
    <3> QED
      BY <1>1, <1>6, <2>0, <2>2, <3>1, FilledRow
  <2> QED
    BY <2>1, <2>2
<1> QED
  BY <1>11, <1>12, <1>13, <1>14, <1>15 DEF Truth

-----------------------------------------------------------------------------
(* Steps that name a command.                                              *)

\* A request names the command k again, or for the first time.
LEMMA Named ==
  ASSUME IInv, NEW k \in Keys, NEW kind \in Kinds, NEW o \in Orders \cup {None},
         Unlocked, Allowed(kind, o), Reused(k, kind, o), NEW r \in CommandRow,
         r.kind = Command(k, kind, o).kind, r.order = Command(k, kind, o).order,
         \/ r.status = Command(k, kind, o).status
         \/ Command(k, kind, o).status = "ACCEPTED" /\ r.status = "DISPATCHING",
         cmd' = [cmd EXCEPT ![k] = r],
         call'.answer = "none",
         call'.key # None => call'.key = k /\ call'.kind = kind /\ call'.order = o,
         UNCHANGED <<snapshot, world, calls>>
  PROVE  CommandsOK' /\ LateOK' /\ SnapshotOK' /\ NamedOK' /\ CancelledOK'
<1> USE DEF IInv, Shape
<1> DEFINE C == Command(k, kind, o)
<1>1. /\ C.kind # "NONE" /\ C.status = IF cmd[k].kind = "NONE" THEN "ACCEPTED" ELSE cmd[k].status
      /\ Cancels(C) => C.order \in Orders
  BY CommandFacts
<1>2. /\ cmd' \in [Keys -> CommandRow] /\ cmd'[k] = r
      /\ \A j \in Keys : j # k => cmd'[j] = cmd[j]
  BY DEF Types
<1>3. Begun(k) => r.status = cmd[k].status /\ cmd[k].kind # "NONE"
  BY <1>1 DEF Begun, CommandsOK
<1>4. \A j \in Keys : Begun(j) => Begun(j)'
  BY <1>2, <1>3 DEF Begun
<1>5. CommandsOK'
  <2>1. r.kind # "NONE" /\ r.status # "NONE" /\ (Cancels(r) => r.order \in Orders)
    BY <1>1 DEF CommandsOK, Cancels
  <2> QED
    BY <1>2, <1>4, <2>1 DEF CommandsOK, Begun, Cancels, world
<1>6. \A c \in late : c.key \in Keys
  BY DEF Types
<1>7. LateOK'
  BY <1>4, <1>6 DEF LateOK, Cancels, world
<1>8. SnapshotOK'
  <2> SUFFICES ASSUME NEW s \in snapshot
               PROVE  /\ s.orders \in [Orders -> OrderStates] /\ s.lots \in [Orders -> 0..Lots]
                      /\ DOMAIN s.verdict \subseteq Keys
                      /\ \A j \in DOMAIN s.verdict :
                             s.verdict[j] \in {"EXECUTED", "REJECTED"} /\ Begun(j)'
                      /\ \A p \in Orders : /\ s.lots[p] <= broker[p].lots
                                           /\ s.orders[p] = "CANCELLED" => Gone(p)
    BY DEF SnapshotOK, Gone, world
  <2> QED
    BY <1>4 DEF SnapshotOK
<1>9. ~reused' => /\ ~reused /\ r.kind = kind /\ r.order = o
                  /\ cmd[k].kind # "NONE" => r.kind = cmd[k].kind /\ r.order = cmd[k].order
  BY NameKept
<1>10. \A j \in Keys : ~reused' /\ Begun(j) =>
          cmd'[j].kind = cmd[j].kind /\ cmd'[j].order = cmd[j].order
  BY <1>2, <1>3, <1>9
<1>11. NamedOK'
  <2> SUFFICES ASSUME ~reused'
               PROVE  /\ call'.key # None => /\ cmd'[call'.key].kind = call'.kind
                                             /\ cmd'[call'.key].order = call'.order
                      /\ \A c \in late : cmd'[c.key].kind = c.kind /\ cmd'[c.key].order = c.order
    BY DEF NamedOK, world
  <2>1. \A c \in late : Begun(c.key) /\ cmd[c.key].kind = c.kind /\ cmd[c.key].order = c.order
    BY <1>9 DEF Truth, NamedOK, LateOK
  <2> QED
    BY <1>2, <1>6, <1>9, <1>10, <2>1
<1>12. CancelledOK'
  <2> SUFFICES ASSUME ~reused'
               PROVE  /\ \A j \in Keys : Cancels(cmd'[j]) /\ did[j] = "done" => Gone(cmd'[j].order)
                      /\ \A s \in snapshot : \A j \in DOMAIN s.verdict :
                             Cancels(cmd'[j]) /\ s.verdict[j] = "EXECUTED" => Gone(cmd'[j].order)
    BY DEF CancelledOK, Gone, world, Cancels
  <2>1. \A j \in Keys : did[j] = "done" => Begun(j)
    BY DEF CommandsOK
  <2>2. \A s \in snapshot : \A j \in DOMAIN s.verdict : j \in Keys /\ Begun(j)
    BY DEF SnapshotOK
  <2>3. /\ \A j \in Keys : Cancels(cmd[j]) /\ did[j] = "done" => Gone(cmd[j].order)
        /\ \A s \in snapshot : \A j \in DOMAIN s.verdict :
               Cancels(cmd[j]) /\ s.verdict[j] = "EXECUTED" => Gone(cmd[j].order)
    BY <1>9 DEF Truth, CancelledOK
  <2> QED
    BY <1>10, <2>1, <2>2, <2>3 DEF Cancels
<1> QED
  BY <1>5, <1>7, <1>8, <1>11, <1>12

LEMMA RequestKeeps ==
  ASSUME IInv, NEW k \in Keys, NEW kind \in Kinds, NEW o \in Orders \cup {None},
         Request(k, kind, o)
  PROVE  IInv'
<1> USE DEF IInv, Shape
<1>1. Command(k, kind, o) \in CommandRow
  BY CommandFacts DEF Request
<1>2. reused' \in BOOLEAN /\ (reused => reused')
  BY DEF Request, Reused, Types
<1>3. Types'
  BY <1>1, <1>2 DEF Request, Types, world
<1>4. CommandsOK' /\ LateOK' /\ SnapshotOK' /\ NamedOK' /\ CancelledOK'
  BY <1>1, Named DEF Request, Unlocked, NoCall
<1>5. CallOK' /\ BrokerOK'
  BY DEF Request, CallOK, BrokerOK, world, Unlocked, NoCall
<1>6. ReleasedWasCancelled' /\ FillWins'
  BY <1>2, OrdersKept DEF Request, Types, world
<1> QED
  BY <1>3, <1>4, <1>5, <1>6 DEF Truth

LEMMA BeginKeeps ==
  ASSUME IInv, NEW k \in Keys, NEW kind \in Kinds, NEW o \in Orders \cup {None},
         Begin(k, kind, o)
  PROVE  IInv'
<1> USE DEF IInv, Shape
<1> DEFINE r == [Command(k, kind, o) EXCEPT !.status = "DISPATCHING"]
<1>1. Command(k, kind, o) \in CommandRow
  BY CommandFacts DEF Begin
<1>2. r \in CommandRow
  BY <1>1, Marked DEF Statuses
<1>3. r.kind = Command(k, kind, o).kind /\ r.order = Command(k, kind, o).order
      /\ r.status = "DISPATCHING"
  BY <1>1 DEF CommandRow
<1>4. reused' \in BOOLEAN /\ (reused => reused')
  BY DEF Begin, Reused, Types
<1>5. call' \in CallRow /\ call' = [key |-> k, kind |-> kind, order |-> o, answer |-> "none"]
  BY DEF Begin, CallRow
<1>6. cmd' = [cmd EXCEPT ![k] = r]
  BY DEF Begin
<1>7. Types'
  BY <1>2, <1>4, <1>5, <1>6 DEF Begin, Types, world
<1>8. CommandsOK' /\ LateOK' /\ SnapshotOK' /\ NamedOK' /\ CancelledOK'
  <2>1. /\ call'.answer = "none" /\ call'.key = k /\ call'.kind = kind /\ call'.order = o
    BY <1>5
  <2>2. /\ Unlocked /\ Allowed(kind, o) /\ Reused(k, kind, o)
        /\ Command(k, kind, o).status = "ACCEPTED" /\ UNCHANGED <<snapshot, world, calls>>
    BY DEF Begin
  <2> HIDE DEF r, IInv, Shape
  <2> QED
    BY <1>2, <1>3, <1>6, <2>1, <2>2, Named
<1>9. BrokerOK'
  BY DEF Begin, BrokerOK, world
<1>10. calls[k] = 0
  BY CommandFacts DEF Begin, CommandsOK, Begun
<1>11. CallOK'
  <2>1. cmd'[k].status = "DISPATCHING"
    BY <1>3, <1>6 DEF Types
  <2>2. Cancels(call') => o \in Orders
    BY <1>5 DEF Cancels, Begin, Allowed
  <2> QED
    BY <1>5, <1>10, <2>1, <2>2, Bounds DEF CallOK, Begin, Cancels
<1>12. ReleasedWasCancelled' /\ FillWins'
  BY <1>4, OrdersKept DEF Begin, Types, world
<1> QED
  BY <1>7, <1>8, <1>9, <1>11, <1>12 DEF Truth

-----------------------------------------------------------------------------
(* Steps of the broker and the connector.                                  *)

\* A request leaves the fills of an order alone, and an order that is off the book
\* stays off it.
MovesOn(o) ==
    /\ broker'[o].lots = broker[o].lots
    /\ (broker'[o].state = "filled") <=> (broker[o].state = "filled")
    /\ Gone(o) => Gone(o)'

\* The broker carries a request out, or refuses it.
LEMMA ActFacts ==
  ASSUME IInv, NEW k \in Keys, NEW kind \in Kinds, NEW o \in Orders \cup {None},
         kind = "CANCEL_ORDER" => o \in Orders, Act(k, kind, o)
  PROVE  /\ broker' \in [Orders -> [state : {"resting", "filled", "cancelled"}, lots : 0..Lots]]
         /\ did' \in [Keys -> {"nothing", "done", "refused"}]
         /\ \A p \in Orders : MovesOn(p)
         /\ \A j \in Keys : j # k => did'[j] = did[j]
         /\ kind = "CANCEL_ORDER" /\ did'[k] = "done" => Gone(o)'
<1> /\ broker \in [Orders -> [state : {"resting", "filled", "cancelled"}, lots : 0..Lots]]
    /\ did \in [Keys -> {"nothing", "done", "refused"}]
  BY DEF IInv, Shape, Types
<1>1. CASE kind = "CLOSE_ALL"
  BY <1>1 DEF Act, Gone, MovesOn
<1>2. CASE kind = "CANCEL_ORDER" /\ broker[o].state = "resting"
  <2>1. /\ broker' = [broker EXCEPT ![o].state = "cancelled"]
        /\ did' = [did EXCEPT ![k] = "done"]
    BY <1>2 DEF Act
  <2> QED
    BY <1>2, <2>1 DEF Gone, MovesOn
<1>3. CASE kind = "CANCEL_ORDER" /\ broker[o].state # "resting"
  BY <1>3 DEF Act, Gone, MovesOn
<1> QED
  BY <1>1, <1>2, <1>3 DEF Kinds

\* What remains true when orders at the broker only move on.
LEMMA WorldMoves ==
  ASSUME IInv, UNCHANGED <<books, snapshot, reused>>,
         \A o \in Orders : MovesOn(o)
  PROVE  SnapshotOK' /\ BrokerOK' /\ ReleasedWasCancelled' /\ FillWins'
<1> USE DEF IInv, Shape, Truth, MovesOn
<1>1. SnapshotOK'
  <2> SUFFICES ASSUME NEW s \in snapshot
               PROVE  /\ s.orders \in [Orders -> OrderStates] /\ s.lots \in [Orders -> 0..Lots]
                      /\ DOMAIN s.verdict \subseteq Keys
                      /\ \A k \in DOMAIN s.verdict :
                             s.verdict[k] \in {"EXECUTED", "REJECTED"} /\ Begun(k)
                      /\ \A o \in Orders : /\ s.lots[o] <= broker'[o].lots
                                           /\ s.orders[o] = "CANCELLED" => Gone(o)'
    BY DEF SnapshotOK, Begun, books
  <2> QED
    BY DEF SnapshotOK
<1>2. BrokerOK'
  BY DEF BrokerOK, books
<1>3. ReleasedWasCancelled'
  BY DEF ReleasedWasCancelled, Gone, books
<1>4. FillWins'
  BY DEF FillWins, books
<1> QED
  BY <1>1, <1>2, <1>3, <1>4

\* A request that is carried out leaves CancelledOK of commands and snapshots.
LEMMA DoneIsGone ==
  ASSUME IInv, NEW k \in Keys, NEW kind \in Kinds, NEW o \in Orders \cup {None},
         kind = "CANCEL_ORDER" => o \in Orders, Act(k, kind, o),
         ~reused, cmd[k].kind = kind, cmd[k].order = o, Begun(k)
  PROVE  /\ \A j \in Keys : Cancels(cmd[j]) /\ did'[j] = "done" => broker'[cmd[j].order].state = "cancelled"
         /\ \A s \in snapshot : \A j \in DOMAIN s.verdict :
                Cancels(cmd[j]) /\ s.verdict[j] = "EXECUTED" => broker'[cmd[j].order].state = "cancelled"
<1> USE DEF IInv, Shape
<1>1. /\ \A j \in Keys : Cancels(cmd[j]) => cmd[j].order \in Orders
      /\ \A j \in Keys : Cancels(cmd[j]) /\ did[j] = "done" => Gone(cmd[j].order)
      /\ \A s \in snapshot : \A j \in DOMAIN s.verdict :
             j \in Keys /\ (Cancels(cmd[j]) /\ s.verdict[j] = "EXECUTED" => Gone(cmd[j].order))
  BY DEF CommandsOK, Truth, CancelledOK, SnapshotOK
<1>2. /\ \A p \in Orders : Gone(p) => Gone(p)'
      /\ \A j \in Keys : j # k => did'[j] = did[j]
      /\ kind = "CANCEL_ORDER" /\ did'[k] = "done" => Gone(o)'
  BY ActFacts DEF MovesOn
<1>3. ASSUME NEW j \in Keys, Cancels(cmd[j]), did'[j] = "done" PROVE broker'[cmd[j].order].state = "cancelled"
  <2>1. CASE j = k
    BY <1>2, <1>3, <2>1 DEF Cancels, Gone
  <2>2. CASE j # k
    BY <1>1, <1>2, <1>3, <2>2 DEF Gone
  <2> QED
    BY <2>1, <2>2
<1>4. ASSUME NEW s \in snapshot, NEW j \in DOMAIN s.verdict,
             Cancels(cmd[j]), s.verdict[j] = "EXECUTED"
      PROVE  broker'[cmd[j].order].state = "cancelled"
  BY <1>1, <1>2, <1>4 DEF Gone
<1> QED
  BY <1>3, <1>4

LEMMA CallKeeps ==
  ASSUME IInv, Call
  PROVE  IInv'
<1> USE DEF IInv, Shape
<1>1. /\ call.key \in Keys /\ call.kind \in Kinds /\ call.order \in Orders \cup {None}
      /\ call \in CallRow /\ call.answer = "none" /\ cmd[call.key].status = "DISPATCHING"
      /\ calls[call.key] = 0 /\ (Cancels(call) => call.order \in Orders)
      /\ cmd' = cmd
  BY DEF Call, Types, CallOK, CallRow, books
<1>2. calls' \in [Keys -> Nat] /\ \A j \in Keys : calls'[j] = IF j = call.key THEN 1 ELSE calls[j]
  BY <1>1 DEF Call, Types
<1>3. CommandsOK' <=> \A j \in Keys : ~Begun(j) => did'[j] = "nothing"
  BY <1>1, <1>2 DEF CommandsOK, Begun, Cancels
<1>4. ASSUME NEW a \in Answers, call' = [call EXCEPT !.answer = a]
      PROVE  /\ call' \in CallRow /\ CallOK'
             /\ call'.key = call.key /\ call'.kind = call.kind /\ call'.order = call.order
             /\ call'.answer = a
  <2>1. /\ call' \in CallRow /\ call'.answer = a
        /\ call'.key = call.key /\ call'.kind = call.kind /\ call'.order = call.order
    BY <1>1, <1>4 DEF CallRow
  <2> QED
    BY <1>1, <2>1, Bounds DEF CallOK, Cancels, Answers
<1>5. CASE /\ Act(call.key, call.kind, call.order) /\ UNCHANGED late
           /\ call' \in {[call EXCEPT !.answer = a] : a \in
                 {IF did'[call.key] = "done" THEN "EXECUTED" ELSE "REJECTED", "LOST"}}
  <2>1. /\ broker' \in [Orders -> [state : {"resting", "filled", "cancelled"}, lots : 0..Lots]]
        /\ did' \in [Keys -> {"nothing", "done", "refused"}]
        /\ \A o \in Orders : MovesOn(o)
        /\ \A j \in Keys : j # call.key => did'[j] = did[j]
        /\ call.kind = "CANCEL_ORDER" /\ did'[call.key] = "done" =>
               broker'[call.order].state = "cancelled"
    BY <1>1, <1>5, ActFacts DEF Cancels, Gone
  <2>2. PICK a \in Answers : /\ call' = [call EXCEPT !.answer = a]
                             /\ a = "EXECUTED" => did'[call.key] = "done"
    BY <1>5 DEF Answers
  <2>3. /\ call' \in CallRow /\ CallOK' /\ call'.answer = a
        /\ call'.key = call.key /\ call'.kind = call.kind /\ call'.order = call.order
    BY <1>4, <2>2
  <2>4. SnapshotOK' /\ BrokerOK' /\ ReleasedWasCancelled' /\ FillWins'
    BY <2>1, WorldMoves DEF Call
  <2>5. Types'
    BY <1>2, <1>5, <2>1, <2>3 DEF Types, Call, books
  <2>6. CommandsOK'
    BY <1>1, <1>3, <2>1 DEF CommandsOK, Begun
  <2>7. LateOK'
    BY <1>1, <1>5 DEF LateOK, Begun, Cancels
  <2>8. NamedOK'
    BY <1>1, <1>5, <2>3 DEF Truth, NamedOK, Call
  <2>9. CancelledOK'
    <3> SUFFICES ASSUME ~reused
                 PROVE  CancelledOK'
      BY DEF CancelledOK, Call
    <3>1. cmd[call.key].kind = call.kind /\ cmd[call.key].order = call.order
      BY <1>1, Bounds DEF Truth, NamedOK
    <3>2. /\ \A j \in Keys : Cancels(cmd[j]) /\ did'[j] = "done" =>
                 broker'[cmd[j].order].state = "cancelled"
          /\ \A s \in snapshot : \A j \in DOMAIN s.verdict :
                 Cancels(cmd[j]) /\ s.verdict[j] = "EXECUTED" =>
                     broker'[cmd[j].order].state = "cancelled"
      BY <1>1, <1>5, <3>1, DoneIsGone DEF Begun, Cancels
    <3>3. Cancels(call') /\ call'.answer = "EXECUTED" => broker'[call.order].state = "cancelled"
      BY <2>1, <2>2, <2>3 DEF Cancels, Gone
    <3> QED
      BY <1>1, <2>3, <3>2, <3>3 DEF CancelledOK, Gone, Cancels, Call
  <2> QED
    BY <2>3, <2>4, <2>5, <2>6, <2>7, <2>8, <2>9 DEF Truth
<1>6. CASE /\ call' = [call EXCEPT !.answer = "LOST"] /\ UNCHANGED <<broker, did>>
           /\ late' \in {late, late \cup {call}}
  <2>1. /\ call' \in CallRow /\ CallOK' /\ call'.answer = "LOST"
        /\ call'.key = call.key /\ call'.kind = call.kind /\ call'.order = call.order
    BY <1>4, <1>6 DEF Answers
  <2>2. SnapshotOK' /\ BrokerOK' /\ ReleasedWasCancelled' /\ FillWins'
    BY <1>6, WorldMoves DEF Call, MovesOn, Gone
  <2>3. call \in [key : Keys, kind : Kinds, order : Orders \cup {None}, answer : {"none"}]
    BY <1>1 DEF CallRow
  <2>4. Types'
    BY <1>2, <1>6, <2>1, <2>3 DEF Types, Call, books
  <2>5. CommandsOK'
    BY <1>3, <1>6 DEF CommandsOK, Begun
  <2>6. LateOK'
    BY <1>1, <1>6 DEF LateOK, Begun, Cancels
  <2>7. NamedOK'
    BY <1>1, <1>6, <2>1, Bounds DEF Truth, NamedOK, Call
  <2>8. CancelledOK'
    BY <1>1, <1>6, <2>1 DEF Truth, CancelledOK, Call, Gone, Cancels
  <2> QED
    BY <2>1, <2>2, <2>4, <2>5, <2>6, <2>7, <2>8 DEF Truth
<1> QED
  BY <1>5, <1>6 DEF Call

LEMMA ActLateKeeps ==
  ASSUME IInv, ActLate
  PROVE  IInv'
<1> USE DEF IInv, Shape
<1>1. PICK c \in late : Act(c.key, c.kind, c.order) /\ late' = late \ {c}
  BY DEF ActLate
<1>2. /\ c.key \in Keys /\ c.kind \in Kinds /\ c.order \in Orders \cup {None}
      /\ Begun(c.key) /\ (c.kind = "CANCEL_ORDER" => c.order \in Orders)
      /\ cmd' = cmd /\ call' = call /\ calls' = calls
  BY DEF Types, LateOK, Cancels, ActLate, books
<1>3. /\ broker' \in [Orders -> [state : {"resting", "filled", "cancelled"}, lots : 0..Lots]]
      /\ did' \in [Keys -> {"nothing", "done", "refused"}]
      /\ \A o \in Orders : MovesOn(o)
      /\ \A j \in Keys : j # c.key => did'[j] = did[j]
  BY <1>1, <1>2, ActFacts
<1>4. SnapshotOK' /\ BrokerOK' /\ ReleasedWasCancelled' /\ FillWins'
  BY <1>3, WorldMoves DEF ActLate
<1>5. Types'
  BY <1>1, <1>3 DEF Types, ActLate, books
<1>6. CommandsOK'
  BY <1>2, <1>3 DEF CommandsOK, Begun
<1>7. CallOK' /\ LateOK'
  BY <1>1, <1>2 DEF CallOK, LateOK, Begun, Cancels, NoCall
<1>8. NamedOK'
  BY <1>1, <1>2 DEF Truth, NamedOK, ActLate
<1>9. CancelledOK'
  <2> SUFFICES ASSUME ~reused
               PROVE  CancelledOK'
    BY DEF CancelledOK, ActLate
  <2>1. cmd[c.key].kind = c.kind /\ cmd[c.key].order = c.order
    BY DEF Truth, NamedOK
  <2>2. /\ \A j \in Keys : Cancels(cmd[j]) /\ did'[j] = "done" =>
               broker'[cmd[j].order].state = "cancelled"
        /\ \A s \in snapshot : \A j \in DOMAIN s.verdict :
               Cancels(cmd[j]) /\ s.verdict[j] = "EXECUTED" =>
                   broker'[cmd[j].order].state = "cancelled"
    BY <1>1, <1>2, <2>1, DoneIsGone
  <2>3. Cancels(call) /\ call.answer = "EXECUTED" => broker'[call.order].state = "cancelled"
    <3>1. Cancels(call) /\ call.answer = "EXECUTED" => call.order \in Orders /\ Gone(call.order)
      BY DEF Truth, CancelledOK, CallOK, NoCall, Cancels
    <3> QED
      BY <1>3, <3>1 DEF MovesOn, Gone
  <2> QED
    BY <1>2, <2>2, <2>3 DEF CancelledOK, Gone, Cancels, ActLate
<1> QED
  BY <1>4, <1>5, <1>6, <1>7, <1>8, <1>9 DEF Truth

LEMMA FillsKeeps ==
  ASSUME IInv, NEW o \in Orders, Fills(o)
  PROVE  IInv'
<1> USE DEF IInv, Shape
<1>1. /\ \A p \in Orders : broker[p].lots \in 0..Lots
      /\ broker[o].lots # Lots /\ broker[o].state = "resting"
      /\ \A p \in Orders : p # o => broker'[p] = broker[p]
      /\ broker'[o].lots = broker[o].lots + 1
      /\ broker'[o].state = IF broker[o].lots + 1 = Lots THEN "filled" ELSE "resting"
  BY DEF Types, Fills, BrokerOK
<1>2. broker' \in [Orders -> [state : {"resting", "filled", "cancelled"}, lots : 0..Lots]]
  <2>1. broker[o].lots + 1 \in 0..Lots
    BY <1>1, Bounds
  <2> QED
    BY <2>1 DEF Types, Fills
<1>3. Types'
  BY <1>2 DEF Types, Fills, books
<1>4. /\ \A p \in Orders : Gone(p) <=> broker'[p].state = "cancelled"
      /\ \A p \in Orders : broker[p].lots <= broker'[p].lots
  BY <1>1 DEF Gone
<1>5. CommandsOK' /\ CallOK' /\ LateOK' /\ NamedOK'
  BY DEF Fills, books, CommandsOK, CallOK, LateOK, Truth, NamedOK, Begun, Cancels, NoCall
<1>6. SnapshotOK'
  <2> SUFFICES ASSUME NEW s \in snapshot
               PROVE  /\ s.orders \in [Orders -> OrderStates] /\ s.lots \in [Orders -> 0..Lots]
                      /\ DOMAIN s.verdict \subseteq Keys
                      /\ \A k \in DOMAIN s.verdict :
                             s.verdict[k] \in {"EXECUTED", "REJECTED"} /\ Begun(k)
                      /\ \A p \in Orders : /\ s.lots[p] <= broker'[p].lots
                                           /\ s.orders[p] = "CANCELLED" =>
                                                  broker'[p].state = "cancelled"
    BY DEF SnapshotOK, Begun, Gone, Fills, books
  <2>1. /\ s.orders \in [Orders -> OrderStates] /\ s.lots \in [Orders -> 0..Lots]
        /\ DOMAIN s.verdict \subseteq Keys
        /\ \A k \in DOMAIN s.verdict :
               s.verdict[k] \in {"EXECUTED", "REJECTED"} /\ Begun(k)
        /\ \A p \in Orders : /\ s.lots[p] <= broker[p].lots
                             /\ s.orders[p] = "CANCELLED" => Gone(p)
    BY DEF SnapshotOK
  <2>2. \A p \in Orders : s.lots[p] <= broker'[p].lots
    <3> TAKE p \in Orders
    <3>1. s.lots[p] \in 0..Lots /\ broker[p].lots \in 0..Lots /\ broker'[p].lots \in 0..Lots
      BY <1>1, <1>2, <2>1
    <3> QED
      BY <1>4, <2>1, <3>1
  <2> QED
    BY <1>4, <2>1, <2>2
<1>7. BrokerOK'
  <2> SUFFICES ASSUME NEW p \in Orders
               PROVE  /\ (broker'[p].state = "filled") <=> (broker'[p].lots = Lots)
                      /\ known[p] <= broker'[p].lots
    BY DEF BrokerOK, Fills, books
  <2>1. known[p] \in 0..Lots /\ broker[p].lots \in 0..Lots /\ broker'[p].lots \in 0..Lots
    BY <1>1, <1>2 DEF Types
  <2> QED
    BY <1>1, <2>1 DEF BrokerOK
<1>8. CancelledOK'
  <2>1. /\ \A k \in Keys : Cancels(cmd[k]) => cmd[k].order \in Orders
        /\ Cancels(call) /\ call.answer = "EXECUTED" => call.order \in Orders
        /\ \A s \in snapshot : DOMAIN s.verdict \subseteq Keys
    BY DEF CommandsOK, CallOK, SnapshotOK, NoCall, Cancels
  <2> QED
    BY <1>4, <2>1 DEF Truth, CancelledOK, Gone, Cancels, Fills, books
<1>9. ReleasedWasCancelled' /\ FillWins'
  BY <1>4 DEF Truth, ReleasedWasCancelled, FillWins, Gone, Fills, books
<1> QED
  BY <1>3, <1>5, <1>6, <1>7, <1>8, <1>9 DEF Truth

LEMMA ReadKeeps ==
  ASSUME IInv, Read
  PROVE  IInv'
<1> USE DEF IInv, Shape
<1>0. PICK denied \in SUBSET InDoubt :
          snapshot' = {[orders |-> [o \in Orders |-> Observed(o)],
                        lots |-> [o \in Orders |-> broker[o].lots],
                        verdict |-> [k \in InDoubt |->
                            IF k \in denied THEN "REJECTED" ELSE Verdict(k)]]}
  BY DEF Read
<1> DEFINE s == [orders |-> [o \in Orders |-> Observed(o)],
                 lots |-> [o \in Orders |-> broker[o].lots],
                 verdict |-> [k \in InDoubt |->
                     IF k \in denied THEN "REJECTED" ELSE Verdict(k)]]
<1>1. /\ snapshot' = {s} /\ books' = books /\ world' = world /\ call' = call
      /\ calls' = calls /\ reused' = reused /\ restarts' = restarts
  BY <1>0 DEF Read
<1>2. Cardinality(snapshot') <= 1
  <2> HIDE DEF s
  <2>1. Cardinality({s}) = 1
    BY FS_Singleton, Zenon
  <2> QED
    BY <1>1, <2>1
<1>3. Types'
  BY <1>1, <1>2 DEF Types, books, world
<1>4. CommandsOK' /\ CallOK' /\ LateOK' /\ BrokerOK' /\ NamedOK'
  BY <1>1
  DEF books, world, CommandsOK, CallOK, LateOK, BrokerOK, Truth, NamedOK, Begun, Cancels, NoCall
<1>5. ReleasedWasCancelled' /\ FillWins'
  BY <1>1 DEF Truth, ReleasedWasCancelled, FillWins, books, world
<1>6. /\ s.orders \in [Orders -> OrderStates] /\ s.lots \in [Orders -> 0..Lots]
      /\ DOMAIN s.verdict \subseteq Keys
      /\ \A k \in DOMAIN s.verdict : s.verdict[k] \in {"EXECUTED", "REJECTED"} /\ Begun(k)
      /\ \A o \in Orders : /\ s.lots[o] <= broker[o].lots
                           /\ s.orders[o] = "CANCELLED" => Gone(o)
  <2>1. s.orders \in [Orders -> OrderStates]
    BY DEF Observed, OrderStates
  <2>2. s.lots \in [Orders -> 0..Lots] /\ \A o \in Orders : s.lots[o] <= broker[o].lots
    BY Bounds DEF Types
  <2>3. /\ DOMAIN s.verdict \subseteq Keys
        /\ \A k \in DOMAIN s.verdict : s.verdict[k] \in {"EXECUTED", "REJECTED"} /\ Begun(k)
    BY DEF InDoubt, Verdict, Begun
  <2>4. \A o \in Orders : s.orders[o] = "CANCELLED" => Gone(o)
    BY DEF Observed, Gone
  <2> QED
    BY <2>1, <2>2, <2>3, <2>4
<1>7. \A k \in DOMAIN s.verdict : k \in Keys /\ (s.verdict[k] = "EXECUTED" => did[k] = "done")
  BY DEF InDoubt, Verdict
<1> HIDE DEF s
<1>8. SnapshotOK'
  BY <1>1, <1>6 DEF SnapshotOK, Begun, Gone, books, world
<1>9. CancelledOK'
  BY <1>1, <1>7 DEF Truth, CancelledOK, Gone, Cancels, books, world
<1> QED
  BY <1>3, <1>4, <1>5, <1>8, <1>9 DEF Truth

-----------------------------------------------------------------------------
(* The invariant, and what it says.                                        *)

LEMMA StutterKeeps ==
  ASSUME IInv, UNCHANGED vars
  PROVE  IInv'
  BY DEF vars, books, world, IInv, Shape, Truth, Types, CommandsOK, CallOK, LateOK, SnapshotOK,
         BrokerOK, NamedOK, CancelledOK, ReleasedWasCancelled, FillWins, Begun, Cancels, Gone, NoCall

LEMMA IInvKept == IInv /\ [Next]_vars => IInv'
<1> SUFFICES ASSUME IInv, [Next]_vars PROVE IInv'
  OBVIOUS
<1>1. CASE \E k \in Keys : \/ \E kind \in Kinds, o \in Orders \cup {None} :
                                 Request(k, kind, o) \/ Begin(k, kind, o)
                           \/ Recover(k) \/ Escalate(k)
  BY <1>1, RequestKeeps, BeginKeeps, RecoverKeeps, EscalateKeeps
<1>2. CASE \E o \in Orders : RecordFill(o) \/ Fills(o)
  BY <1>2, RecordFillKeeps, FillsKeeps
<1>3. CASE Call \/ Answer \/ ActLate
  BY <1>3, CallKeeps, AnswerKeeps, ActLateKeeps
<1>4. CASE Read \/ Reconcile \/ Restart
  BY <1>4, ReadKeeps, ReconcileKeeps, RestartKeeps
<1>5. CASE UNCHANGED vars
  BY <1>5, StutterKeeps
<1> QED
  BY <1>1, <1>2, <1>3, <1>4, <1>5 DEF Next

LEMMA IInvAlways == Spec => []IInv
  BY InitInv, IInvKept, PTL DEF Spec

-----------------------------------------------------------------------------
(* Doubt has work: inductive with the types.                               *)

LEMMA WorkKept ==
  ASSUME IInv, InFlightHasWork, [Next]_vars
  PROVE  InFlightHasWork'
<1> USE DEF IInv, Shape
<1>0. /\ cmd \in [Keys -> CommandRow]
      /\ work \in [Keys -> {"NONE", "PENDING", "ESCALATED", "RECOVERED"}]
      /\ call \in CallRow /\ None \notin Keys
  BY Bounds DEF Types
<1>1. ASSUME NEW k \in Keys, NEW kind \in Kinds, NEW o \in Orders \cup {None},
             Request(k, kind, o) \/ Begin(k, kind, o)
      PROVE  InFlightHasWork'
  <2>1. /\ Command(k, kind, o) \in CommandRow
        /\ Command(k, kind, o).status = IF cmd[k].kind = "NONE" THEN "ACCEPTED" ELSE cmd[k].status
    BY <1>1, CommandFacts DEF Request, Begin
  <2>2. \A j \in Keys : cmd[j].status # "DISPATCHING"
    BY <1>0, <1>1 DEF InFlightHasWork, Request, Begin, Unlocked, NoCall
  <2>3. CASE Request(k, kind, o)
    BY <1>0, <2>1, <2>2, <2>3 DEF Request, InFlightHasWork, Unresolved
  <2>4. CASE Begin(k, kind, o)
    <3>1. [Command(k, kind, o) EXCEPT !.status = "DISPATCHING"].status = "DISPATCHING"
      BY <2>1 DEF CommandRow
    <3> QED
      BY <1>0, <2>2, <2>4, <3>1 DEF Begin, InFlightHasWork, Unresolved
  <2> QED
    BY <1>1, <2>3, <2>4
<1>2. ASSUME NEW k \in Keys, Recover(k)
      PROVE  InFlightHasWork'
  BY <1>0, <1>2 DEF CommandRow, Recover, Verdict, Complete, InFlightHasWork, Unresolved
<1>3. ASSUME NEW k \in Keys, Escalate(k)
      PROVE  InFlightHasWork'
  BY <1>0, <1>3 DEF Escalate, InFlightHasWork, Unresolved
<1>4. CASE Answer
  <2>1. call.key \in Keys /\ \A j \in Keys : j # call.key => cmd[j].status # "DISPATCHING"
    BY <1>0, <1>4 DEF Answer, CallOK, CallRow, NoCall, InFlightHasWork
  <2>2. CASE call.answer = "LOST"
    <3>1. cmd' = [cmd EXCEPT ![call.key].status = "UNKNOWN"] /\ RecordUnknown({call.key})
      BY <1>4, <2>2 DEF Answer
    <3>2. ASSUME NEW j \in Keys, cmd'[j].status \in {"DISPATCHING", "UNKNOWN"}
          PROVE  cmd'[j].status = "UNKNOWN" /\ (j = call.key \/ j \in Unresolved)
      BY <1>0, <2>1, <3>1, <3>2 DEF CommandRow, InFlightHasWork
    <3>3. ASSUME NEW j \in Keys, j = call.key \/ j \in Unresolved
          PROVE  work'[j] \in {"PENDING", "ESCALATED"}
      BY <1>0, <3>1, <3>3 DEF RecordUnknown, Unresolved
    <3> QED
      BY <3>2, <3>3 DEF InFlightHasWork, Unresolved
  <2>3. CASE call.answer # "LOST"
    <3>1. call.answer \in {"EXECUTED", "REJECTED"}
      BY <1>0, <1>4, <2>3 DEF Answer, CallRow, Answers
    <3> QED
      BY <1>0, <1>4, <2>1, <2>3, <3>1
      DEF Answer, CommandRow, InFlightHasWork, Unresolved, NoCall
  <2> QED
    BY <2>2, <2>3
<1>5. CASE Reconcile
  <2>1. PICK s \in snapshot :
           /\ cmd' = [k \in Keys |-> IF k \in Settled(s)
                                     THEN [cmd[k] EXCEPT !.status = s.verdict[k]] ELSE cmd[k]]
           /\ Complete(Settled(s))
    BY <1>5 DEF Reconcile
  <2>2. \A k \in Settled(s) : s.verdict[k] \in {"EXECUTED", "REJECTED"}
    BY DEF SnapshotOK, Settled
  <2>3. call' = call
    BY <1>5 DEF Reconcile
  <2> QED
    BY <1>0, <2>1, <2>2, <2>3 DEF CommandRow, Complete, InFlightHasWork, Unresolved
<1>6. CASE Restart
  BY <1>0, <1>6 DEF Restart, CommandRow, RecordUnknown, InFlightHasWork, Unresolved, NoCall
<1>7. CASE Call
  <2>1. cmd' = cmd /\ work' = work
    BY <1>7 DEF Call, books
  <2>2. call'.key = call.key
    BY <1>0, <1>7 DEF Call, CallRow
  <2> QED
    BY <2>1, <2>2 DEF InFlightHasWork, Unresolved
<1>8. CASE ActLate \/ Read \/ UNCHANGED vars \/ \E o \in Orders : RecordFill(o) \/ Fills(o)
  BY <1>8 DEF ActLate, Read, RecordFill, Fills, vars, books, InFlightHasWork, Unresolved
<1> QED
  BY <1>1, <1>2, <1>3, <1>4, <1>5, <1>6, <1>7, <1>8 DEF Next

\* Every variable keeps its type (the operator commands of execution.py).
THEOREM TypeCorrect == Spec => []TypeOK
<1>1. IInv => TypeOK
  BY TypesByRow DEF IInv, Shape
<1> QED
  BY <1>1, IInvAlways, PTL

\* A command reaches the adapter at most once, for any number of keys, requests and
\* restarts: it is saved as DISPATCHING before the call, and what is DISPATCHING at a
\* restart is UNKNOWN, which is asked about and never sent again.
THEOREM OneCallPerCommand == Spec => []CalledOnce
<1>1. IInv => CalledOnce
  BY DEF IInv, Shape, CommandsOK, CalledOnce
<1> QED
  BY <1>1, IInvAlways, PTL

\* As long as no key names two commands, an order's risk is released only when the
\* broker has taken the order off its book, whatever answer, recovery or snapshot
\* released it and however late it was.
THEOREM RiskReleasedTruly == Spec => []ReleasedWasCancelled
<1>1. IInv => ReleasedWasCancelled
  BY DEF IInv, Truth
<1> QED
  BY <1>1, IInvAlways, PTL

\* As long as no key names two commands, an order whose whole volume has been recorded
\* stays FILLED with its risk CONSUMED, whatever comes after.
THEOREM CompleteFillWins == Spec => []FillWins
<1>1. IInv => FillWins
  BY DEF IInv, Truth
<1> QED
  BY <1>1, IInvAlways, PTL

\* A command whose call has begun is in that call, is settled, or has unresolved work
\* that asks the broker for it, whether its answer was lost or the process died.
THEOREM DoubtHasWork == Spec => []InFlightHasWork
<1>1. Init => InFlightHasWork
  BY DEF Init, InFlightHasWork
<1>2. IInv /\ InFlightHasWork /\ [Next]_vars => InFlightHasWork'
  BY WorkKept
<1> QED
  BY <1>1, <1>2, IInvAlways, PTL DEF Spec

-----------------------------------------------------------------------------
(* What is EXECUTED was executed, and stays so.                            *)

\* A request that is still on its way is the only one of its command, and the broker
\* has done nothing for it.
LateNew == \A c \in late :
    /\ did[c.key] = "nothing" /\ calls[c.key] # 0
    /\ \A d \in late : d.key = c.key => d = c

\* Whoever says EXECUTED - a row, an answer, a snapshot - says it of what was done.
SaidOK ==
    /\ \A k \in Keys : calls[k] = 0 => did[k] = "nothing"
    /\ call.answer = "EXECUTED" => did[call.key] = "done"
    /\ \A s \in snapshot : \A k \in DOMAIN s.verdict :
           s.verdict[k] = "EXECUTED" => did[k] = "done"

DoneInv == IInv /\ LateNew /\ SaidOK /\ ExecutedIsTrue

Final == \A k \in Keys : cmd[k].status = "EXECUTED" => cmd'[k].status = "EXECUTED"

\* Rows and snapshots stay, and what was done stays done.
LEMMA WorldKeepsTrue ==
  ASSUME DoneInv, UNCHANGED <<cmd, snapshot>>,
         \A k \in Keys : did[k] = "done" => did'[k] = "done"
  PROVE  /\ ExecutedIsTrue' /\ Final
         /\ \A s \in snapshot' : \A k \in DOMAIN s.verdict :
                s.verdict[k] = "EXECUTED" => did'[k] = "done"
<1>1. \A s \in snapshot : DOMAIN s.verdict \subseteq Keys
  BY DEF DoneInv, IInv, Shape, SnapshotOK
<1> QED BY <1>1 DEF DoneInv, SaidOK, ExecutedIsTrue, Final

\* The broker stays; rows become EXECUTED of what was done only.
LEMMA BooksKeepTrue ==
  ASSUME DoneInv, UNCHANGED <<did, late, calls>>,
         snapshot' \in {snapshot, {}}, call' = call \/ call'.answer = "none",
         \A k \in Keys : /\ cmd'[k].status = "EXECUTED" =>
                                cmd[k].status = "EXECUTED" \/ did[k] = "done"
                         /\ cmd[k].status = "EXECUTED" => cmd'[k].status = "EXECUTED"
  PROVE  LateNew' /\ SaidOK' /\ ExecutedIsTrue' /\ Final
<1>1. LateNew' /\ ExecutedIsTrue' /\ Final
  BY DEF DoneInv, LateNew, ExecutedIsTrue, Final
<1>2. SaidOK'
  BY DEF DoneInv, SaidOK
<1> QED BY <1>1, <1>2

\* The broker carries out the request of k, for which it has done nothing.
LEMMA ActsOnce ==
  ASSUME DoneInv, NEW k \in Keys, NEW kind \in Kinds, NEW o, Act(k, kind, o),
         did[k] = "nothing"
  PROVE  /\ did'[k] \in {"done", "refused"}
         /\ \A j \in Keys : j # k => did'[j] = did[j]
         /\ \A j \in Keys : did[j] = "done" => did'[j] = "done"
<1>1. did \in [Keys -> {"nothing", "done", "refused"}]
  BY DEF DoneInv, IInv, Shape, Types
<1>2. did' = [did EXCEPT ![k] = "done"] \/ did' = [did EXCEPT ![k] = "refused"]
  BY DEF Act
<1> QED BY <1>1, <1>2

LEMMA DoneCall ==
  ASSUME DoneInv, Call
  PROVE  LateNew' /\ SaidOK' /\ ExecutedIsTrue' /\ Final
<1>0. /\ call \in CallRow /\ call.key \in Keys /\ call.answer = "none" /\ calls[call.key] = 0
      /\ did[call.key] = "nothing"
      /\ calls \in [Keys -> Nat]
      /\ late \subseteq [key : Keys, kind : Kinds, order : Orders \cup {None}, answer : {"none"}]
  BY DEF DoneInv, IInv, Shape, Types, CallOK, CallRow, Call, SaidOK
<1>1. /\ UNCHANGED <<cmd, snapshot>> /\ calls'[call.key] # 0
      /\ \A j \in Keys : j # call.key => calls'[j] = calls[j]
  BY <1>0 DEF Call, books
\* no request of this command is on its way
<1>2. \A c \in late : c.key # call.key
  BY <1>0 DEF DoneInv, LateNew
<1>3. CASE /\ Act(call.key, call.kind, call.order) /\ UNCHANGED late
           /\ call' \in {[call EXCEPT !.answer = a] : a \in
                  {IF did'[call.key] = "done" THEN "EXECUTED" ELSE "REJECTED", "LOST"}}
  <2>1. /\ did'[call.key] \in {"done", "refused"}
        /\ \A j \in Keys : j # call.key => did'[j] = did[j]
        /\ \A j \in Keys : did[j] = "done" => did'[j] = "done"
    BY <1>0, <1>3, ActsOnce DEF CallRow
  <2>2. call'.key = call.key /\ (call'.answer = "EXECUTED" => did'[call.key] = "done")
    BY <1>0, <1>3 DEF CallRow
  <2>3. LateNew'
    BY <1>0, <1>1, <1>2, <1>3, <2>1 DEF DoneInv, LateNew
  <2>4. SaidOK' /\ ExecutedIsTrue' /\ Final
    BY <1>1, <2>1, <2>2, WorldKeepsTrue DEF SaidOK, DoneInv
  <2> QED BY <2>3, <2>4
<1>4. CASE /\ call' = [call EXCEPT !.answer = "LOST"] /\ UNCHANGED did
           /\ late' \in {late, late \cup {call}}
  <2>1. call'.answer = "LOST"
    BY <1>0, <1>4 DEF CallRow
  <2>2. LateNew'
    BY <1>0, <1>1, <1>2, <1>4 DEF DoneInv, LateNew
  <2>3. SaidOK' /\ ExecutedIsTrue' /\ Final
    BY <1>1, <1>4, <2>1, WorldKeepsTrue DEF SaidOK, DoneInv
  <2> QED BY <2>2, <2>3
<1> QED BY <1>3, <1>4 DEF Call

LEMMA DoneLate ==
  ASSUME DoneInv, ActLate
  PROVE  LateNew' /\ SaidOK' /\ ExecutedIsTrue' /\ Final
<1>1. PICK c \in late : Act(c.key, c.kind, c.order) /\ late' = late \ {c}
  BY DEF ActLate
<1>2. c.key \in Keys /\ c.kind \in Kinds /\ did[c.key] = "nothing" /\ calls[c.key] # 0
  BY DEF DoneInv, LateNew, IInv, Shape, Types
<1>3. UNCHANGED <<cmd, snapshot, call, calls>>
  BY DEF ActLate, books
<1>4. /\ \A j \in Keys : j # c.key => did'[j] = did[j]
      /\ \A j \in Keys : did[j] = "done" => did'[j] = "done"
  BY <1>1, <1>2, ActsOnce
<1>5. LateNew'
  <2>1. \A d \in late' : d \in late /\ d.key # c.key /\ d.key \in Keys
    BY <1>1 DEF DoneInv, LateNew, IInv, Shape, Types
  <2> QED BY <1>3, <1>4, <2>1 DEF DoneInv, LateNew
<1>6. call.answer = "EXECUTED" => did'[call.key] = "done"
  <2>1. call.answer = "EXECUTED" => call.key \in Keys
    BY DEF DoneInv, IInv, Shape, Types, CallOK, CallRow, NoCall
  <2> QED BY <1>4, <2>1 DEF DoneInv, SaidOK
<1>7. SaidOK' /\ ExecutedIsTrue' /\ Final
  BY <1>2, <1>3, <1>4, <1>6, WorldKeepsTrue DEF SaidOK, DoneInv
<1> QED BY <1>5, <1>7

LEMMA DoneKept ==
  ASSUME DoneInv, [Next]_vars
  PROVE  LateNew' /\ SaidOK' /\ ExecutedIsTrue' /\ Final
<1> DEFINE Good == LateNew' /\ SaidOK' /\ ExecutedIsTrue' /\ Final
<1>0. /\ Types /\ CommandsOK /\ CallOK /\ SnapshotOK
      /\ cmd \in [Keys -> CommandRow] /\ call \in CallRow
  BY DEF DoneInv, IInv, Shape, Types
<1>1. ASSUME NEW k \in Keys, NEW kind \in Kinds, NEW o \in Orders \cup {None},
             Request(k, kind, o) \/ Begin(k, kind, o)
      PROVE  Good
  <2>1. /\ Command(k, kind, o) \in CommandRow
        /\ Command(k, kind, o).status = IF cmd[k].kind = "NONE" THEN "ACCEPTED" ELSE cmd[k].status
    BY <1>0, <1>1, CommandFacts DEF Request, Begin
  <2>2. cmd[k].status = "EXECUTED" => cmd[k].kind # "NONE"
    BY <1>0 DEF CommandsOK
  <2>3. CASE Request(k, kind, o)
    <3>1. \A j \in Keys : /\ cmd'[j].status = "EXECUTED" => cmd[j].status = "EXECUTED"
                          /\ cmd[j].status = "EXECUTED" => cmd'[j].status = "EXECUTED"
      BY <1>0, <2>1, <2>2, <2>3 DEF Request
    <3> QED BY <2>3, <3>1, BooksKeepTrue DEF Request, world
  <2>4. CASE Begin(k, kind, o)
    <3>1. [Command(k, kind, o) EXCEPT !.status = "DISPATCHING"].status = "DISPATCHING"
      BY <2>1 DEF CommandRow
    <3>2. cmd[k].status # "EXECUTED"
      BY <2>1, <2>2, <2>4 DEF Begin
    <3>3. \A j \in Keys : /\ cmd'[j].status = "EXECUTED" => cmd[j].status = "EXECUTED"
                          /\ cmd[j].status = "EXECUTED" => cmd'[j].status = "EXECUTED"
      BY <1>0, <2>4, <3>1, <3>2 DEF Begin
    <3> QED BY <2>4, <3>3, BooksKeepTrue DEF Begin, world
  <2> QED BY <1>1, <2>3, <2>4
<1>2. ASSUME NEW k \in Keys, Recover(k) PROVE Good
  <2>1. /\ cmd' = [cmd EXCEPT ![k].status = Verdict(k)]
        /\ cmd[k].status = "UNKNOWN" /\ UNCHANGED <<did, late, calls, call, snapshot>>
    BY <1>2 DEF Recover, world
  <2>2. \A j \in Keys : /\ cmd'[j].status = "EXECUTED" =>
                               cmd[j].status = "EXECUTED" \/ did[j] = "done"
                        /\ cmd[j].status = "EXECUTED" => cmd'[j].status = "EXECUTED"
    BY <1>0, <2>1 DEF Verdict, CommandRow
  <2> QED BY <2>1, <2>2, BooksKeepTrue
<1>3. CASE Answer
  <2>1. call.key \in Keys /\ cmd[call.key].status = "DISPATCHING"
    BY <1>0, <1>3 DEF Answer, CallOK, CallRow, NoCall
  <2>2. /\ UNCHANGED <<did, late, calls, snapshot>> /\ call'.answer = "none"
    BY <1>3 DEF Answer, world, NoCall
  <2>3. PICK v : /\ cmd' = [cmd EXCEPT ![call.key].status = v]
                 /\ v = "EXECUTED" => call.answer = "EXECUTED"
    BY <1>3 DEF Answer
  <2>4. \A j \in Keys : /\ cmd'[j].status = "EXECUTED" =>
                               cmd[j].status = "EXECUTED" \/ did[j] = "done"
                        /\ cmd[j].status = "EXECUTED" => cmd'[j].status = "EXECUTED"
    BY <1>0, <2>1, <2>3 DEF CommandRow, DoneInv, SaidOK
  <2> QED BY <2>2, <2>4, BooksKeepTrue
<1>4. CASE Reconcile
  <2>1. PICK s \in snapshot :
            cmd' = [k \in Keys |-> IF k \in Settled(s)
                                   THEN [cmd[k] EXCEPT !.status = s.verdict[k]] ELSE cmd[k]]
    BY <1>4 DEF Reconcile
  <2>2. UNCHANGED <<did, late, calls, call>> /\ snapshot' = {}
    BY <1>4 DEF Reconcile, world
  <2>3. \A j \in Settled(s) : /\ s.verdict[j] = "EXECUTED" => did[j] = "done"
                              /\ cmd[j].status = "EXECUTED" => s.verdict[j] = "EXECUTED"
    BY DEF Settled, DoneInv, SaidOK
  <2>4. \A j \in Keys : /\ cmd'[j].status = "EXECUTED" =>
                               cmd[j].status = "EXECUTED" \/ did[j] = "done"
                        /\ cmd[j].status = "EXECUTED" => cmd'[j].status = "EXECUTED"
    BY <1>0, <2>1, <2>3 DEF CommandRow
  <2> QED BY <2>2, <2>4, BooksKeepTrue
<1>5. CASE Restart
  <2>1. \A j \in Keys : /\ cmd'[j].status = "EXECUTED" => cmd[j].status = "EXECUTED"
                        /\ cmd[j].status = "EXECUTED" => cmd'[j].status = "EXECUTED"
    BY <1>0, <1>5 DEF Restart, CommandRow
  <2> QED BY <1>5, <2>1, BooksKeepTrue DEF Restart, world, NoCall
<1>6. CASE Read
  <2>1. UNCHANGED <<did, late, calls, call, cmd>>
    BY <1>6 DEF Read, books, world
  <2>2. \A s \in snapshot' : \A k \in DOMAIN s.verdict :
            s.verdict[k] = "EXECUTED" => did[k] = "done"
    BY <1>6 DEF Read, Verdict
  <2> QED BY <2>1, <2>2 DEF DoneInv, LateNew, SaidOK, ExecutedIsTrue, Final
<1>7. CASE Call \/ ActLate
  BY <1>7, DoneCall, DoneLate
<1>8. CASE \/ UNCHANGED vars \/ \E k \in Keys : Escalate(k)
           \/ \E o \in Orders : RecordFill(o) \/ Fills(o)
  <2>1. UNCHANGED <<did, late, calls, call, cmd, snapshot>>
    BY <1>8 DEF Escalate, RecordFill, Fills, vars, books, world
  <2> QED BY <2>1, BooksKeepTrue
<1> QED BY <1>1, <1>2, <1>3, <1>4, <1>5, <1>6, <1>7, <1>8 DEF Next

\* A command that is called EXECUTED was carried out by the broker, and stays EXECUTED:
\* for any keys, sent again or for another order, any late requests and answers, and
\* snapshots that are applied after they were read.
THEOREM ExecutedIsFinal == Spec => []ExecutedIsTrue /\ ExecutedStays
<1>1. Init => DoneInv
  BY InitInv DEF Init, DoneInv, LateNew, SaidOK, ExecutedIsTrue, NoCall
<1>2. DoneInv /\ [Next]_vars => DoneInv' /\ Final
  BY IInvKept, DoneKept DEF DoneInv
<1>3. DoneInv => ExecutedIsTrue
  BY DEF DoneInv
<1>4. ExecutedStays <=> [][Final]_vars
  BY DEF ExecutedStays, Final
<1> QED
  BY <1>1, <1>2, <1>3, <1>4, PTL DEF Spec
=============================================================================
