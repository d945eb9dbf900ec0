---------------------------- MODULE OperatorCommands ----------------------------
(***************************************************************************)
(* Cancelling pending entry orders and closing all positions (backend      *)
(* execution.py: cancel_order, close_all, recover_operator_command, the    *)
(* commands section of a broker snapshot), against orders that fill, in    *)
(* part or whole, while the command is under way.                          *)
(*                                                                         *)
(* An operator command is named by its idempotency key, which is all that  *)
(* _command looks up: the same key returns the prior command, of whatever  *)
(* kind and for whatever order.  cancel_order and close_all save before    *)
(* they call the adapter and hold the account lock during the call; each   *)
(* is three steps.  Every other operation saves once and is one.           *)
(*                                                                         *)
(* Orders begin as accepted by the broker: their dispatch is in            *)
(* ExecutionCoordinator.  The account's gate, which no operation here      *)
(* reads, is left out: UNKNOWN work quarantines it as in PositionLifecycle.*)
(* A lot of an order is a deal of its own.                                 *)
(***************************************************************************)
EXTENDS Naturals, FiniteSets

CONSTANTS
    Orders,       \* entry orders
    Keys,         \* idempotency keys, each with the command it names
    None,         \* no order; no adapter call in progress
    Lots,         \* requested volume of an order
    MaxRestarts   \* bound on restarts

ASSUME CommandsAssumption ==
    /\ None \notin Orders \cup Keys /\ IsFiniteSet(Keys)
    /\ Lots \in Nat \ {0} /\ MaxRestarts \in Nat

VARIABLES
    order,      \* OrderIntent.status and RiskReservation.status of each order
    known,      \* how many of its deals have a Fill
    cmd,        \* OperatorCommand: kind, order_id, status
    work,       \* its ReconciliationWork
    call,       \* the adapter call in progress: key, kind, order and answer
    snapshot,   \* a broker snapshot that is read and not yet applied, or {}
    broker,     \* the orders at the broker
    did,        \* what the broker did with each command
    late,       \* requests on their way whose answer was given up
    calls,      \* adapter calls of each command
    reused,     \* a key was used for another order or kind
    restarts

books == <<order, known, cmd, work>>
world == <<broker, did, late>>
vars == <<books, call, snapshot, world, calls, reused, restarts>>

Kinds == {"CANCEL_ORDER", "CLOSE_ALL"}
Answers == {"EXECUTED", "REJECTED", "LOST"}
NoCall == [key |-> None, kind |-> "CLOSE_ALL", order |-> None, answer |-> "none"]

Unlocked == call = NoCall
InDoubt == {k \in Keys : cmd[k].status = "UNKNOWN"}
Unresolved == {k \in Keys : work[k] \in {"PENDING", "ESCALATED"}}

Init ==
    /\ order = [o \in Orders |-> [status |-> "SUBMITTED", reserved |-> "ACTIVE"]]
    /\ known = [o \in Orders |-> 0]
    /\ cmd = [k \in Keys |-> [kind |-> "NONE", order |-> None, status |-> "NONE"]]
    /\ work = [k \in Keys |-> "NONE"]
    /\ call = NoCall /\ snapshot = {}
    /\ broker = [o \in Orders |-> [state |-> "resting", lots |-> 0]]
    /\ did = [k \in Keys |-> "nothing"] /\ calls = [k \in Keys |-> 0]
    /\ late = {} /\ reused = FALSE /\ restarts = 0

-----------------------------------------------------------------------------
(* Effects that operations share.                                          *)

\* _apply_operator_command: of the order the command names, if it is a cancel
Apply(os, k) ==
    IF cmd[k].kind = "CANCEL_ORDER"
    THEN [os EXCEPT ![cmd[k].order] = [status |-> "CANCELLED", reserved |-> "RELEASED"]]
    ELSE os

\* _record_unknown: nothing new for work that is unresolved
RecordUnknown(S) ==
    work' = [k \in Keys |-> IF k \in S \ Unresolved THEN "PENDING" ELSE work[k]]

\* _complete_non_order_work_if_converged
Complete(S) ==
    work' = [k \in Keys |-> IF k \in S /\ work[k] = "PENDING" THEN "RECOVERED" ELSE work[k]]

\* _command, and cancel_order's assignment of the order: a command that exists keeps
\* its kind and status
Command(k, kind, o) ==
    IF cmd[k].kind = "NONE" THEN [kind |-> kind, order |-> o, status |-> "ACCEPTED"]
    ELSE IF kind = "CANCEL_ORDER" THEN [cmd[k] EXCEPT !.order = o] ELSE cmd[k]

\* cancel_order refuses an order that is over
Allowed(kind, o) ==
    IF kind = "CANCEL_ORDER"
    THEN o \in Orders /\ order[o].status \in {"SUBMITTED", "PARTIALLY_FILLED"}
    ELSE o = None

Reused(k, kind, o) ==
    reused' = (reused \/ (cmd[k].kind # "NONE" /\ (cmd[k].kind # kind \/ cmd[k].order # o)))

-----------------------------------------------------------------------------
(* cancel_order and close_all.                                             *)

\* Without an adapter, or for a key that was used before: nothing is sent.
Request(k, kind, o) ==
    /\ Unlocked /\ Allowed(kind, o)
    /\ cmd' = [cmd EXCEPT ![k] = Command(k, kind, o)]
    /\ Reused(k, kind, o)
    /\ UNCHANGED <<order, known, work, call, snapshot, world, calls, restarts>>

\* Mutant: the command is not marked before the call.
BeginUnmarked(k, kind, o) ==
    /\ Unlocked /\ Allowed(kind, o) /\ Command(k, kind, o).status = "ACCEPTED"
    /\ cmd' = [cmd EXCEPT ![k] = Command(k, kind, o)]
    /\ call' = [key |-> k, kind |-> kind, order |-> o, answer |-> "none"]
    /\ Reused(k, kind, o)
    /\ UNCHANGED <<order, known, work, snapshot, world, calls, restarts>>

\* The command is DISPATCHING and saved before the adapter is called.
Begin(k, kind, o) ==
    /\ Unlocked /\ Allowed(kind, o) /\ Command(k, kind, o).status = "ACCEPTED"
    /\ cmd' = [cmd EXCEPT ![k] = [Command(k, kind, o) EXCEPT !.status = "DISPATCHING"]]
    /\ call' = [key |-> k, kind |-> kind, order |-> o, answer |-> "none"]
    /\ Reused(k, kind, o)
    /\ UNCHANGED <<order, known, work, snapshot, world, calls, restarts>>

\* The broker takes o off its book, what has been filled stays filled; or it refuses.
Act(k, kind, o) ==
    IF kind = "CLOSE_ALL" THEN did' = [did EXCEPT ![k] = "done"] /\ UNCHANGED broker
    ELSE IF broker[o].state = "resting"
    THEN /\ broker' = [broker EXCEPT ![o].state = "cancelled"]
         /\ did' = [did EXCEPT ![k] = "done"]
    ELSE did' = [did EXCEPT ![k] = "refused"] /\ UNCHANGED broker

\* The adapter is called: it answers what the broker did, or the answer is lost and
\* the broker has acted, has not been reached, or acts later.
Call ==
    /\ call.key # None /\ call.answer = "none"
    /\ calls' = [calls EXCEPT ![call.key] = @ + 1]
    /\ \/ /\ Act(call.key, call.kind, call.order)
          /\ call' \in {[call EXCEPT !.answer = a] : a \in
                 {IF did'[call.key] = "done" THEN "EXECUTED" ELSE "REJECTED", "LOST"}}
          /\ UNCHANGED late
       \/ /\ call' = [call EXCEPT !.answer = "LOST"]
          /\ late' \in {late, late \cup {call}}
          /\ UNCHANGED <<broker, did>>
    /\ UNCHANGED <<books, snapshot, reused, restarts>>

\* Mutant: a lost answer is taken for success.
AnswerHopeful ==
    /\ call.answer # "none" /\ call' = NoCall
    /\ LET k == call.key IN
       IF call.answer = "REJECTED"
       THEN cmd' = [cmd EXCEPT ![k].status = "REJECTED"] /\ UNCHANGED order
       ELSE /\ cmd' = [cmd EXCEPT ![k].status = "EXECUTED"]
            /\ order' = IF call.kind = "CANCEL_ORDER" THEN Apply(order, k) ELSE order
    /\ UNCHANGED <<known, work, snapshot, world, calls, reused, restarts>>

\* An ambiguous answer leaves the command UNKNOWN, with work; a cancel that was
\* executed is applied to the order it was called for.
Answer ==
    /\ call.answer # "none" /\ call' = NoCall
    /\ LET k == call.key IN
       \/ /\ call.answer = "LOST"
          /\ cmd' = [cmd EXCEPT ![k].status = "UNKNOWN"] /\ RecordUnknown({k})
          /\ UNCHANGED order
       \/ /\ call.answer # "LOST"
          /\ cmd' = [cmd EXCEPT ![k].status = call.answer]
          /\ order' = IF call.answer = "EXECUTED" /\ call.kind = "CANCEL_ORDER"
                      THEN [order EXCEPT ![call.order] =
                                [status |-> "CANCELLED", reserved |-> "RELEASED"]]
                      ELSE order
          /\ UNCHANGED work
    /\ UNCHANGED <<known, snapshot, world, calls, reused, restarts>>

-----------------------------------------------------------------------------
(* What the broker says of it later.                                       *)

\* What the adapter's command_state says of k now.
Verdict(k) == IF did[k] = "done" THEN "EXECUTED" ELSE "REJECTED"

\* recover_operator_command, by itself or in reconcile_due: the broker is asked, the
\* command is not sent again.  ESCALATED work stays.
Recover(k) ==
    /\ Unlocked /\ cmd[k].status = "UNKNOWN"
    /\ cmd' = [cmd EXCEPT ![k].status = Verdict(k)]
    /\ order' = IF Verdict(k) = "EXECUTED" THEN Apply(order, k) ELSE order
    /\ Complete({k})
    /\ UNCHANGED <<known, call, snapshot, world, calls, reused, restarts>>

\* advance_recovery_deadlines
Escalate(k) ==
    /\ work[k] = "PENDING" /\ work' = [work EXCEPT ![k] = "ESCALATED"]
    /\ UNCHANGED <<order, known, cmd, call, snapshot, world, calls, reused, restarts>>

\* record_fill: any deal makes the order FILLED; one that is known changes nothing
RecordFill(o) ==
    /\ Unlocked /\ known[o] < broker[o].lots
    /\ known' = [known EXCEPT ![o] = @ + 1]
    /\ order' = [order EXCEPT ![o] = [status |-> "FILLED", reserved |-> "CONSUMED"]]
    /\ UNCHANGED <<cmd, work, call, snapshot, world, calls, reused, restarts>>

\* The connector reads the broker for a snapshot: every order, every deal, and the
\* commands that were in doubt when it was asked.  Of these it also calls REJECTED
\* whichever was executed and has no row that names it (protocol.py:383).
Observed(o) ==
    IF broker[o].state = "cancelled" THEN "CANCELLED"
    ELSE IF broker[o].state = "filled" THEN "FILLED"
    ELSE IF broker[o].lots > 0 THEN "PARTIALLY_FILLED" ELSE "SUBMITTED"

Read ==
    /\ snapshot = {}
    /\ \E denied \in SUBSET InDoubt :
           snapshot' = {[orders |-> [o \in Orders |-> Observed(o)],
                         lots |-> [o \in Orders |-> broker[o].lots],
                         verdict |-> [k \in InDoubt |->
                             IF k \in denied THEN "REJECTED" ELSE Verdict(k)]]}
    /\ UNCHANGED <<books, call, world, calls, reused, restarts>>

\* Mutant: an older status overwrites a newer one.
AfterOrderAny(now, seen) ==
    [status |-> seen,
     reserved |-> IF seen = "FILLED" THEN "CONSUMED"
                  ELSE IF seen = "CANCELLED" THEN "RELEASED" ELSE now.reserved]

\* _apply_order_observation, and the reservation
AfterOrder(now, seen) ==
    IF \/ now.status = "FILLED" /\ seen # "FILLED"
       \/ now.status = "CANCELLED" /\ seen \notin {"CANCELLED", "FILLED"}
       \/ now.status = "PARTIALLY_FILLED" /\ seen = "SUBMITTED"
    THEN now
    ELSE [status |-> seen,
          reserved |-> IF seen = "FILLED" THEN "CONSUMED"
                       ELSE IF seen = "CANCELLED" THEN "RELEASED" ELSE now.reserved]

\* commands section: a settled command is changed only by an execution
Settled(s) ==
    {k \in DOMAIN s.verdict : cmd[k].status \notin {"EXECUTED", "REJECTED"}
                              \/ s.verdict[k] = "EXECUTED"}

\* the orders that a settled cancel of the snapshot names
Cancelled(s) ==
    {cmd[k].order : k \in {c \in Settled(s) :
                              s.verdict[c] = "EXECUTED" /\ cmd[c].kind = "CANCEL_ORDER"}}

\* fills section: deals that have no Fill yet decide the order's status
AfterFills(now, o, lots) ==
    IF lots <= known[o] THEN now
    ELSE IF lots = Lots THEN [status |-> "FILLED", reserved |-> "CONSUMED"]
    ELSE [status |-> "PARTIALLY_FILLED", reserved |-> "ACTIVE"]

\* reconcile_observation: orders, then commands, then fills
Reconcile ==
    /\ Unlocked
    /\ \E s \in snapshot :
           /\ order' = [o \in Orders |->
                  LET seen == AfterOrder(order[o], s.orders[o])
                      cancelled == IF o \in Cancelled(s)
                                   THEN [status |-> "CANCELLED", reserved |-> "RELEASED"]
                                   ELSE seen
                  IN  AfterFills(cancelled, o, s.lots[o])]
           /\ known' = [o \in Orders |-> IF s.lots[o] > known[o] THEN s.lots[o] ELSE known[o]]
           /\ cmd' = [k \in Keys |-> IF k \in Settled(s)
                                     THEN [cmd[k] EXCEPT !.status = s.verdict[k]] ELSE cmd[k]]
           /\ Complete(Settled(s))
    /\ snapshot' = {}
    /\ UNCHANGED <<call, world, calls, reused, restarts>>

-----------------------------------------------------------------------------
(* The broker by itself, and the process.                                  *)

Fills(o) ==
    /\ broker[o].state = "resting"
    /\ broker' = [broker EXCEPT ![o] =
           [state |-> IF @.lots + 1 = Lots THEN "filled" ELSE "resting", lots |-> @.lots + 1]]
    /\ UNCHANGED <<books, call, snapshot, did, late, calls, reused, restarts>>

\* A request that was on its way when its answer was given up.
ActLate ==
    /\ \E c \in late : Act(c.key, c.kind, c.order) /\ late' = late \ {c}
    /\ UNCHANGED <<books, call, snapshot, calls, reused, restarts>>

\* A restart in the middle of a call leaves the command DISPATCHING, which is UNKNOWN
\* work; the request may still reach the broker.
Restart ==
    /\ restarts < MaxRestarts /\ restarts' = restarts + 1
    /\ cmd' = [k \in Keys |-> IF cmd[k].status = "DISPATCHING"
                              THEN [cmd[k] EXCEPT !.status = "UNKNOWN"] ELSE cmd[k]]
    /\ RecordUnknown({k \in Keys : cmd[k].status = "DISPATCHING"})
    /\ call' = NoCall /\ snapshot' = {}
    /\ UNCHANGED <<order, known, world, calls, reused>>

Next ==
    \/ \E k \in Keys :
           \/ \E kind \in Kinds, o \in Orders \cup {None} : Request(k, kind, o) \/ Begin(k, kind, o)
           \/ Recover(k) \/ Escalate(k)
    \/ \E o \in Orders : RecordFill(o) \/ Fills(o)
    \/ Call \/ Answer \/ ActLate \/ Read \/ Reconcile \/ Restart

Spec == Init /\ [][Next]_vars

-----------------------------------------------------------------------------
(* Properties.                                                             *)

\* Every variable keeps its type.
TypeOK ==
    /\ order \in [Orders -> [status : {"SUBMITTED", "PARTIALLY_FILLED", "FILLED", "CANCELLED"},
                             reserved : {"ACTIVE", "CONSUMED", "RELEASED"}]]
    /\ known \in [Orders -> 0..Lots]
    /\ cmd \in [Keys -> [kind : Kinds \cup {"NONE"}, order : Orders \cup {None},
                         status : {"NONE", "ACCEPTED", "DISPATCHING", "EXECUTED", "REJECTED",
                                   "UNKNOWN"}]]
    /\ work \in [Keys -> {"NONE", "PENDING", "ESCALATED", "RECOVERED"}]
    /\ call \in [key : Keys \cup {None}, kind : Kinds, order : Orders \cup {None},
                 answer : Answers \cup {"none"}]
    /\ Cardinality(snapshot) <= 1
    /\ broker \in [Orders -> [state : {"resting", "filled", "cancelled"}, lots : 0..Lots]]
    /\ did \in [Keys -> {"nothing", "done", "refused"}]
    /\ late \subseteq [key : Keys, kind : Kinds, order : Orders \cup {None}, answer : {"none"}]
    /\ calls \in [Keys -> Nat] /\ reused \in BOOLEAN /\ restarts \in 0..MaxRestarts

\* A command reaches the adapter at most once, however often its key is sent, and
\* whenever the process dies (the save before the call, _recover_inflight_subject).
CalledOnce == \A k \in Keys : calls[k] <= 1

\* The risk of an order is released only when the broker has taken the order off its
\* book: not on a lost answer, not on an old snapshot, not while it may fill.  A key
\* that was reused for another order is the exception: the verdict of the first
\* command is applied to the second order (execution.py:1388).
ReleasedWasCancelled ==
    ~reused => \A o \in Orders :
        order[o].reserved = "RELEASED" => broker[o].state = "cancelled"

\* A fully filled order whose fills are recorded keeps its risk CONSUMED, whichever
\* of the fill, the cancel's late answer and a snapshot read earlier comes last.
FillWins ==
    ~reused => \A o \in Orders :
        known[o] = Lots => order[o].status = "FILLED" /\ order[o].reserved = "CONSUMED"

\* A command whose call has begun is settled or has work that asks the broker for it,
\* whether its answer was lost or the process died in the call: none is forgotten.
InFlightHasWork ==
    \A k \in Keys :
        /\ cmd[k].status = "DISPATCHING" => call.key = k
        /\ cmd[k].status = "UNKNOWN" => k \in Unresolved

\* A command that is called EXECUTED was executed, and stays so: a snapshot that was
\* read before, or a key that is sent again, does not take it back.  A REJECTED one
\* may have been executed: by a request whose answer was lost, or before a snapshot
\* that had no row of it.
ExecutedIsTrue ==
    \A k \in Keys : cmd[k].status = "EXECUTED" => did[k] = "done"

ExecutedStays ==
    [][\A k \in Keys : cmd[k].status = "EXECUTED" => cmd'[k].status = "EXECUTED"]_vars

\* backend-v0.md:575, "only the unfilled reservation remainder is released": an order
\* that was filled in part keeps a reservation.
PartStaysReserved ==
    \A o \in Orders : known[o] > 0 => order[o].reserved # "RELEASED"

\* backend-v0.md:836, "Same idempotency key plus same canonical hash returns the
\* original Command; a different hash returns 409": a command keeps its order.
CommandKeepsOrder ==
    [][\A k \in Keys : cmd[k].kind # "NONE" => cmd'[k].order = cmd[k].order]_cmd
=============================================================================
