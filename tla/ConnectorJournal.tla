--------------------------- MODULE ConnectorJournal ---------------------------
(***************************************************************************)
(* The connector's durable command journal (connector journal.py) and the  *)
(* serialized dispatcher that drives it (dispatcher.py), with the crash    *)
(* points between two commits, the journal write that fails, the           *)
(* redelivery of any command and the reconciliation of UNKNOWN commands    *)
(* against broker rows (protocol.py).                                      *)
(*                                                                         *)
(* One account.  The dispatcher holds one lock for the whole of dispatch() *)
(* so that a dispatch is sequential: the steps below are the durable       *)
(* points of that one call, and only a crash or a failed write can come    *)
(* between them.  A command whose account, generation, epoch or hash does  *)
(* not fit is answered from memory before the journal is touched: such an  *)
(* answer changes no state and is not an action.                           *)
(***************************************************************************)
EXTENDS Integers, FiniteSets

CONSTANTS
    Commands,      \* command ids
    Keys,          \* idempotency keys
    NoCommand,     \* "no dispatch in progress"
    NoKey,         \* the key of a row that is not there
    MaxSeq,        \* bound on the dispatch sequence of a delivered command
    MaxFaults,     \* bound on failed journal writes
    MaxCrashes     \* bound on process crashes

ASSUME ConstantsAssumption ==
    /\ NoCommand \notin Commands /\ NoKey \notin Keys
    /\ MaxSeq \in Nat \ {0} /\ MaxFaults \in Nat /\ MaxCrashes \in Nat

VARIABLES
    journal,       \* [Commands -> row]; state "ABSENT" stands for no row
    pc,            \* where the dispatch in progress is; "down": no process
    cur,           \* the command being dispatched
    outcome,       \* what the adapter call returned
    lastSeq,       \* Dispatcher._last_sequence
    enabled,       \* Dispatcher.execution_enabled
    calls,         \* broker: side-effecting calls made for each command
    effect,        \* broker: did a call for this command take effect?
    compacted,     \* commands whose row compact() deleted
    faults,        \* failed journal writes so far
    crashes        \* crashes so far

vars == <<journal, pc, cur, outcome, lastSeq, enabled, calls, effect,
          compacted, faults, crashes>>

Terminal == {"ACCEPTED", "REJECTED"}
Matches == {"NONE", "UNIQUE_MATCH", "NO_EFFECT"}
JournalStates == {"RECEIVED", "INVOKING", "UNKNOWN"} \cup Terminal
Phases == {"RECEIVED", "CHECKING", "CHECKED", "DISPATCHING", "RECONCILING",
           "RESOLVED", "RECOVERED"}
DispatchSteps == {"received", "checking", "refusing", "checked", "invoking",
                  "returned"}

NoRow == [state |-> "ABSENT", phase |-> "RECEIVED", invoked |-> FALSE,
          key |-> NoKey, seq |-> 0, match |-> "NONE"]

\* match is the match_status of the observation that resolved the row; "NONE":
\* no observation did.
Row == [state : JournalStates \cup {"ABSENT"}, phase : Phases,
        invoked : BOOLEAN, key : Keys \cup {NoKey},
        seq : 0..MaxSeq, match : Matches]

Present(c) == journal[c].state # "ABSENT"

\* SQLiteJournal.has_unknown, Dispatcher.blocked
HasUnknown == \E c \in Commands : journal[c].state = "UNKNOWN"

\* SQLiteJournal.last_dispatch_sequence of journal j is n
LastDispatchSequence(n, j) ==
    LET used == {j[c].seq : c \in {d \in Commands : j[d].state # "ABSENT"}}
    IN  n \in used \cup {0} /\ \A m \in used : m <= n

-----------------------------------------------------------------------------
Init ==
    /\ journal = [c \in Commands |-> NoRow]
    /\ pc = "down" /\ cur = NoCommand /\ outcome = "none"
    /\ lastSeq = 0 /\ enabled = FALSE
    /\ calls = [c \in Commands |-> 0]
    /\ effect = [c \in Commands |-> FALSE]
    /\ compacted = {} /\ faults = 0 /\ crashes = 0

\* SQLiteJournal.transition on one row; mt5_invoked is only ever set.
Moved(r, state, phase, invoked) ==
    [r EXCEPT !.state = state, !.phase = phase, !.invoked = @ \/ invoked]

\* Mutant: restart rejects everything in flight.
RecoverAsRejected(r) ==
    IF r.state \notin {"RECEIVED", "INVOKING"} THEN r
    ELSE Moved(r, "REJECTED", "RECOVERED", FALSE)

\* Mutant: restart looks at INVOKING rows only.
RecoverInvokingOnly(r) ==
    IF r.state # "INVOKING" THEN r ELSE Moved(r, "UNKNOWN", "RECONCILING", FALSE)

\* SQLiteJournal.recover, one row: in-flight work is UNKNOWN once the adapter
\* may have been called, and REJECTED/NOT_INVOKED_AFTER_RESTART before.
RecoverRow(r) ==
    IF r.state \notin {"RECEIVED", "INVOKING"} THEN r
    ELSE IF r.invoked THEN Moved(r, "UNKNOWN", "RECONCILING", FALSE)
    ELSE Moved(r, "REJECTED", "RECOVERED", FALSE)

\* The process starts: the journal is opened and Dispatcher.__init__ recovers
\* it before anything can be dispatched; execution starts disabled.
Start ==
    /\ pc = "down"
    /\ journal' = [c \in Commands |-> RecoverRow(journal[c])]
    /\ lastSeq' \in {n \in 0..MaxSeq : LastDispatchSequence(n, journal')}
    /\ pc' = "idle" /\ enabled' = FALSE
    /\ UNCHANGED <<cur, outcome, calls, effect, compacted, faults, crashes>>

\* The process dies between two statements; only the journal and the broker
\* survive.
Crash ==
    /\ pc # "down" /\ crashes < MaxCrashes
    /\ crashes' = crashes + 1
    /\ pc' = "down" /\ cur' = NoCommand /\ outcome' = "none"
    /\ lastSeq' = 0 /\ enabled' = FALSE
    /\ UNCHANGED <<journal, calls, effect, compacted, faults>>

\* A session's preflight passes (verify_preflight reads the journal) and
\* main.approve enables execution for that session.
Approve ==
    /\ pc = "idle" /\ ~enabled /\ ~HasUnknown
    /\ enabled' = TRUE
    /\ UNCHANGED <<journal, pc, cur, outcome, lastSeq, calls, effect,
                   compacted, faults, crashes>>

\* ConnectorClient.connect_once: a session starts or ends in the same process,
\* or a later preflight of the session fails.
SessionBoundary ==
    /\ pc = "idle" /\ enabled
    /\ enabled' = FALSE
    /\ UNCHANGED <<journal, pc, cur, outcome, lastSeq, calls, effect,
                   compacted, faults, crashes>>

-----------------------------------------------------------------------------
\* Mutant: only command_id identifies a command.
PriorById(c, k) == {d \in Commands : Present(d) /\ d = c}

\* dispatch(): the row that command_id or idempotency_key already names.
Prior(c, k) ==
    {d \in Commands : Present(d) /\ (d = c \/ journal[d].key = k)}

\* Mutant: the last sequence again is in order.
InOrderOrSame(s) == lastSeq = 0 \/ s \in {lastSeq, lastSeq + 1}

\* A wire sequence is at least 1; the first one of an empty journal is free.
InOrder(s) == lastSeq = 0 \/ s = lastSeq + 1

\* A command never seen: the sequence is checked and RECEIVED is committed.
ReceiveNew(c, k, s) ==
    /\ pc = "idle" /\ Prior(c, k) = {} /\ InOrder(s)
    /\ journal' = [journal EXCEPT ![c] =
           [state |-> "RECEIVED", phase |-> "RECEIVED", invoked |-> FALSE,
            key |-> k, seq |-> s, match |-> "NONE"]]
    /\ lastSeq' = IF s > lastSeq THEN s ELSE lastSeq
    /\ pc' = "received" /\ cur' = c
    /\ UNCHANGED <<outcome, enabled, calls, effect, compacted, faults, crashes>>

\* Mutant: any journalled command is dispatched again.
ReceiveAnyAgain(c) ==
    /\ pc = "idle" /\ Present(c)
    /\ pc' = "received" /\ cur' = c
    /\ UNCHANGED <<journal, outcome, lastSeq, enabled, calls, effect,
                   compacted, faults, crashes>>

\* The same command again: same id, key and request hash (any mix of them is
\* IDEMPOTENCY_KEY_REUSED and changes nothing).  A terminal or UNKNOWN row is
\* answered from the journal; a row left RECEIVED or INVOKING by a failed write
\* goes through the whole dispatch again.
ReceiveAgain(c) ==
    /\ pc = "idle" /\ journal[c].state \in {"RECEIVED", "INVOKING"}
    /\ pc' = "received" /\ cur' = c
    /\ UNCHANGED <<journal, outcome, lastSeq, enabled, calls, effect,
                   compacted, faults, crashes>>

\* The row of the command in progress moves.
Transition(state, phase, invoked) ==
    journal' = [journal EXCEPT ![cur] = Moved(@, state, phase, invoked)]

\* _finish
Finish(state) ==
    /\ Transition(state, IF state = "UNKNOWN" THEN "RECONCILING" ELSE "RESOLVED",
                  FALSE)
    /\ pc' = "idle" /\ cur' = NoCommand /\ outcome' = "none"
    /\ UNCHANGED <<lastSeq, enabled, calls, effect, compacted, faults, crashes>>

\* Refused before any adapter call: unsupported type or missing protection
\* (possible for any request), execution disabled, or the account fenced by an
\* UNKNOWN command.
Refuse == pc = "received" /\ Finish("REJECTED")

\* Mutant: an UNKNOWN command does not fence the account.
BeginCheckUnfenced ==
    /\ pc = "received" /\ enabled
    /\ Transition(journal[cur].state, "CHECKING", FALSE)
    /\ pc' = "checking"
    /\ UNCHANGED <<cur, outcome, lastSeq, enabled, calls, effect, compacted,
                   faults, crashes>>

BeginCheck ==
    /\ pc = "received" /\ enabled /\ ~HasUnknown
    /\ Transition(journal[cur].state, "CHECKING", FALSE)
    /\ pc' = "checking"
    /\ UNCHANGED <<cur, outcome, lastSeq, enabled, calls, effect, compacted,
                   faults, crashes>>

\* order_check raised or did not pass, or the CHECKING write raised.
CheckFails == pc \in {"checking", "refusing"} /\ Finish("REJECTED")

CheckPasses ==
    /\ pc = "checking"
    /\ Transition(journal[cur].state, "CHECKED", FALSE)
    /\ pc' = "checked"
    /\ UNCHANGED <<cur, outcome, lastSeq, enabled, calls, effect, compacted,
                   faults, crashes>>

\* Mutant: INVOKING is committed without the mt5_invoked mark.
CommitUnmarked ==
    /\ pc = "checked"
    /\ Transition("INVOKING", "DISPATCHING", FALSE)
    /\ pc' = "invoking"
    /\ UNCHANGED <<cur, outcome, lastSeq, enabled, calls, effect, compacted,
                   faults, crashes>>

\* The ambiguity boundary: INVOKING and mt5_invoked in one commit.
CommitInvoking ==
    /\ pc = "checked"
    /\ Transition("INVOKING", "DISPATCHING", TRUE)
    /\ pc' = "invoking"
    /\ UNCHANGED <<cur, outcome, lastSeq, enabled, calls, effect, compacted,
                   faults, crashes>>

\* The adapter call: a confirmed acceptance has taken effect, a rejection has
\* not, and after an exception, a lost answer or an acceptance that no
\* read-back confirms the effect may or may not be there.
Invoke(result, took) ==
    /\ pc = "invoking"
    /\ result = "ACCEPTED" => took
    /\ result = "REJECTED" => ~took
    /\ calls' = [calls EXCEPT ![cur] = @ + 1]
    /\ effect' = [effect EXCEPT ![cur] = @ \/ took]
    /\ outcome' = result /\ pc' = "returned"
    /\ UNCHANGED <<journal, cur, lastSeq, enabled, compacted, faults, crashes>>

RecordOutcome == pc = "returned" /\ Finish(outcome)

\* A journal write raises (disk full, database locked): dispatch() raises, the
\* protocol turns it into DISPATCH_ERROR and the session ends; the process and
\* its dispatcher live on.  Only the CHECKING write is inside a try.
WriteFails ==
    /\ pc \in DispatchSteps \ {"invoking"} /\ faults < MaxFaults
    /\ faults' = faults + 1
    /\ \/ /\ pc = "received" /\ enabled /\ ~HasUnknown
          /\ pc' = "refusing" /\ UNCHANGED <<cur, outcome, enabled>>
       \/ /\ pc' = "idle" /\ cur' = NoCommand /\ outcome' = "none"
          /\ enabled' = FALSE
    /\ UNCHANGED <<journal, lastSeq, calls, effect, compacted, crashes>>

-----------------------------------------------------------------------------
\* _recovery_match over the rows of open orders, order history and deal
\* history.  A row is found only if it names the command in command_id,
\* correlation_id, position_id or order_id; a filled order may show as an
\* order row and a deal row, which is MULTIPLE_CORRELATIONS.  Without a match a
\* complete read is NO_EFFECT: the backend grants authoritative_no_effect to
\* every unresolved record.  The rows OfficialMT5Adapter returns name the
\* command in their comment only, so that with it the evidence is NO_EFFECT
\* even for a command that took effect; another adapter may fill the fields.
Evidence(c) ==
    {"NO_EFFECT"} \cup
        IF effect[c] THEN {"EXECUTED", "MULTIPLE"}
        ELSE IF calls[c] > 0 THEN {"CANCELLED"}
        ELSE {}

\* Dispatcher.reconcile on one UNKNOWN row: the observation is recorded, then
\* the row is resolved.
Resolved(r, evidence) ==
    [Moved(r, IF evidence = "EXECUTED" THEN "ACCEPTED" ELSE "REJECTED",
           "RESOLVED", FALSE)
     EXCEPT !.match = IF evidence = "NO_EFFECT" THEN "NO_EFFECT" ELSE "UNIQUE_MATCH"]

\* _reconcile_local_unknowns for one UNKNOWN row.  Incomplete or conflicting
\* evidence leaves the row as it is.
Reconcile(c, evidence) ==
    /\ pc = "idle" /\ journal[c].state = "UNKNOWN"
    /\ evidence \in Evidence(c) \ {"MULTIPLE"}
    /\ journal' = [journal EXCEPT ![c] = Resolved(@, evidence)]
    /\ UNCHANGED <<pc, cur, outcome, lastSeq, enabled, calls, effect,
                   compacted, faults, crashes>>

\* compact(): old resolved rows go, UNKNOWN rows stay.
Compact(old) ==
    /\ pc = "idle" /\ old # {}
    /\ \A c \in old : journal[c].state \in Terminal
    /\ journal' = [c \in Commands |-> IF c \in old THEN NoRow ELSE journal[c]]
    /\ compacted' = compacted \cup old
    /\ UNCHANGED <<pc, cur, outcome, lastSeq, enabled, calls, effect, faults,
                   crashes>>

-----------------------------------------------------------------------------
Receive ==
    \/ \E c \in Commands, k \in Keys, s \in 1..MaxSeq : ReceiveNew(c, k, s)
    \/ \E c \in Commands : ReceiveAgain(c)

CallBroker ==
    \E result \in {"ACCEPTED", "REJECTED", "UNKNOWN"}, took \in BOOLEAN :
        Invoke(result, took)

DispatchStep ==
    \/ Refuse \/ BeginCheck \/ CheckFails \/ CheckPasses
    \/ CommitInvoking \/ CallBroker \/ RecordOutcome

ReconcileSome ==
    \E c \in Commands, evidence \in {"EXECUTED", "CANCELLED", "NO_EFFECT"} :
        Reconcile(c, evidence)

Next ==
    \/ Start \/ Crash \/ Approve \/ SessionBoundary
    \/ Receive \/ DispatchStep \/ WriteFails \/ ReconcileSome
    \/ \E old \in SUBSET Commands : Compact(old)

\* dispatch() runs to its end unless the process dies, and the operator starts
\* a dead process again.
Spec == Init /\ [][Next]_vars
FairSpec == Spec /\ WF_vars(Start) /\ WF_vars(DispatchStep)

-----------------------------------------------------------------------------
\* Every variable keeps its type.
TypeOK ==
    /\ journal \in [Commands -> Row]
    /\ pc \in DispatchSteps \cup {"idle", "down"}
    /\ cur \in Commands \cup {NoCommand}
    /\ outcome \in {"none", "ACCEPTED", "REJECTED", "UNKNOWN"}
    /\ lastSeq \in 0..MaxSeq
    /\ enabled \in BOOLEAN
    /\ calls \in [Commands -> Nat]
    /\ effect \in [Commands -> BOOLEAN]
    /\ compacted \subseteq Commands
    /\ faults \in 0..MaxFaults /\ crashes \in 0..MaxCrashes

\* Whatever is redelivered and wherever the process dies, and until a journal
\* write fails, a command the journal has not compacted calls the broker at most
\* once, and so do all the commands that ever used one idempotency key
\* (dispatcher.py, journal-first dispatch).
AtMostOnce ==
    faults = 0 =>
        /\ \A c \in Commands \ compacted : calls[c] <= 1
        /\ \A c, d \in Commands \ compacted :
               c # d /\ calls[c] > 0 /\ calls[d] > 0 =>
                   journal[c].key # journal[d].key

\* A broker call is on durable record before it is made and stays on record:
\* no crash and no failed write can leave a call the journal does not know of.
EveryCallOnRecord ==
    \A c \in Commands \ compacted :
        calls[c] > 0 => Present(c) /\ journal[c].invoked

\* The verdict NOT_INVOKED_AFTER_RESTART is given only to commands that never
\* reached the broker (journal.recover).
NotInvokedIsTrue ==
    \A c \in Commands \ compacted : journal[c].phase = "RECOVERED" => calls[c] = 0

\* Until a journal write fails, a terminal row that came from the call, from
\* restart recovery or from a broker row that names the command tells what
\* happened at the broker: ACCEPTED took effect, REJECTED did not.  A row
\* rejected because no broker row names it (NO_EFFECT) is not covered: see
\* NoEffectIsProof.
JournalTruth ==
    faults = 0 =>
        \A c \in Commands \ compacted :
            /\ journal[c].state = "ACCEPTED" => effect[c]
            /\ journal[c].state = "REJECTED" /\ journal[c].match # "NO_EFFECT" =>
                   ~effect[c]

\* What the connector's specification says of leaving UNKNOWN: without a match a
\* command is resolved only when complete evidence proves that nothing happened
\* at the broker.  The code breaks it: _recovery_match finds no row that names
\* the executed command, and the recovery directive calls that no effect.
NoEffectIsProof ==
    \A c \in Commands \ compacted : journal[c].match = "NO_EFFECT" => ~effect[c]

\* A terminal verdict is never revised; only compaction removes it.
VerdictStands ==
    [][\A c \in Commands : journal[c].state \in Terminal =>
           journal'[c].state = journal[c].state \/ c \in compacted']_vars

\* While the outcome of any other command is in doubt, no broker call is made,
\* until a journal write fails: unresolved post-invocation work fences the
\* account (Dispatcher.blocked).
AmbiguityFences ==
    [][faults = 0 /\ calls' # calls =>
           \A c \in Commands \ {cur} :
               ~(journal[c].invoked /\ journal[c].state \notin Terminal)]_vars

\* Broker calls follow the backend's dispatch sequence, until a journal write
\* fails: no call is made for a sequence below one that was already called,
\* across restarts too.
CallsInSequence ==
    [][faults = 0 /\ calls' # calls =>
           \A c \in Commands \ (compacted \cup {cur}) :
               calls[c] > 0 => journal[c].seq < journal[cur].seq]_vars

\* Every command that was received gets a verdict or is declared UNKNOWN,
\* unless a journal write fails.
EveryCommandSettles ==
    \A c \in Commands :
        journal[c].state \in {"RECEIVED", "INVOKING"}
            ~> journal[c].state \notin {"RECEIVED", "INVOKING"} \/ faults > 0

\* What the journal says of commands, in the words of CommandPromise: a verdict
\* not yet recorded counts as open, and a compacted command is forgotten.
RowVerdict(r) ==
    CASE r.state = "ABSENT" -> "none"
      [] r.state \in {"RECEIVED", "INVOKING"} -> "open"
      [] r.state = "UNKNOWN" -> "doubt"
      [] OTHER -> r.state

Verdict == [c \in Commands |->
    IF c \in compacted THEN "forgotten" ELSE RowVerdict(journal[c])]
Attempted == [c \in Commands |-> c \notin compacted /\ calls[c] > 0]
Done == [c \in Commands |-> c \notin compacted /\ effect[c]]

Promise == INSTANCE CommandPromise
               WITH verdict <- Verdict, attempted <- Attempted, done <- Done

\* Until a journal write fails the journal implements the promise of
\* CommandPromise: a command is attempted at most once, only while no other is
\* in doubt, it is ACCEPTED only if it was done, and REJECTED though it was done
\* only by an observation that found no row of it (dispatch, recover, reconcile
\* and compact of the connector).
PromiseSpec ==
    Promise!Init /\ [][faults' = 0 => Promise!Next]_<<Verdict, Attempted, Done>>

=============================================================================
