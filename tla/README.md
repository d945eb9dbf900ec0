# Verification of the trading engine

TLA+ models of the execution core of the trading engine, the TLC runs that check
them on small instances and the TLAPS proofs about them. Paths are relative to the
repository root; `execution.py`, `main.py`, `connector_delivery.py` stand for the
files in `src/backend/app/`, and `journal.py`, `dispatcher.py`, `protocol.py`,
`adapter.py` for those in `src/connector/src/mt5_connector/`.

The engine decides on trades in a backend, and carries them out through a connector
that runs beside a MetaTrader 5 terminal. Between the two lie a websocket that
may break at any time, two processes that may die at any time and a broker whose
answer may never arrive. What matters is that a side effect at the broker happens
at most once, that nothing is forgotten, and that no new risk is taken while the
state of the old one is in doubt. That is what is modelled first.

## 1. Inventory

| Component | State it keeps | Operations that change it |
| --- | --- | --- |
| Exposure gate and runtime interlock (`execution.py:83-102`, `512-756`, `1970-1990`, `2269-2275`, `2585-2645`, `2764-2796`) | per account: exposure gate, runtime interlock, reasons, "custodian needed", restart recovery and the gate before it, execution epoch | `_set_runtime_interlock`, `_remove_runtime_interlock_reasons`, `observe_runtime_health`, `observe_connector_health`, `recover_runtime_interlock`, `install_fence`, `emergency_stop`, restart recovery, calendar interlock |
| Execution Coordination (`execution.py`) | orders, outbox events, risk reservations, connector dispatch records, command journal, UNKNOWN work, native protection | `accept_execution` (`pre_order`), `dispatch_next`, `prepare_connector_dispatch`, `connector_dispatch_result`, `mark_connector_dispatch_sent`, `mark_connector_session_lost`, `recover`, `record_fill`, protection and repair, `reconcile_observation`, `advance_recovery_deadlines`, restart |
| Connector delivery (`connector_delivery.py`, `main.py:2052-2333`) | sessions per account, outbound and inbound sequences, pending envelopes, outbound queue | `open_session`, `close`, `enqueue`, `next`, `mark_sent`, `record_result`, `accept_inbound`, `replay_unsent`, and the stream loop that drives them |
| Connector command journal and dispatcher (`journal.py`, `dispatcher.py`) | SQLite rows (state, phase, `mt5_invoked`, key, sequence), last sequence, execution enabled | `dispatch`, `recover`, `reconcile`, `compact`, process start, session start and end |
| Connector protocol (`protocol.py`, `websocket_client.py`, `main.py` of the connector) | envelope sequences, snapshot due, backoff | `handle`, `_recovery_match`, `_reconcile_local_unknowns`, reconnect loop |
| MT5 adapter (`adapter.py`) | none of its own; the terminal is the broker | `order_check`, `order_send`, read-back of the effect |
| Positions and their commands (`execution.py:1419-1665`, `1992-2265`, `3136-3266`, `3541-3680`) | remaining volume, stage, native and last confirmed stop, protection; position commands and fills | `request_position_close`, `request_protection_change`, `request_trailing_stop`, `dispatch_position_command`, `record_exit_fill`, results, `recover_position_command`, `confirm_native_protection`, `repair_native_protection`, snapshots |
| Operator and global emergency commands (`execution.py:1283-1417`, `1667-1692`) | operator commands, targets of a global emergency | `cancel_order`, `close_all`, `recover_operator_command`, `begin_global_emergency`, `converge_global_target` |
| Signals and entry admission (`signals.py`, `execution.py:947-1282`, `main.py:1640-1900`) | signal revisions and their status; approvals, execution commands, idempotency keys, open risk | `create`, `approve`, `create_revision`, `approve_signal`, `execute_signal`, `schedule_automated_signal`, `accept_execution` |
| Pairing (`pairing.py`) | pairing sessions, the one-time key | `start`, `submit_candidate`, `confirm`, `cancel`, `consume_key`, expiry |
| Broker accounts (`broker_accounts.py`) | lifecycle, lease, generation, health, mode | `register`, `bind_connector`, `heartbeat`, `mark_connector_unhealthy`, `set_execution_mode` |
| Risk and calendar (`risk_calendar.py`, `execution.py:761-946`) | limits, calendar facts, blackout fences | `assess`, `set_calendar_interlock`, manual overrides |
| Strategies, market data, news, dashboard, migrations, secrets, frontend | data and presentation | no protocol of their own |

How they interact. A request handler of `main.py` calls the coordinator, which saves
its whole state at the end of each operation, and then queues a dispatch record for
the connector. The stream handler of `main.py` owns one session with one connector:
it replays what is queued, hands envelopes to the websocket, feeds results and
broker snapshots back into the coordinator, and on every hello and heartbeat tells
the gate that the connector is healthy. The connector answers every command through
its journal, and asks the backend at the start of each session which records are
unresolved. Timers (recovery deadlines, runtime health, calendar) change the gate
from outside, and the custodian is the only one who lifts a persistent quarantine.

What is hard: the broker call in the middle of `dispatch_next` with operations that
do not take the account lock; one gate written by fences, quarantines, health,
restart recovery and reconciliation, each with its own idea of when it may open;
lost sessions, redelivery and reordering; a crash between any two saves, in either
process; a failed write between two durable points; evidence that is incomplete,
late or silent; work that must converge in the end. `PROJECT.json` lists these
hazards with their lines.

What makes each component correct:

* journal: at most one broker call per command and per idempotency key, a verdict
  that is true and final, doubt that fences, calls in sequence, every command settled;
* gate: custody ends by command only, it opens over protected positions only,
  doubt and emergency fences hold;
* coordinator: an order is handed over at most once, risk stays reserved while there
  is an effect, doubt converges or is escalated, what is queued is delivered;
* delivery: a command is handed to the websocket at most once, table and record agree,
  an acknowledged result is durable, a fence stops replay, the stream has no gap;
* positions: the projection never shows less exposure than the broker holds, what it
  calls confirmed protection is the broker's, doubt has work that somebody looks at;
* operator commands: one call per command, risk released only for what the broker took
  off its book, a late verdict of a cancel never overrides a fill;
* pairing and accounts: a code is used once, what is confirmed is what was shown, what
  ended stays ended, wrong codes are bounded, one account per identity, a key that was
  handed over works until it is replaced, a replaced key is dead; a served session has the
  lease and a healthy account, the connector comes back, the row follows memory;
* signals and entries: a key makes one order, open risk stays within its limit, a mode
  change keeps automation off older Signals.

## 2. Modules

| Module | What it models |
| --- | --- |
| `AccountGate` | one operator per helper of `execution.py` that changes the account's gate, interlock, reasons, custody or restart recovery: functions of the account before and of the facts read |
| `ExecutionCoordinator` | one account's orders, dispatch by adapter and by stream, UNKNOWN work, restart, reconciliation, protection, health, fences and the custodian; composes `AccountGate` |
| `ConnectorJournal` | the connector's journal and dispatcher: one action per durable point of `dispatch()`, crash, failed write, restart recovery, sessions, reconciliation, compaction |
| `CommandPromise` | the abstract specification of the connector: each command attempted at most once, never while another is in doubt, settled with the truth or, when no row of it is found, denied |
| `StreamPromise` | the abstract specification of the dispatch records: a command is sent once, in a ready session; settled only by the session that sent it; what a lost session leaves SENT becomes UNKNOWN, for ever. `ConnectorDelivery`, `ExecutionCoordinator` and `PositionLifecycle` implement it |
| `ConnectorDelivery` | the delivery registry and bridge, the stream handler with its two tasks, and the connector's end of the stream: sequences, pending table, replay, epochs, sessions that break, restarts of both processes |
| `AccountPairing` | pairing sessions, the accounts and connector keys they create, `register` and `bind_connector`, in memory and in their tables: failed saves, restarts, threads without a lock |
| `PositionLifecycle` | one open position and the commands about it over both transports: closes and reductions, protection, trailing, deals of the broker's own, results, recovery, repair, snapshots, restart; uses `AccountGate` |
| `OperatorCommands` | cancels and close-alls beside orders that fill in parts: lost and late answers, a snapshot applied after it was read, recovery, deadlines, restart |
| `BrokerAccounts` | one account's lease, health, settings and row; its connector's sessions as the handler admits, serves and ends them; saves from several threads, restart |
| `EntryAdmission` | Signals and how concurrent requests create, revise, approve and execute them in the three modes; idempotency keys, the assessment of open risk, mode changes, restart |
| `MCConnectorJournal`, `MCExecutionCoordinator`, `MCConnectorDelivery`, `MCAccountPairing`, `MCPositionLifecycle`, `MCOperatorCommands`, `MCBrokerAccounts`, `MCEntryAdmission` | instances for TLC |
| `ConnectorJournalProofs`, `ExecutionCoordinatorProofs`, `ConnectorDeliveryProofs`, `AccountPairingProofs`, `PositionLifecycleProofs`, `OperatorCommandsProofs`, `BrokerAccountsProofs`, `EntryAdmissionProofs` | theorems |

`ConnectorDelivery` looks into what is one step (`SendQueued`, a result, a lost session)
in `ExecutionCoordinator`, and treats as one step (`ReadCommand`) what
`ConnectorJournal` looks into: the three meet at the dispatch record and at the
command frame. `StreamPromise` says what they, and `PositionLifecycle`, take the stream
to be. `AccountPairing` comes before all of them: it makes the account and the
key with which a connector signs in. `BrokerAccounts` decides whether that connector is
served, and so when a session of the other modules begins and ends. `EntryAdmission` ends
where `ExecutionCoordinator` begins, at the accepted order; `PositionLifecycle` begins
where it ends, at the filled one; `OperatorCommands` comes in between.

### State and actions against the code

`ConnectorJournal`. `journal[c]` is the SQLite row of command `c` (`journal.py`):
`state`, `phase`, `mt5_invoked`, key and sequence; "ABSENT" is no row. `pc` is the
place in `dispatcher.dispatch()`, which holds one lock from its first line to its
last: `received` after the RECEIVED commit, `checking` and `checked` around
`order_check`, `invoking` after the INVOKING commit that also sets `mt5_invoked`,
`returned` after the adapter call. Each commit is an action, because the process may
die between any two (`Crash`) and a write may raise (`WriteFails`, after which the
process lives on and the session ends). `Start` is the constructor: `recover()` over
all rows, then the last sequence. `Reconcile` is what `_reconcile_local_unknowns`
does with the evidence `_recovery_match` finds; `Evidence` says which verdicts that
can be, given what happened at the broker. It may always be NO_EFFECT, also of a command
that was executed (finding 3), and `match` is what the row keeps of it. `calls` and
`effect` are the broker: history the journal does not see.

`ExecutionCoordinator`. `acct` is the `AccountExecutionState`; `order[o]` bundles
the rows keyed by one order: order status, outbox event, reservation, dispatch record
and journal entry. `work[o]` is its `ReconciliationWork`, `underFence` whether any
work was recorded with the gate FENCE_PENDING (`entry_gate_before`). Each operation
is one action, since it saves once, at its end; `dispatch_next` saves in its middle and
is three (`BeginDispatch`, `SendOrder`, an answer), and `Unlocked` is the guard
of every operation that takes the account lock it holds. `session`, `wire` and `orphans`
are what the coordinator can tell of the stream: a session is "open" until its one
snapshot, and then "ready" if reconciliation is complete and nothing is UNKNOWN
(`main.py:2247-2294`). `Observe` is `reconcile_observation` to its end. A snapshot of the
stream may deny orders of the recovery list (`Deniable`): this repository's connector
reports as REJECTED whatever no row names (`protocol.py:383-396`). `ObserveRaises` is the
call that raises at a row it cannot attribute, after it has changed the orders and
positions before that row. `broker`, `sends`, `stopped`, `overridden` and `denied` are history.

`AccountGate`. The helpers run inside an operation, one after the other, so that they
are operators and not actions: `CompleteWork` in the coordinator, for one, is
`RemoveReasons` and then `RestoreTemporary`, in the order of
`_complete_work_if_converged` and its caller. Reasons that are always set and removed
together are one reason.

`ConnectorDelivery`. `order`, `record` and `epoch` are what the coordinator keeps of a
dispatch; `session`, `pending`, `lastSequence`, `lastDispatch` and `received` the
registry of `connector_delivery.py`, of which only `session` ends with a session.
`stage` is the place in `connector_stream` (`main.py:2052`): "greeting" between
`open_session` and the try block, "running" in its loop, "ending" in its finally
block, where the tasks still run for a moment. `queue` is the queue of the session,
`outbound` the frames on their way to `send_ordered`, `expected` its next sequence;
`down` and `up` are the websocket, and `conn` the counters of `protocol.py` and
`dispatcher.py`. The handler runs on one event loop and a step is what happens
between two waits; requests run in other threads and come between any two steps. When a
task fails the finally block awaits it and raises again: `WriterFails` leaves the
session registered and its records SENT, as `GreetFails` does. A record that waits for
replay is put through `enqueue` in the order of its tests (`Admissible`): an old epoch ends
the replay before the pending table is looked at. `Recorded` is what
`connector_dispatch_result` makes of the registry's verdict: the ACCEPTED result of a
`position.close` (`Closes`) without `filled_volume` is recorded as UNKNOWN, and
acknowledged as ACCEPTED.

`AccountPairing`. `session` is `PairingRegistry._sessions` and `row` its table; `account`
is the dictionary of accounts with its bindings, `accountRow` the two tables. An
operation changes memory and then saves (`Store`), and the save may fail, up to
`MaxFaults` times: memory is then ahead of the row (`unsaved`), and `Restart`, which is
`_load` of both registries, goes back to it. `PairingRegistry` does everything under one
lock, so that its operations are single steps, but for `confirm`, which commits the
account (`Create`) before it saves the session (`Confirm`); `confirming` says for whom
the lock is held in between. `socket` is a connector's websocket loop (`main.py:2058-2115`)
from its code to its key. `register` and `bind_connector` take no lock: `register[g]`
and `rebind[r]` are the places of their threads. `codes`, `accepted`, `seen`, `ended`,
`made`, `created`, `guesses`, `held` are what the custodian and the connectors were told.

`PositionLifecycle`. `pos` is the `Position` with its two stops, `last_confirmed_stop`
(`stop`) and `native_stop_loss` (`native`); `cmd` the `PositionCommand`s, `record` and
`prepared` their dispatch records in the order of their sequence, `known` the deals that
have a `Fill`. `real` and `deal` are the broker. `dispatch_position_command` saves before
it calls the adapter: `BeginCall`, `CallActs` (the broker's part) and an answer; over
the stream it is `Prepare`, `MarkSent`, `Execute` and `Result`. The volume of a
reduction comes back as a result, as an exit fill or in a snapshot, and `known` is what
keeps it from counting twice. `Project` is what a snapshot does to the position;
a snapshot of the stream may deny a command that was executed (`Deniable`), and on the stream
it may be cut short by a row that cannot be attributed (`ObserveRaises`), which leaves the
commands before that row settled and the position perhaps as it was. `RepairProtection` restores `native`, as `repair_native_protection` does.

`OperatorCommands`. A command is its idempotency key, because that is what `_command`
looks up. `Begin` saves DISPATCHING, `Call` is the broker's part, `Answer` what comes back,
or "LOST". A request whose answer was given up may still arrive (`late`, `ActLate`).
`Read` and `Reconcile` are a snapshot that is read and applied later: orders fill in
between, and what it says of a command in doubt may be REJECTED though it was executed. `AfterOrder` and `AfterFills` are what an order row and its deals make of a
status, in the order of `reconcile_observation`.

`BrokerAccounts`. `account` is the object in `AccountRegistry`, `row` its table, `saving`
the values that each thread's save was called with: `_persist_account` reads them, waits
for the database and writes the whole row. The stream handler blocks the event loop in
its saves (`admitting` is a hello in that place), while requests of the custodian
(`Editors`) run in threads. `handler[s]` is the handler of a session, `registered` the
registry of `connector_delivery.py`, `peer` what the connector has a connection for.
`Hello` is refused while another session holds the lease (`HeldFrom`); a connection that
broke ends its handler some time later (`EndClean`, `EndAbruptly`, `Leak`).

`EntryAdmission`. `task[t]` is a request's thread: where it is, which Signal and key it
has, and what it has read (`seen`, `asked`). A step ends where another thread may come
between, and what is done under the account lock is one step. `books` is the coordinator's
state, `disk` what it last saved; a refused `accept_execution` leaves the command it made
in memory only. Signals are memory only, and a restart loses them (`LOST`). `Refuse` stands
for every gate and check of form of the other components. `SetMode` and `StampMode` are
the two assignments of `set_execution_mode`.

### Abstractions

* One account: accounts share no state in the code modelled.
* Prices, volumes, hashes and envelopes are left out. A command whose account,
  generation, epoch or hash does not fit is answered without any change of state.
* In the coordinator an order stands for its position as well and partial fills are one
  fill: partial fills are in `OperatorCommands`, positions in `PositionLifecycle`.
* What a snapshot shows of an order, a command or a position is true. What it does not show
  is not evidence, and the models let it deny what was executed wherever the connector
  does (finding 3): the journal's `Evidence`, `Deniable` of the coordinator and of the
  positions, `Read` of the operator commands. Over an adapter (`Transport` "direct") nothing
  is denied: which rows another adapter returns is outside the repository.
* A snapshot that raises midway is not saved at once, but by the next operation; a restart
  before that, which forgets it, is a behaviour without the snapshot. In the positions it is
  modelled for the stream, whose handler (`main.py:2255`) is the only caller in the
  repository.
* The delivery models one generation of one connector. Its heartbeats and telemetry
  only move both sequences on; a result that the connector has in its journal may
  come back with any verdict, and the result of a close with or without its volume.
* Operations of the coordinator are atomic: a save that fails in `_mutation` is not
  modelled (listed as a hazard).
* In the pairing: one custodian; an identity names its account, a pairing or a call its
  key; the clock is a step that makes a pairing `due`; the order of the dictionary that
  a wrong code runs through is any order; flags of readiness and leases are left out.
* In the positions: one LONG position, volumes in lots and stops in levels; re-entry into
  a closed position of a netting account is left out, and so is `stage_exit`, which only
  proposes.
* In the operator commands orders begin SUBMITTED: `cancel_order` takes an INTENT order
  as well, which nothing has been sent for. The gate is left out, because no operation
  reads it.
* In the accounts one setting stands for the mode and the live unlock. A session id is
  taken again only when nothing remembers it.
* In the admission every entry asks for one unit of risk. Time is the number of mode
  changes: `born`, `since` and `asked` tell before from after.
* The calendar's interlock and the other limits of `RiskEngine.assess` are not modelled.

## 3. Runs

| Run | Instance | What it shows |
| --- | --- | --- |
| `journal` | 2 commands, 2 keys, 3 sequences, 1 failed write, 2 crashes; 1,899,425 states | at most once, verdicts that are true unless they are NO_EFFECT, the fence around doubt, calls in sequence, settlement under fairness and the refinement of `CommandPromise`, until a write fails; NOT_INVOKED_AFTER_RESTART is true and verdicts stand after it as well |
| `journal_no_effect` (violation) | 2 commands, 1 crash | an executed command is recorded as REJECTED, NO_EFFECT |
| `coordinator_direct` | 2 orders over an adapter, 1 restart; 893,189 states | protected opening, nothing sent past doubt |
| `coordinator_stream` | 2 orders over the stream, 1 restart, snapshots that deny; 2,570,640 states | handed over once, reservations kept unless the effect was denied, the fence of doubt until the first work converges |
| `coordinator_doubt` | 1 order over the stream, fairness, deadlines, an overdue backup, 2 restarts, snapshots that deny and snapshots cut short; 553,917 states | custody, convergence or escalation, delivery of what is queued |
| `coordinator_emergency` (violation) | 1 order, connector loss | an emergency stop is forgotten |
| `delivery` | 2 commands, one of them a close, 3 sessions, 1 fence, 1 restart of each side; 4,914,420 states | handed over at most once, tables that agree, acknowledged results that stay on record (an ACCEPTED close perhaps as UNKNOWN), results that fit, no gap, fenced commands kept out of later sessions |
| `pairing` | 2 pairings, 2 connectors, 2 identities, 1 `register`, 1 `bind_connector`, 2 wrong codes, 1 failed save, 1 restart, wrong codes or a `bind_connector` but not both in one behaviour; 2,136,448 states | codes taken once, confirmed as shown, one account per identity, bounded guesses, keys that open and keys that are dead |
| `positions` | 2 commands, 2 lots, 2 stops, 1 deal of the broker's own, over an adapter after the entry and after the second target, over the stream after the entry, snapshots cut short, and snapshots that deny or 1 restart but not both in one behaviour; 2,265,413 states | exposure is never understated, confirmed protection is the broker's, doubt has work |
| `accounts` | 5 session ids, 1 thread of the custodian, 2 changes of a setting, 2 broken connections, 1 restart, fairness; 163,922 states | a served session is the registered one of a healthy account, the connector comes back, the row converges |
| `commands` | 1 order of 2 lots, 2 keys for cancels and close-alls, snapshots that deny, 1 restart; 704,782 states | one call per command, risk released only for what was cancelled, a complete fill wins |
| `admission` | 2 threads, 1 key, 2 Signals, 3 orders, a limit of 1, 1 mode change, 1 restart; 982,806 states | the limit of open risk, one order per key, the fence of a mode change |

Beside these runs there are configurations to be run by hand. Those of section 4 end in a
counterexample. `MCConnectorJournalThree.cfg` asks the questions of `journal` of three
commands, with one crash and no failed write (1,091,869 states).
`MCExecutionCoordinatorForeign.cfg` is `coordinator_direct` with snapshots that are cut short
(1,195,261 states). `MCPositionLifecycleTypes.cfg` is `positions` with denials and a restart in
one behaviour and with closes of part and of the whole (4,427,277 states). It,
`MCBrokerAccountsTypes.cfg` and `MCOperatorCommandsTypes.cfg`
check the type invariants of their modules; the first also that verdicts are true unless
denied (`VerdictIsTrue`), that a CLOSED position is flat (`ClosedIsFlat`) and that the
remaining volume only falls (`RemainingOnlyFalls`), the last that a command in flight or in
doubt has work (`InFlightHasWork`). These pass. The type
invariants of all modules are proved, and so are four more
properties that no run checks (`CallsAreOnRecord`, `SentOnlyInSession`,
`EndedStaysEnded`, `DoubtHasWork`).

Why the bounds are enough. At most once is about two attempts at one command, or at
two commands with one key; a third command, which can come between or fence them, is in
`MCConnectorJournalThree.cfg`. With three sequences a gap, a repetition and an
overtaking all occur. One crash meets every point of a dispatch; two let a crash
fall into the recovery of the other. One failed write does the same: the properties that
stop at it are claimed before it, the others beyond it. In the coordinator the interesting interference is
between two orders (one settled, one in doubt; one protected, one not), and a second
restart matters to the liveness run only. `coordinator_stream` and `coordinator_direct` have no snapshots that are cut
short (`ForeignRows`), because of their size; `coordinator_doubt` has, and so have
`MCExecutionCoordinatorForeign.cfg` and the theorems. The delivery needs two commands (one overtakes, one
stays behind) and three sessions: one that queues, one that breaks, one that replays; the
fence and the restarts may fall into any of them; one of the commands is a close, the other is
not, so that the two are not interchangeable and the run has no symmetry. In the pairing two of each meet: two
candidates for one code, two pairings of one identity, a registration beside a
confirmation; two wrong codes exhaust a session, and one failed save and one restart fall
on either side of every step. A behaviour of the run has wrong codes or a
`bind_connector` (`GuessesOrRebinds`): the first touch sessions only, the second
accounts only. Both in one behaviour also pass, in 6,000,682 states and about four
minutes. A second `bind_connector` is too large for the run and is covered by the theorem.

In the other runs: the positions have denied commands or a restart (`DeniedOrRestarted`), since
a denial changes the status of a command and the restart looks at those that have none yet,
and closes of one lot of two, beside which the broker's own deal may take one lot or both.
Two position commands are one in doubt and one that overtakes or
follows it, two lots make a part and a rest, the broker's own deal falls between request
and answer, and two stops make one tighter than the other. A start after the first target,
which lets that deal be the second target's, is left to the theorems for the size of the run.
Over the stream nothing in the repository advances the stage (`record_exit_fill` has no
caller there), so that the run starts after the entry. One order of two lots is enough
for the operator commands, since an order is decided by its own commands, fills and
snapshot rows only; two keys are two commands on it, and the reuse of one key for another
kind. (Reuse for another order is what `MCOperatorCommandsRetarget.cfg` has a second order
for.) Five session ids let two broken connections each leave an old handler, an old lease
and an old row behind while the next id is tried. Two threads are every race between two
requests; a third would repeat one of them. The limit of 1 makes each second entry a test of
the assessment. The theorems of section 5 lift the bounds for
the properties they name.

`CHECK_DEADLOCK FALSE` is set for the coordinator: with the restarts used up and all
orders settled there is nothing left to do; and for the delivery, which stops when its
sessions are used up; and for the pairing, which stops when all pairings and calls are; for the positions, which
stop at a closed position with its commands settled; and for the admission, which stops when
its Signals and orders are used up. The connector's journal, the accounts and the operator
commands never stop.

### Fairness

* `ConnectorJournal!FairSpec`: a dispatch that has begun continues (it is a straight
  line of code under a lock), and a dead process is started again (by its operator: it
  is a foreground process, mt5-connector-mvp.md:89). Nothing is assumed of sessions, of the
  backend, of crashes or of failed writes.
* `ExecutionCoordinator!FairSpec`: the connector's run loop reconnects whenever it
  has no session (`OpenSession`); no session lasts for ever; of the sessions that can
  give evidence on every order in doubt, some do (strong fairness of
  `FullObservation`: each session asks for a snapshot, and a session may end before
  it is served, or its snapshot raise at a row that cannot be attributed: an account whose
  broker always shows such a row never settles its doubt, and its work is escalated); the
  handler of an accepted order queues it, unless a restart takes
  it; a session that is ready again and again sends what is queued. Nothing is assumed
  of health, fences, the custodian, deadlines or restarts, which are bounded.
* `BrokerAccounts!FairSpec`: the database answers; the event loop runs every handler
  between its saves (strong fairness: a save of another handler disables a step for a
  while); the connector dials again (`Hello`) and beats more often than its lease
  lapses, which is why `Lapse` is fair only while nobody renews; a connection that is
  gone is noticed. Nothing is assumed of broken connections, changes and restarts, which
  are bounded: "comes back" means once the connection holds.

## 4. Disagreements found

Each is a sentence of the repository that a trace of a few steps breaks. The first and the
third have a violation run. The others are run by hand, with the configuration named:
`tlc -config <cfg> <module>`.

1. **Emergency stop** (`EmergencyHolds`, run `coordinator_emergency`). CONTEXT.md:134
   says that EMERGENCY_STOP always refuses new entries. The stop is only a FENCE_PENDING
   gate; a connector that goes and comes back turns it into QUARANTINED and then into OPEN
   (`execution.py:1989`).
2. **Two orders in doubt** (`InDoubtMeansFenced`, `MCExecutionCoordinatorTwoUnknown.cfg`).
   They share one reason, and the first to converge removes it for both
   (`execution.py:2806`). `DoubtFences` states what remains true.
3. **Evidence of absence** (`NoEffectIsProof`, run `journal_no_effect`).
   mt5-connector-mvp.md:669 lets a command leave UNKNOWN on a proof only, and :674 wants an
   absent correlation to remain UNKNOWN. `_recovery_match` (`protocol.py:236`) compares
   `command_id`, `correlation_id`, `position_id` and `order_id`; the rows of
   `OfficialMT5Adapter` (`adapter.py:212-240`) carry the correlation in `comment` only, and
   the backend grants `authoritative_no_effect` to every unresolved record
   (`execution.py:2876`). An executed command in doubt is therefore NO_EFFECT, in three places:
   * the journal records it as REJECTED (`protocol.py:447`);
   * the snapshot reports its order as REJECTED (`protocol.py:383`), and the coordinator
     releases the order's reservation (`execution.py:3643`) while it works or is filled at the
     broker: `AbsentStaysInDoubt`, `MCExecutionCoordinatorDenied.cfg`;
   * a position command so reported is REJECTED (`execution.py:3698`) though the broker
     carried it out: `DeniedOnProofOnly`, `MCPositionLifecycleDenied.cfg`.

   Whatever this project claims of verdicts and of reserved risk is claimed beside this
   finding: `JournalTruth` exempts rows with `match` NO_EFFECT, `CommandPromise` has the step
   `Deny`, and `ExposureIsReserved`, `StatusIsTrue`, `ReservationIsFinal` and `VerdictIsTrue`
   exempt exactly the orders and commands in `denied`, which only such a snapshot adds to.
4. **Dispatch order** (`RefusedOnlyOnGap`, `MCConnectorDeliveryOrder.cfg`).
   mt5-connector-mvp.md:229 has the dispatch sequence serialized as `sequence`. The registry
   numbers frames by itself (`connector_delivery.py:338`), control frames take numbers from
   the same counter, and the dispatcher wants consecutive ones (`dispatcher.py:76`): after
   the acknowledgement of one command the next one is REJECTED.
5. **Reconnect** (`ReconnectReconciles`, `MCConnectorDeliveryGap.cfg`).
   mt5-connector-mvp.md:655 wants a reconciliation after every reconnect and detected gap.
   Sequences outlive sessions on both sides, so that a report lost with its connection makes
   every later observation of that generation OUT_OF_ORDER_SEQUENCE
   (`connector_delivery.py:225`).
6. **Repair loosens a trailed stop** (`NeverLooser`, `MCPositionLifecycleRepair.cfg`).
   strategy-templates-v0.md:463: trailing never loosens the confirmed stop. Repair applies
   `native_stop_loss`, which trailing does not move.
7. **Part of a cancelled order** (`PartStaysReserved`, `MCOperatorCommandsPart.cfg`).
   backend-v0.md:575 releases only the unfilled remainder; a cancel releases the whole
   reservation of an order that was filled in part.
8. **A key redirects its command** (`CommandKeepsOrder`, `MCOperatorCommandsRetarget.cfg`).
   backend-v0.md:836: the same key returns the original command, or 409. `cancel_order`
   assigns the order of the second request to the command of the first
   (`execution.py:1388`), and the verdict of the first is applied to the second order.
9. **A setting lost by a restart** (`SettingIsDurable`, `MCBrokerAccountsDurable.cfg`).
   backend-v0.md:807 calls the live-execution flag durable. A heartbeat's save that began
   before the change writes the old value over it (`broker_accounts.py:209`). The next
   heartbeat repairs the row (`RowConverges`), a restart before it does not.
10. **Two orders of one Signal** (`OneOrderPerSignal`, `MCEntryAdmissionOneOrder.cfg`).
    backend-v0.md:321 and :687: ORDERED is terminal, one Order intent. No code sets ORDERED,
    and a second key makes a second order.
11. **A superseded Signal is approved** (`SupersededStaysInvalid`,
    `MCEntryAdmissionSuperseded.cfg`). backend-v0.md:323. `approve` reads the Signal and
    writes it back without a lock (`signals.py:176`); a revision in between is overwritten.
12. **An approval turned down by its retry** (`ApprovalStands`,
    `MCEntryAdmissionApproval.cfg`), against backend-v0.md:836.
13. **A mode change in two halves** (`ModeChangeWakesNothing`, `MCEntryAdmissionMode.cfg`).
    broker_accounts.py:144: a mode change never wakes an older Signal. Between the mode and
    its time it can.
14. **An acknowledged result** (`AckedAsRecorded`, `MCConnectorDeliveryAck.cfg`).
    execution.py:3135: "Persist a validated connector result before transport
    acknowledgement". The ACCEPTED result of a `position.close` without `filled_volume` is
    persisted as UNKNOWN (`execution.py:3156`), while the bridge returns the registry's
    ACCEPTED (`connector_delivery.py:571-581`) and the handler acknowledges that
    (`main.py:2305`). `AckedIsRecorded` states what remains true.

Found by reading, and without a run:

* *Snapshots.* `reconcile_observation` raises at a row it cannot attribute
  (`execution.py:3543`, `3633`, `3707`) and does not undo the rows before it; over an adapter
  a later TRAIL row that was confirmed already would set `last_confirmed_stop` back.
* *Restart.* "Fence every restored account until its complete broker snapshot arrives"
  (`execution.py:2586`): the fence has no reason of its own, and an account that was
  quarantined for a connector gap is opened by the next hello (`main.py:2133`).
* *Positions.* `dispatch_position_command` sends PROTECTION commands to `close_position`
  of the adapter (`execution.py:1605`). A trail that is recovered late overrides a newer
  stop (exempt in `StopIsTheBrokers`). A snapshot lists open positions only, so that one
  closed by the broker keeps its remaining volume. `request_position_close` reopens a
  CLOSED position as CLOSING, and a rejected close leaves CLOSING behind. Over HTTP
  nothing prepares a close for the stream.
* *Operator commands.* `main.py` never passes a connector to `close_all` and does not
  expose `cancel_order`.
* *Accounts.* `connector_healthy` stays TRUE after a clean close, a refused heartbeat and a
  restart. A hello takes the lease before `open_session` may refuse it. Status reads a
  heartbeat as fresh for 60 seconds, the lease lasts 30. The takeover in two phases of
  backend-v0.md:766 is not implemented.
* *Signals.* `_restore` marks the Signals of all APPROVE_SIGNAL commands as approved, the
  REJECTED ones too. `canonical_order_hash` leaves the Signal id out. A repeated `execute`
  returns the prior order without queueing it, so that an order accepted before a crash is
  never sent.
* *Calendar.* Two manual overrides of one scope share one block, and the later one replaces
  and may shorten the earlier, against the docstring of
  `add_manual_economic_event_override`. An override without pair and currencies fences the
  account at once, and nothing over HTTP removes CALENDAR_BLACKOUT_ACTIVE;
  `set_calendar_interlock(False)` is skipped while the gate is QUARANTINED.
* *Saves.* `_mutation_depth` (`execution.py:2465`) is one counter for all threads.

Smaller ones are written into the properties, where a reader meets them:
`GateOpensProtected` exempts the completion of a restart, which does not look at
protection (`execution.py:2636`); `QueuedIsDelivered` exempts a queue behind a record
that is UNKNOWN, because nothing ever changes such a record; `DoubtSettles` ends in
ESCALATED as well, since later evidence does not recover escalated work;
`ConnectorReturns` and `RowConverges` exempt a handler that left its session registered,
after which the account is refused until the backend restarts. In the pairing,
`ConfirmedAsSeen` and `EndedIsFinal` exempt sessions with a failed save, after which memory
and table differ, and `SupersededKeyIsDead` a `bind_connector` that begins while another
is in progress: the other may save an older key after it.

## 5. What is proved

All theorems are for every set of commands, keys and orders, and all values of the
bounds, from the named assumptions on constants alone. Most state a property of a run.
Those marked (+) state one that stands beside these in its module and is listed in no
.cfg: TLC has found no error in it with the constants of the component's runs, and the
proof does not depend on that.

**Journal, failed writes included** (`ConnectorJournalProofs`). `TypeCorrect`,
`CallsAreOnRecord`, `NotInvokedVerdicts`, `VerdictsAreFinal`. None of these is
inductive: `RecordInv` adds that the row being dispatched is neither settled nor in
doubt, that it is marked before the adapter is called, and that a row recovered as "not
invoked" is not marked. Failed writes do not disturb this, because the mark and
INVOKING are one commit.

**Journal, until a write fails** (`ConnectorJournalProofs`).
`CalledAtMostOnce`, `DoubtFencesCalls`, `CallsFollowSequence`, `VerdictsAreTrue`. The
invariant is `SafetyInv`, which holds as long as no write has failed (`faults = 0`): a busy row
belongs to the dispatch in progress unless the process is down (`OneDispatch`), keys differ and
the dispatcher knows all sequences (`Ordered`), and nothing is called before its time
(`OneCall`). The condition is needed: after a failed write a row stays RECEIVED or INVOKING in
a live process and a redelivery dispatches it again. `VerdictsAreTrue` adds the invariant
`Truthful`. It assumes nothing of the rows an adapter returns, and says of a command REJECTED for
want of a row only that it was in doubt.

**Refinement** (`ConnectorJournalProofs`). `PromiseIsKept`: until a write fails the
journal implements `CommandPromise`, whatever the adapter's rows name. The argument goes
action by action: a receipt is `TakeOn`, the adapter call `Attempt`, a verdict `Settle` of one
command, an observation `Settle` or `Deny`, a restart `Settle` of all busy rows at once,
compaction `Forget`; the rest stutters.

**The stream's promise** (+). `DeliveryKeepsPromise` (`ConnectorDeliveryProofs`),
`CoordinatorKeepsPromise` (`ExecutionCoordinatorProofs`) and `PositionsKeepPromise`
(`PositionLifecycleProofs`): each of the three modules with a stream in it implements
`StreamPromise`, step by step. So the one step that the coordinator and the positions make
of a send, a result or a lost session is no other than what the registry, the two tasks and
the frames of the delivery do to the record. A hand-over is `Send`, the connector's reading
of a frame `Act`, a result `Settle`, a reconciled session `Ready`, the end of a session
`Lose`; what happens to the account, the broker or the queues stutters, and frames that
break with their connection are `Drop`. The promise distinguishes
a session that is lost, with which everything SENT becomes UNKNOWN at once, from a process
that dies and records nothing: what it leaves SENT has no result on its way (it is one of
the `orphans`), and so nothing can settle it afterwards. The invariant is accordingly that what
is SENT without a session is an orphan (`ClosedOK`, `ViewOK`); in the delivery it is `UpOK`,
which finds the record of every result on its way still SENT, and the fact that a queue is
filled only after the reconciliation (`SessionOK`). TLC finds no error in `StreamSpec` with
the constants of `MCConnectorDelivery`, `MCExecutionCoordinatorStream`,
`MCExecutionCoordinatorDirect` and `MCPositionLifecycle`.

**Gate** (`ExecutionCoordinatorProofs`). `CustodyIsKept` and `OpeningIsProtected`, for
both transports. Every operation changes the account through the helpers of
`AccountGate`; the relation `Gently` says that a helper keeps the account well formed,
never takes custody away and opens the gate only under its own condition, it composes,
and each action is a composition. The invariant is that custody keeps the gate
QUARANTINED.

**Orders and doubt** (`ExecutionCoordinatorProofs`). `TypeCorrect`, `HandedOverOnce`,
`RiskIsHeld`, `DoubtKeepsTheFence`, and, in the direct transport, `NothingSentInDoubt`.
An order whose hand-over has not begun (`Fresh`: told from the delivery record over the
stream, from the order's last event in the direct transport) was not sent; whatever
changes a row later releases risk only of an order that has no effect at the broker
and is not on the wire (`RowsOK`), but for a snapshot that denies it: `RiskIsHeld` says that
this denial is the only way in which risk is lost from under a live order. Between the check in dispatch_next and the send
nothing runs that touches the orders, so the answer of the check still holds
(`DispatchOK`). Doubt is fenced by the reason RECONCILIATION_PENDING or by custody
(`DoubtOK`): the first is dropped only when work has converged, the second by the
custodian.

**The truth about orders** (`ExecutionCoordinatorProofs`) (+). `StatusesAreTrue`: an order
is SUBMITTED, FILLED, CANCELLED or REJECTED only as the broker has it, whichever of an answer,
a result, a recovery, a fill and a snapshot said so, and in whatever order they came; only an
order that a snapshot denied is REJECTED against the broker.
`UnknownOrdersHaveWork`: an order in doubt has work, also after a crash in its call.
`ReservationsAreFinal`: nothing takes back what was decided of a reservation, unless the order
was denied. `TruthInv` adds
to the stream's invariant what an order may say at each stage of its command (`RowTrue`): one
that is on the wire is INTENT or UNKNOWN and without effect, one that was sent in this
session and has left the wire was acted on, a consumed reservation is a fill; and the call
in progress knows no more than the broker did (`CallTrue`).

**Delivery** (`ConnectorDeliveryProofs`). `TypeCorrect`;
`HandedAtMostOnce`, `TablesAlwaysAgree`, `SentOnlyInSession`, `AcknowledgedIsDurable`,
`FencedNeverReplayed`; `StreamHasNoGap`, `ResultsAlwaysFit`. At most once is not inductive: `DeliveryInv`
adds that what is queued is QUEUED in both tables (`QueueOK`), that a command not yet
delivered was never handed over and that a delivered one has at most one frame waiting,
not handed over yet (`SendingOK`). A replay takes up only what is QUEUED in the record
and absent from the table, so that it never meets such a frame. For the fence the epoch of
a frame is followed from the queue into `outbound` and over the wire (`DownOK`). The
stream is a separate invariant, `StreamOK`: over an unbroken link the frames on their
way are consecutive, end just before `expected` and begin just after the connector's
last sequence. `UpOK` says the same of the reports that come back, once the session is
reconciled (before that no command is on its way, and what is refused is no result), and
that of a command there is one frame or one result in its place, its record still SENT:
hence no result is ever refused. The same facts give `DeliveryKeepsPromise`.
`AcknowledgedIsDurable` says that an acknowledged result is on record for good, with the one
difference of finding 14 in its statement; of any other result the record is the one
acknowledged.

**Pairing** (`AccountPairingProofs`). `TypeCorrect`, `CodeIsTakenOnce`,
`AccountIsCreatedOnce`, `EndedStaysEnded`, `ConfirmsWhatWasSeen`, `ReplacedKeyIsDead`,
`HandedKeysOpen`, `GuessesAreBounded`, with failed saves and restarts. Each relates memory to table: a
used code is on record as used (`CodeOK`); a session that is over is over on record, or
past its deadline, in which case a restart that loads it finds it expired (`FinalOK`);
a candidate in memory is the one on record, and the only one ever shown (`SeenOK`). For keys,
every account in memory is on record (`KnownOK`), keys are fresh (`BegunOK`), and while a
call that began alone runs, no other call in progress holds the key it replaces
(`ReplacedOK`). A wrong code is charged to
every open session or else exhausts one or loses a save, so that an open session has
outlived its own charges and at most one code for each of those (`BoundOK`).

**Admission** (`EntryAdmissionProofs`). `TypeCorrect`, `OneOrderPerKey`,
`RiskNeverExceeds`, `OldSignalsStay`, for any threads, keys, Signals, limits, mode changes
and restarts. The invariant `IInv` types the books and adds what a request has by each
step (`Fit`: a key and a Signal before it may ask for an order, a time not in the future)
and that the orders in memory are those on disk (`OrdersSaved`), without which a
restart could bring back a key that had been used. `OrdersStep` then says that a step
leaves the orders alone, appends one that was looked up and assessed under the lock, or
settles one. `OneOrderPerKey` and `RiskNeverExceeds` follow from these three cases, the
second by counting the reserved orders; `OldSignalsStay` from the test against
`mode_changed_at`, since a request was asked no later than that time (`FenceStep`).
`AcceptedOrdersEndure` (+): an accepted order keeps its key, Signal, decided risk and place in
the connector's queue across restarts and failed entries, because the disk is never
behind memory in either (`OrdersSaved`, `QueueSaved`).

**Operator commands** (`OperatorCommandsProofs`). `TypeCorrect`, `OneCallPerCommand`,
`RiskReleasedTruly`, `CompleteFillWins`, `DoubtHasWork`, for any orders, keys, volumes and
restarts. A command that has not begun was never called (`CommandsOK`), and the command of
the call in progress is DISPATCHING and was not called before (`CallOK`), which gives one call.
The other two need to know what the broker did: as long as no key was reused, the call and
the requests still on their way name the order of their command (`NamedOK`), and whatever
says that a cancel was done, be it the broker, an answer or a snapshot read earlier, says so
of an order that is off the book (`CancelledOK`). Of such an order less than the whole
was filled (`GoneIsPart`), so that no verdict can overwrite a complete fill. A snapshot
never claims more than the broker has since done (`SnapshotOK`), which is why it may
be applied late. `ExecutedIsFinal` (+): a command that is called EXECUTED was executed and
stays so, for any keys, reused ones too. Whatever says EXECUTED, be it a row, an answer or a
snapshot that was read earlier, says so of what was done (`SaidOK`), and a request that is
still on its way is the only one of its command and has done nothing yet (`LateNew`).
The converse is not claimed: a REJECTED one may still be executed, or was and has been denied
(finding 3).

**Positions** (`PositionLifecycleProofs`). `TypeCorrect`, `DoubtIsRemembered`,
`ConfirmedStopIsTheBrokers`, `ExposureIsNotUnderstated`, over both transports. A command
is DISPATCHING only during its call, so that every command that a restart finds so gets
work (`DoubtInv`). The confirmed stop has two arguments. Over an adapter at most
one command is open until one overtakes another (`OneOpen`), and whatever the stop
differs by is a trail in doubt that has moved it (`StopsOK`). Over the stream
records are sent in their sequence and acted on in that order (`SequenceOK`), so that until
a result is missing the stop at the broker is the confirmed one or that of the last
command whose result is on its way (`SentStop`); once one is missing, only a snapshot, taken
with nothing on its way, makes the session ready again (`SessionOK`). A denied command was
executed, and the stop it left is found by the same snapshot, which shows the position: a stop
that is not the confirmed one is no protection (`Project`). A snapshot that settles commands and
raises before the position counts as `overtaken`. For the exposure
the projection shows at least the broker's volume and every deal not counted yet
(`ExposureOK`). The sum over a set of deals is not computed: the invariant says
that there is a function with the two properties of a sum that the steps need (`Sums`),
which is what lets it hold for any number of deals. That a result is never of a deal that a
snapshot has counted is `DealsOK`.

From these come three more (+). `ClosedPositionsAreFlat`: a position that is called CLOSED,
at which no repair looks again, is flat at the broker; CLOSED goes with a remaining volume of
zero (`ClosedOK`), and the projection never shows less than the broker holds.
`RemainingNeverGrows`: no late result gives volume back, and no snapshot, since what it
reports is the broker's volume, which is covered already (`VolumeFalls`). `VerdictsAreTrue`: a command is CONFIRMED only if the broker did it,
and REJECTED only if it did not and never will, or a snapshot denied it; it needs that what is on the wire is RECEIVED
or UNKNOWN (`WireOpen`).

**Accounts** (`BrokerAccountsProofs`). `TypeCorrect`, `ServedAccountsAreHealthy`. While
a hello is being saved the event loop does nothing else, so that the account is still
as the hello left it when its session is opened (`AdmittedIsHealthy`); the registry opens
one only while none is registered, and a handler marks the account unhealthy only if its
own session was the registered one. `HeartbeatsAreAccepted` (+): the lease belongs to the
session that the connector is connected with (`LeaseInv`), although earlier ids may have held
it, which is why the model has no step for a heartbeat that is refused.

**Only model-checked**: liveness under fairness (`EveryCommandSettles`, `DoubtSettles`,
`QueuedIsDelivered`, `ConnectorReturns`, `RowConverges`), which is out of the prover's
reach. Every safety property of the passing runs is proved, and `NoSendInDoubt` for the direct transport, which is
where it is claimed.

## 6. Plan

Modelled since the first plan: positions, operator commands, accounts, Signals and
admission. What is left, in this order:

1. `ExecutionPipeline`: composition of admission, coordinator, delivery and journal for one
   or two orders, end to end at most once.
2. A second account and operations that fail between their changes and their save, for
   `_mutation_depth` (`execution.py:2465`).
3. `CalendarInterlock` (section 4) and the pure functions of `risk_calendar.py` against
   reference definitions; the global emergency.

## 7. Not modelled, and why

Strategies, market data, news and dashboard compute or present data and keep no
protocol state. The global emergency writes a table of targets in one step each, and who
converges them is outside the repository. Of risk and calendar only the bound on open risk
is modelled. Migrations, configuration and secrets are input and output. The MT5
terminal is external: what the adapter can get back from it is modelled, not how.
Wall-clock timing (heartbeat periods, backoff) appears only as steps that may happen.

## Running

`tlc -config MCConnectorJournal.cfg MCConnectorJournal` and likewise for the other
configurations; `tlapm ConnectorJournalProofs.tla` and likewise for the other proof
modules.
