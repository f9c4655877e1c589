# OwlClaw core: TLA+ models, checks and proofs

This directory is a verification project for `src/owlclaw`, an asyncio runtime
that lets triggers (queues, database notifications, cron, webhooks, an API,
operator signals) start runs of one agent, under governance and with an audit
ledger. The models are translated from the Python source; comments in the
modules name the functions. All paths below are relative to `src/owlclaw/`.

## 1. The system

One process runs one event loop. Code between two awaits is atomic, so an action
of a model is what the loop runs from one await that suspends to the next, and
the state of a task is the await it is suspended at.

| Component | State | Operations | Hard behaviour |
|---|---|---|---|
| Governance ledger `governance/ledger.py` | bounded write queue, the writer's batch, database, fallback log | `start`, `stop`, `record_execution`, writer loop, queries | failing and ambiguous commits, cancel at any await, full queue |
| Queue trigger `triggers/queue/trigger.py`, `idempotency.py` | workers, running/paused, idempotency store | `start`, `stop`, `pause`, `resume`, consume loop | workers interleaving, redelivery, crash between run and ack |
| Kafka adapter `integrations/queue_adapters/kafka.py` | `_inflight`, consumer position; broker: log and committed offset | `connect`, `consume`, `ack`, `nack`, `send_to_dlq`, `close` | offset commits cover predecessors, ids that repeat |
| Agent runtime `agent/runtime/runtime.py` | run lock, skill environment and what to restore | `trigger_event`, `run`, decision loop, tool execution | concurrent callers, timeout, cancel, pause |
| Signals `triggers/signal/` | paused flag, bounded list of pending instructions | pause, resume, trigger, instruct | consumption racing with the pause |
| Heartbeat checker `agent/runtime/heartbeat.py` | a cache of database answers | `check_events` | suspends while the run lock is held |
| Database change trigger `triggers/db_change/` | aggregation buffer, debounce task, retry queue, dead letters | notifications, flush, retry loop, `start`, `stop` | timer against pushes against the lock, full buffers, cancels |
| Cron trigger `triggers/cron.py` | registered triggers, run slots, breaker, concurrency | register, fire, `trigger_now`, pause, resume | governance reads a ledger that lags behind |
| Webhook trigger `triggers/webhook/` | idempotency cache, per-key locks, executions | validate, transform, execute, retry | lock and cache eviction, timeout then retry |
| API trigger `triggers/api/server.py` | table of runs, background tasks, token buckets | async and sync requests, results, `start`, `stop` | eviction of runs under way, answers across an await, requests during `stop` |
| Governance filter `governance/visibility.py`, `constraints/` | budget reservations, breaker states, the runtime's cache of answers | `filter_capabilities`, `evaluate` | decisions from stale ledger reads, answers that outlive their reason |
| Approvals `governance/approval_queue.py`, `migration_gate.py` | requests and their status | create, approve, reject, expire | expiry against approval |
| Hatchet bridge, memory, tools, model client, capabilities, config, MCP, hub, web, CLI | registries, caches, external services | calls and parsing | little protocol of their own |

How they interact: every trigger asks governance and then calls
`AgentRuntime.trigger_event`; the runtime reads the signal state, runs under its
lock, and records tool executions in the ledger; cron, budget, rate limit and
breaker read the ledger back. `app.py` wires in-memory signal state, one runtime
per process, and starts and stops the ledger with the governance layer.

What makes each component correct, in a sentence: the ledger loses no record
silently; the queue trigger neither loses a message nor runs the agent more
often than failures explain; the runtime isolates runs and obeys a pause; the
signal state hands each instruction to one run; the database change trigger
accounts for every event once and in order; cron and webhook triggers run the
agent no more often than their limits and keys allow; the API trigger settles the
runs it accepted and shows them going forward; the filter hides what is
broken or unaffordable, and stays right when evaluations overlap.

## 2. Modules

| Module | Models | Role |
|---|---|---|
| `AuditLog` | what the ledger promises | abstract specification |
| `Ledger` | `governance/ledger.py` | component; refines `AuditLog` and `LedgerView` |
| `KafkaAdapter` | `kafka.py` and one partition of the broker | operators of the adapter |
| `QueueTrigger` | `triggers/queue/` | composes its workers with `KafkaAdapter` |
| `AgentRuntime` | `trigger_event`, `run`, `triggers/signal/` | component |
| `EventAggregator` | `db_change/aggregator.py` | operators of the aggregator |
| `DBChangeTrigger` | `db_change/manager.py`, `adapter.py` | composes the manager with `EventAggregator` |
| `LedgerView` | the ledger as its readers see it | abstract specification `CronTrigger` and `Visibility` are composed over; refined by `Ledger` |
| `CronTrigger` | `triggers/cron.py`, one trigger | component over `LedgerView` |
| `WebhookExecution` | `triggers/webhook/execution.py` | component |
| `APITrigger` | the asynchronous runs of `triggers/api/server.py` | component |
| `Visibility` | `governance/visibility.py`, `constraints/`, the tool cache of `runtime.py` | composes filter, two constraints, runs and viewers over `LedgerView` |
| `MC*` | | instances for TLC; the bounds are in the `.cfg` files |
| `LedgerProofs`, `QueueTriggerProofs`, `AgentRuntimeProofs`, `DBChangeProofs`, `CronProofs`, `VisibilityProofs`, `APIProofs`, `WebhookProofs` | | theorems about the component of the name |

Definitions called "Mutant of X" are variants of X with a plausible bug. Nothing
refers to them; they are there to be put in the place of X, which must make the
property they belong to fail.

### Ledger

A record is named by its place in the order of `record_execution` calls. The
writer task is `stopped`, `waiting` (in `wait_for(get())`), `committing` (in
`session.commit()`) or in `backoff` (in `sleep`). `cause` is the branch of
`_background_writer` that called `_flush_batch`, because the branches differ in
what they do when it returns and in whether a cancel is caught:

- `RecordExecution` = `record_execution`; a full queue sheds its oldest record.
- `TakeRecords` = the `get` with the drain loop, and the flush of a full batch;
  `FlushInterval` = the timeout branch.
- `CommitSucceeds`, `CommitFails`, `CommitAnswerLost`, `BackoffEnds` =
  `_flush_batch`, whose last failure goes to `_write_to_fallback_log` record by
  record. A commit is atomic and the primary key admits a record once, so a
  retry after a commit that took effect unnoticed can only fail.
- `StopInTry`, `StopInHandler`, `StopSwallowed` = `stop`, by where the cancel
  finds the writer. In the try the handler flushes what it holds; in the timeout
  handler or a second stop during the cancel's flush nothing catches it and the
  batch is `abandoned`; and before Python 3.12 `asyncio.wait_for` drops a cancel
  that races with a result (`swallows`; the project supports 3.10 to 3.13), so
  that `stop()` waits on.

Not modelled: the read-only queries; the `except Exception` branch of the writer
(nothing before it can raise); `stop()` itself being cancelled. Two facts a
reader should know, visible in the model: `stop()` does not drain the queue, and
records that wait there are invisible to the queries governance makes.

### QueueTrigger and KafkaAdapter

One partition, offsets counted from 1, `committed` the last offset committed.
`concurrency`, `ackPolicy`, `dedup` and the consumer's `offsetReset` are chosen in
the initial state. A worker is suspended in `fetch` (the async iterator), `held`
(the pause poll), `governance`, `exists` (the idempotency store), `trigger` (the
agent, with its retries), `remember` (the store again) or `settle` (the adapter
call). `Start` stands for a fresh trigger with a fresh adapter, in the same or a
new process; the broker and the store survive. `Crash`, `Expire` and failing
service calls use up `faults`. Tenant resolution, metrics and the ledger
record after success are abstracted: errors there change no state but counters.
Rebalances between group members and several partitions are not modelled.
The client library is taken as the code uses it, every call awaited. `close` is one
step: what a worker does between the code's `_running = False` and the end of
`close` it can do in the model just before `Stop`.

Ids are not unique. `IdOf` is the message id, for which the adapter takes the record key
when there is no `x-message-id` (`kafka.py:190`); `_inflight` is keyed by it.
`DedupOf` is `x-dedup-key`, or the id. Any function will do for either, so that different
messages may share both. `DedupDropsOnlyRepeats` is therefore about keys: it says
that a record is dropped only when the agent has run for a message with its key, and
cannot say that it was the same message.

A message that parses goes on to governance. Those that do not differ in who notices:

| Message | What raises | What the code does | In the model |
|---|---|---|---|
| `Unparsable` | the parser, a `ParseError` | dead letters, next record | `settle` by `dlq` |
| `Breaking`: no body | the parser, anything else (`parsers.py:27`, `40`) | the loop counts it and goes on (`trigger.py:233`): no dead letter, nothing settled | the first disjunct of `BeginProcessing`, `errored` |
| `Unreadable`: a header without a value | the adapter, in its iterator (`kafka.py:183`) | the loop is over and the worker gone (`trigger.py:238`) | `ConsumeRaises`, `errored` |

`ConsumeRaises` is also what a failing broker call in the iterator does (a fault). The
worker is `off` then while `running` and `connected` stay true; only a stop and a new start
create workers again. One record with a valueless header does that to a single worker, and to the next one after
a restart if the committed offset is still before the record, while `health_check` goes on saying "healthy"
(`trigger.py:209`). So `EventuallyHandled` promises progress only as long as a worker is left (`AllOff`
is its escape); "Consume queue messages until stopped" (`trigger.py:221`) is not what the code does.

`Lost` is what the properties are about: records the consumer has passed that no
worker holds, that were not finished (`done`) and not given up with an exception in
the log (`errored`: a settling call, a parser or the adapter's iterator raised).

### AgentRuntime

`Runs` are the calls of `trigger_event` that are under way at a time; a call that ended makes
room for a new one, so behaviours have any number of calls. A call is `waiting` for
the run lock (`lock`, first in first out, as `asyncio.Lock` is), `checking` for
heartbeat events, `looping` in the decision loop or `hung` in it, and then
`paused` (skipped) or `over`. `TriggerEvent` is all of `trigger_event` up to the
lock: it consumes the instructions and reads the pause, without suspending,
because the state is in memory. `env` says whose skill variables the process
environment holds, `saved` what `_run_env_restore` keeps. All variables of a
skill set are one value: the injection puts all of them in or back in one step.
`Cancel` is what a caller's timeout or the end of a task does at each await; in
`checking` no handler restores the environment. Expiry of instructions is a
choice at consumption, the only place that looks at it.

### DBChangeTrigger and EventAggregator

One channel; events are named by arrival. Each notification is a task that lines
up for the aggregator's lock (`line`), which is held through `on_flush`, that is
through governance and the agent run. `timer` is the debounce task: asleep, woken
and behind pushes, or due to get the lock next. `stage` is where the flush is
suspended. A flush started by the timer cancels its own task (`byTimer`), and the
cancel may arrive at the next suspension (`OwnCancelArrives`). The retry task
takes an item, triggers, sleeps and puts it back, or gives it up as dead.
`stop` is three steps because it awaits twice: the retry task, the event tasks,
and the listeners last. `fate` records what became of each event. The connection
and its health check decide only which notifications arrive and are not modelled.

### LedgerView

Cron and the constraints record without waiting and decide by queries. For them the
whole of `Ledger` is: records come in order, some of them are stored later, in that order, in
batches, with gaps (`StoreBatch`). `created_at` is set by the storing transaction, so that
records of a batch tie and a query for the newest may order them either way:
`Newest(n)` is the set of its possible answers. The view allows more than `Ledger` does
(a shed record and a late one look alike), which is sound for the safety
properties stated over it. That `Ledger` does nothing else is its property `ImplementsView`
(run `ledger`, and a theorem): `batchEnds` in `Ledger` is history for it, the last record of
each committed batch, and all days are one, because the writer does not look at them.

### CronTrigger

`Fires` are the fires of one trigger under way at a time. A fire is at a query
(`cooldown`, `count`), in the `agent`, in the `fallback` the draw chose, in the
`rescue` of `_handle_failure`, or `evaluating` (in `finally`, recording and asking the ledger
for the breaker), and then gives the slot back. `Record` counts management
actions too, as the queries do. What the model shows of the code beside its properties:

- The day's count and the cooldown look at stored records of every kind: manual
  triggers, pauses and skipped runs use up `max_daily_runs`.
- `cost_usd` is never set on these records, so `max_daily_cost` never refuses.
- The Hatchet client has no `pause_task`: fires of a paused trigger come and are
  recorded as skipped. Skips count as failures, so a pause opens the breaker.
- An open breaker makes every run skipped and keeps itself open (`BreakerLatches`).
- A query that raises goes to `_handle_failure`, which runs the fallback handler
  although no check has passed; a failed run without a handler becomes skipped.
- A fire that finds the slot taken leaves no record. A cancelled run's record keeps the
  status it had; no reader tells it from a failed one, and neither does the model.

### WebhookExecution

Requests that carry a key; those without one share nothing. A request is
`waiting` for the lock of its key, or `running` with its attempts, and its result, good
or bad, is cached. A lock object is a name, so that a key may have an old and a new lock
at once; there are as many names as keys and requests together, because all of them may be in use
when one more lock is made (a theorem: a free name is left). `Without` is what `dict.pop` and
the removal of a waiter leave of a sequence. `asyncio.Lock` is free between its release and the step of the waiter it
wakes; `RecordIdempotency`, which translates `_trim_idempotency_cache`, can remove the lock
from the table in that gap. `lost` keeps the keys that happened to, and
`OneRunPerKey` excepts them and no others. `tries` counts the agent runs of a
key since it was last forgotten. A failure, a 503 included, answers every request
of its key for an hour, and the key is not scoped to its endpoint.

### APITrigger

Runs accepted with "202 accepted". `table` is `_runs`, an ordered dict: writing to an id
that is there keeps its place, `move_to_end` after a question does not. `task` is the
background task of a run: `created` and not yet begun, `calling` the agent, `over`, or
`never`, when the cancel came before its first step, so that no handler of it ran and
its run stays pending for good. A report on a run that has been evicted puts a new
entry into the table, beyond the bound (`whole = FALSE`: it has none of the
fields the run came with, so a question about it is not authenticated). A question is
answered where it is read, unless the authentication provider suspends: the built-in
ones do not, but `AuthProvider.authenticate` is a coroutine for others to
implement. Then the entry that was read is answered with, whatever has happened to the
table, and `move_to_end` raises if the run was evicted. `told` is history: what a client knows
of the run it asks about. `StopBegins` cancels the tasks it finds; uvicorn takes requests until
it has shut down, and a run accepted then (`late`) is dropped from
`_background_tasks` uncancelled. Recording in the ledger does not suspend and is part of the
report. What precedes acceptance (authentication, body, rate limits, governance) is one
decision; a synchronous request leaves nothing in the server. `stop()` is called once, on a server
that is up: neither a second call, also while the first waits, nor one on a server that is down is modelled.

### Visibility

One expensive capability of one agent. Both evaluations of `filter_capabilities` go on
side by side: each reads the ledger, suspends, and acts on what it read. `run` is the run that holds
the run lock; it asks through `_visible_tools_cache` (`cache`), keyed by
the confirmed capabilities; `Viewers` ask as `app.get_visible_capabilities` does,
without the cache. `sure` and `trials` are history: an evaluation that is sure has seen
a ledger whose newest calls all failed. A hidden capability may still take a
reservation, because the budget does not wait for the breaker; a viewer uses up the trial
of a recovered breaker; nothing calls `on_capability_success`, so that half-open only
ends in open; and a single evaluator error under fail-close is cached for good.
`EvaluatorFails` is also what always happens under Python 3.10, which the project lists
as supported: `asyncio.timeout` (`visibility.py:295`) does not exist there.
The remaining constraints keep no state and are one free answer (`others`).

## 3. Runs

| Run | Bounds | Shows |
|---|---|---|
| `ledger` | queue 2, batch 2, 3 attempts, 4 records, 2 stops | types, no silent loss, one fate per record, records leave memory, `stop` ends, refinement of `AuditLog` and of `LedgerView` |
| `queue_pair` | log 2 of 4 messages, 1 or 2 workers, 1 retry, 2 starts, 1 fault | types; a single worker loses nothing and runs a message once plus once per fault; the agent has run for the key of what deduplication drops; no loss while connected; records are finished or given up while a worker is left; `stop` ends |
| `queue_commit` | log 2, 2 workers, 1 start, no faults | violation: a commit covers unfinished records of another worker |
| `runtime` | 3 concurrent calls, list of 2, 3 instructions | types; environment isolation and restoration; instructions given once and newest kept; a pause takes effect; every call ends |
| `runtime_skip` | 2 calls | violation: a skipped call discards instructions |
| `dbchange` | 4 events, batch 2, buffer 2, retry queue 1, 2 attempts, 2 starts | types; every event in one place, or accounted for, once; oldest first; nothing waits or retries for ever |
| `dbchange_debounce` | 2 events, 1 start | violation: a debounce flush cancels itself |
| `cron` | 2 fires at a time, 4 records, 2 days, window 2, 1 run a day | types; runs do not overlap and none of the agent runs under an open breaker; the daily limit as far as the ledger is stored; the breaker latches; the slot comes back |
| `webhook` | 3 requests, 2 keys, 1 entry, 2 attempts | types; one run at a time and bounded attempts per key unless its lock was lost; every request ends |
| `api` | 3 runs, table of 1, 2 clients | types and what may exceed the table's bound; `stop` settles the runs it found; a client sees a run go forward |
| `visibility` | 3 records, threshold 2, budget 2 of cost 1, 1 viewer, cache of 1 | types and cache size; one trial per recovery; reservations fit the budget |
| `visibility_cache` | the same | violation: a run is offered from the cache what governance would hide |

The bounds let every limit be reached and passed: queues and buffers fill and
overflow, batches fill twice, all retries are used up, a second stop meets the
flush of the first, a restart meets what the first session left, two workers and
three callers interleave at every await. `queue_pair` has room for one fault and one restart; its
single-worker properties are theorems for any number of them. The messages of
`queue_pair` are one that the agent runs for and one each that does not parse, has no body, has a header without a
value; the second has the id of the first, so that different messages meet in `_inflight`, and each may be published or
requeued several times. Two messages the agent runs for under one key are left to the theorem, which holds for any ids:
with both, and liveness, the run would take too long. `queue_commit` needs two messages with ids of their own.
In `cron` a third record makes the window slide past the two that opened the breaker, and a fourth
allows a manual trigger or a pause among them; the second day meets runs begun on the first. In `webhook` two keys
share one cache entry, so every result evicts, with a third request waiting for the evicted key's lock;
the rule that removes locks when there are more than twice the entries needs three keys and is not reached. In
`api` a table of 1 stands for 1000: every run evicts the one before it, and a third is accepted while the
first reports into the table again; the two clients differ in nothing and only safety is checked, so they are symmetric. In
`visibility` a cache of 1 stands for 64: the second set of confirmed capabilities evicts the first. Its symmetry over
these sets is sound since it checks safety only, and `visibility_cache` goes without. The bounds on records, events, starts and stops
(`MaxRecords`, `MaxLog`, `MaxEvents`, `MaxStarts`, `MaxStops`, `MaxFaults`,
`MaxInstructions`) exist for the checker only; the theorems hold for all values.
Deadlock checking is off where a system that has used up its bounds may stop.

Fairness: a task that can run is run (the event loop is fair), a timer fires, an
awaited service answers or fails. For the runtime the decision loop may hang, and only the
run timeout is fair there. A cron fire moves on because queries answer or raise and an agent run
ends by its own timeout; that a user's fallback handler ends, or is cancelled by
Hatchet, is an assumption. A webhook request that was woken or runs moves on for the same
reasons; the assumption is on its stage (`MovesOn`), not on which outcome it is. Nothing assumes that anyone starts, stops, resumes,
records or sends, nor that a call succeeds.

### Disagreements found

1. `integrations/queue_adapters/kafka.py:114`. With `concurrency > 1` an ack
   commits `offset + 1` for the partition and thereby records that another
   worker still processes; a crash then loses them (`queue_commit`). With one
   worker the trigger loses nothing, and that is a theorem.
2. `agent/runtime/runtime.py:475`. A call consumes the pending instructions before it
   sees that the agent is paused; it is skipped and they reach no run
   (`runtime_skip`).
3. `triggers/db_change/aggregator.py:73`. A flush started by the debounce timer
   cancels its own task; if governance or the agent suspends, the batch is lost
   without a retry (`dbchange_debounce`). What does not suspend goes through, so a
   test with an immediate mock does not show it.
4. `agent/runtime/runtime.py:2051`. The tools offered to a run are cached by agent,
   tenant and confirmed capabilities, and only a 65th entry removes one: what
   the breaker and the budget decide later does not reach the agent (`visibility_cache`).

## 4. Proofs

TLAPS proves the following for all values of the constants that satisfy the
assumptions named in the modules (`LedgerAssumption`, `KafkaAssumption`, `QueueAssumption`,
`RuntimeAssumption`, `AggregatorAssumption`, `DBChangeAssumption`, `LedgerViewAssumption`,
`CronAssumption`, `VisibilityAssumption`, `APIAssumption`, `WebhookAssumption`: bounds are naturals, sizes positive,
sets of keys finite).
Each proof goes through an inductive invariant (`IInv`) that TLC has checked on the instance of the
component's run, and a step lemma for each kind of action.

- **Ledger** (`LedgerProofs`): `TypeOK`, `NoSilentLoss`, `SettledOnce`, that
  `Spec` implements `AuditLog!Spec`, and that it implements `LedgerView` (`ImplementsView`). None is inductive alone. The invariant adds
  `WriterInv` (a committing writer has a batch, a stopped one none, a batch that waits
  is not full) and `OrderInv` (batch and queue together are strictly increasing,
  so no record is twice in hand; what left the hand is older than what is in
  it). Both refinements need the order: a commit stores
  records newer than all stored, and the last of the batch is its newest.
- **Queue trigger** (`QueueTriggerProofs`): `TypeOK` and
  `SingleWorkerLosesNothing`. The invariant adds that a busy worker holds a
  fetched record and, for one worker at "earliest", that everything below the position is
  finished, errored or in its hands, and that what is committed is finished or
  errored, so a restart skips nothing else. `NoLossWhileConnected` is for any number of workers. It needs
  `PassedInv`, because a requeue takes the consumer back to a record the adapter
  remembers, and another requeue may take it on from there: every record between what the consumer
  may still come to and what it has passed or remembers is handled. The same module
  has deduplication: `AgentRunsBounded`, and `DedupDropsOnlyRepeats`, without an assumption on
  ids and keys. `RunsInv` says that a message has
  at most one run more than there were faults, and that once it has, its key is on record or being
  written by the worker that holds the message and will not run it again. `StoreInv` says
  that for a key on record or being written some message of that key has run, and `DropInv` the
  same of what was dropped.
- **Agent runtime** (`AgentRuntimeProofs`): `TypeOK`, `EnvBelongsToRun`,
  `RunRestoresEnv`, `InstructionGivenOnce`, `NewestInstructionsStay`. `RunInv`
  ties the lock to the stages (no call waits twice, who runs is at its head) and
  says that the environment is the process's own when nothing is saved;
  `InstructionInv` keeps the pending list increasing and disjoint from what was
  given or evicted.
- **Database change trigger** (`DBChangeProofs`): `TypeOK`, `OldestFirst`, `EveryEventOnce`. The places
  an event can be in (line, buffer, batch, retry queue, hand of the retry task, dropped, each fate)
  are one function, `Where`, and the invariant says that it partitions the events that arrived;
  a step moves a set of events from one place to another, which one lemma covers. That a place
  that is a sequence gives up exactly what it hands over needs `OrderInv` (line and
  buffer increase) and `Apart` (no two retry items share an event); `RetryInv` says that a
  stopped retry task has nothing in hand.
- **Cron trigger** (`CronProofs`): `TypeOK`, `RunsGuarded`, `DailyLimitWhenSeen`, `BreakerLatches`.
  `OneFire` (fires take turns) makes the slot a lock; `ClosedInv` follows from it, because only
  the fire that evaluates can open the breaker. `RanInv` ties the mark of a run to its stage, so that
  the day's runs are counted once, stored or not. `LatchInv` says that an open breaker
  has a full window of stored records and that no run of the agent has succeeded since it opened.
- **Filter** (`VisibilityProofs`): `TypeOK`, `OneTrialPerRecovery`, `ReservationsFit`.
  `LedgerInv` says that what was not accepted is not stored.
  `AskInv` bounds the cache (who asks found no entry, and the run lock lets nobody else add one);
  `TrialInv` and `SureInv` say that an open breaker whose timeout has passed has had no trial, and that
  who is sure the last calls failed does not close it. `ReservationsFit` is inductive with
  the types: the lock of the budget makes reading the reservations and adding one a single step.
- **API trigger** (`APIProofs`): `TypeOK`, `StopSettlesRuns`, `AnswersGoForward`. `TableOK` has an id in the
  table once, whatever is evicted, moved or written again (`Drawn`: a new table takes entries from
  the old one, each once). `TrackInv` says that a live task is late, or tracked by a server that is up, or
  doomed while `stop` waits. `OutcomeInv` says that an entry has an outcome exactly when its task
  has reported, and that what a question has read is not contradicted by the table;
  `ToldInv` says the same of what a client was told, which `AnswersGoForward` needs for a question
  that was read before the outcome and answered after it.
- **Webhook trigger** (`WebhookProofs`): `TypeOK`, `OneRunPerKey`. `HolderInv` makes a locked lock and the
  request that runs under it name each other, and `WaiterInv` has a waiting request in the queue of its own
  lock, once, and in no other. `TableInv` is what mutual exclusion rests on: every request under
  way for a key whose lock was not lost has the lock the table shows for it, so two runs of
  the key hold the same lock. It is kept because a lock leaves the table only when it is unlocked, and
  whoever waits for it then puts its key among the `lost`. `TriesInv` counts: the runs of a
  key are at most the attempts of the request that runs it, which found no entry; without such a request
  and without an entry the key was never run since it was last forgotten. That a new lock
  is not one in use (`LockForFacts`) is a counting argument: the locks in use belong to other
  keys of the table or to other requests, fewer than there are names.

The lemmas on sequences (`RangeAppend`, `SplitFacts`, `IncreasingAppend`, ...) stand at the head of the modules that use
them and rest on the library's `SequenceTheorems`; `WithoutFacts` says which elements `Without` leaves and
that a sequence without repetitions stays so; nothing proved here needs their order.

Every invariant and every action property of a passing run is a theorem. Only model-checked: all liveness
(`EventuallySettled`, `StopTerminates`, `EventuallyHandled`, `StopCompletes`,
`PauseTakesEffect`, `EveryCallEnds`, `EventuallyTaken`, `RetriesEnd`, `SlotComesBack`, `EveryRequestEnds`:
TLAPS cannot handle fairness and `ENABLED`) and the four violations. Out of the prover's reach altogether: induction over
data and recursive operators, among them `SelectSeq`, which the standard module defines by recursion; the modules
that are proved about use functions, folds, removal at a place and `Without`, which finds the place of an
element by counting.

## 5. Not modelled

Read-only queries, formatting, redaction, metrics, tracing and logging; prompts
and model calls; external services beyond "answers or fails". Components with
status `not_modelled` in `PROJECT.json` each have their reason there. Known
behaviours outside the models:

- Notifications sent while the database connection is down are not delivered by
  PostgreSQL and not looked for afterwards (`triggers/db_change/adapter.py:111`).
- The CLI's database-backed signal state (`triggers/signal/state.py:157`), separate from the
  application's in-memory one: its bound on instructions is count, delete and insert without a lock.
- In the batch mode nothing but later events flushes an incomplete batch
  (`db_change/aggregator.py:45`; `flush()` has no caller), so `EventuallyTaken` leaves that mode out.
- `QueueTrigger.start` sets `_running` before it connects: after a failed connect the trigger is running
  without workers until `stop` (a step of the model; no property asks it to recover by itself).
- Synchronous API requests and the token buckets of its rate limits: one decision per
  request, without an await between reading and writing a bucket.
- `governance/proxy.py` (nothing creates a `GovernanceProxy`), `refund_reservation` and
  `on_capability_success` (no callers), and the classes of `cron.py` nothing uses. Their
  steps would be behaviours the program does not have.
- Tool execution below "returned or failed": capability handlers are wrapped, a
  ledger error after a handler has run looks like a failed call to the language model, and
  what it does next is outside any model.

Most of the repository's lines are command line, hub, console, parsing, prompts and
registries, which have no protocol between actors. The modules cover the state machines; a
larger share of the lines would come from code there is nothing to ask about.

## 6. Plan

In this order; each step is a component module with an MC module, a run and, where
the invariant is within reach, proofs.

1. **Database-backed signal state** as an alternative to the in-memory one, with
   count, delete and insert as separate steps; which of `AgentRuntime`'s
   properties survive.
2. **Tool execution**: the decision loop refined from one step to model and tool
   calls, composed with `AgentRuntime` and `Visibility`.
