------------------------------- MODULE Ledger -------------------------------
(***************************************************************************)
(* The governance ledger (src/owlclaw/governance/ledger.py): a bounded     *)
(* asyncio queue filled by record_execution, and one background writer     *)
(* task that collects batches and commits them to the database, retries a  *)
(* failed commit with a backoff and finally writes to a fallback log.      *)
(*                                                                         *)
(* A record is named by its place in the order of record_execution calls.  *)
(* One action is what the event loop runs between two awaits.              *)
(***************************************************************************)
EXTENDS Naturals, Sequences, Functions

CONSTANTS QueueMax,     \* queue_maxsize
          BatchSize,    \* batch_size
          MaxRetries,   \* _flush_max_retries
          MaxRecords,   \* bound: record_execution calls
          MaxStops      \* bound: stop() calls

ASSUME LedgerAssumption ==
  /\ QueueMax \in Nat \ {0}
  /\ BatchSize \in Nat \ {0}
  /\ MaxRetries \in Nat \ {0}
  /\ MaxRecords \in Nat
  /\ MaxStops \in Nat

VARIABLES
  accepted,     \* number of records accepted so far
  queue,        \* _write_queue
  writer,       \* where the writer task is suspended
  batch,        \* the writer's local batch
  attempt,      \* attempt of the running _flush_batch
  cause,        \* the branch of _background_writer that called _flush_batch
  stopping,     \* a stop() call is awaiting the writer task
  stops,        \* number of stop() calls so far
  swallows,     \* asyncio.wait_for drops a cancel that races with a result
  db,           \* records committed to ledger_records
  batchEnds,    \* the last record of every batch in db
  fallback,     \* records written to the fallback log
  shed,         \* records dropped by a full queue (logged as a warning)
  unwritable,   \* records the fallback log could not take (logged as an error)
  abandoned,    \* records in the batch of a writer cancelled outside its try
  ambiguous     \* records of a commit whose outcome the writer did not learn

sinks == <<db, batchEnds, fallback, shed, unwritable, abandoned, ambiguous>>
vars == <<accepted, queue, writer, batch, attempt, cause, stopping, stops,
          swallows, sinks>>

Records == 1..MaxRecords
WriterStates == {"stopped", "waiting", "committing", "backoff"}
FlushCauses == {"full", "timeout", "cancel"}

TypeOK ==
  /\ accepted \in 0..MaxRecords
  /\ queue \in Seq(Records) /\ Len(queue) <= QueueMax
  /\ writer \in WriterStates
  /\ batch \in Seq(Records) /\ Len(batch) <= BatchSize
  /\ attempt \in 1..MaxRetries
  /\ cause \in FlushCauses
  /\ stopping \in BOOLEAN
  /\ stops \in 0..MaxStops
  /\ swallows \in BOOLEAN
  /\ db \in SUBSET Records
  /\ batchEnds \in SUBSET Records
  /\ fallback \in SUBSET Records
  /\ shed \in SUBSET Records
  /\ unwritable \in SUBSET Records
  /\ abandoned \in SUBSET Records
  /\ ambiguous \in SUBSET Records

-----------------------------------------------------------------------------
Init ==
  /\ accepted = 0
  /\ queue = <<>>
  /\ writer = "stopped"
  /\ batch = <<>>
  /\ attempt = 1
  /\ cause = "full"
  /\ stopping = FALSE
  /\ stops = 0
  /\ swallows \in BOOLEAN       \* TRUE before Python 3.12, FALSE from then on
  /\ db = {} /\ batchEnds = {} /\ fallback = {} /\ shed = {}
  /\ unwritable = {} /\ abandoned = {} /\ ambiguous = {}

(* Mutant of RecordExecution: a new record overtakes the waiting ones.     *)
RecordExecutionInFront ==
  /\ accepted < MaxRecords
  /\ accepted' = accepted + 1
  /\ Len(queue) < QueueMax
  /\ queue' = <<accepted'>> \o queue
  /\ UNCHANGED <<writer, batch, attempt, cause, stopping, stops, swallows, sinks>>

(* record_execution: a full queue gives up its oldest record first.        *)
RecordExecution ==
  /\ accepted < MaxRecords
  /\ accepted' = accepted + 1
  /\ \/ /\ Len(queue) < QueueMax
        /\ queue' = Append(queue, accepted')
        /\ UNCHANGED shed
     \/ /\ Len(queue) = QueueMax
        /\ queue' = Append(Tail(queue), accepted')
        /\ shed' = shed \cup {Head(queue)}
  /\ UNCHANGED <<writer, batch, attempt, cause, stopping, stops, swallows,
                 db, batchEnds, fallback, unwritable, abandoned, ambiguous>>

-----------------------------------------------------------------------------
(* start: a writer that is still running is left alone.                    *)
Start ==
  /\ writer = "stopped"
  /\ writer' = "waiting"
  /\ batch' = <<>>
  /\ UNCHANGED <<accepted, queue, attempt, cause, stopping, stops, swallows,
                 sinks>>

BeginFlush(why) ==
  /\ writer' = "committing"
  /\ attempt' = 1
  /\ cause' = why

(* The task ends: its local batch is gone, and stop() returns.             *)
WriterEnds ==
  /\ writer' = "stopped"
  /\ batch' = <<>>
  /\ attempt' = 1
  /\ stopping' = FALSE
  /\ UNCHANGED cause

(* Mutant of Drained: the drain loop does not look at batch_size.          *)
DrainedUnbounded == Len(queue)

(* How many records one round of get and drain moves into the batch.       *)
Drained ==
  LET room == BatchSize - Len(batch)
  IN  IF Len(queue) < room THEN Len(queue) ELSE room

(* Mutant of Receive: the batch is taken from the newest end of the queue. *)
ReceiveNewestFirst ==
  /\ writer = "waiting"
  /\ queue # <<>>
  /\ batch' = batch \o SubSeq(queue, Len(queue) - Drained + 1, Len(queue))
  /\ queue' = SubSeq(queue, 1, Len(queue) - Drained)
  /\ IF Len(batch) + Drained = BatchSize
       THEN BeginFlush("full")
       ELSE UNCHANGED <<writer, attempt, cause>>

(* The get of the writer loop returns: drain, and flush a full batch.      *)
Receive ==
  /\ writer = "waiting"
  /\ queue # <<>>
  /\ batch' = batch \o SubSeq(queue, 1, Drained)
  /\ queue' = SubSeq(queue, Drained + 1, Len(queue))
  /\ IF Len(batch) + Drained = BatchSize
       THEN BeginFlush("full")
       ELSE UNCHANGED <<writer, attempt, cause>>

TakeRecords ==
  /\ Receive
  /\ UNCHANGED <<accepted, stopping, stops, swallows, sinks>>

(* Mutant of FlushInterval: only full batches are ever flushed.            *)
FlushIntervalFullOnly ==
  /\ writer = "waiting"
  /\ Len(batch) = BatchSize
  /\ BeginFlush("timeout")
  /\ UNCHANGED <<accepted, queue, batch, stopping, stops, swallows, sinks>>

(* wait_for times out: what has been collected is flushed.                 *)
FlushInterval ==
  /\ writer = "waiting"
  /\ batch # <<>>
  /\ BeginFlush("timeout")
  /\ UNCHANGED <<accepted, queue, batch, stopping, stops, swallows, sinks>>

(* Mutants of FlushReturns: the branch forgets `batch = []`; the cancel    *)
(* handler forgets to re-raise.                                            *)
FlushReturnsKeepsBatch ==
  IF cause = "cancel"
    THEN WriterEnds
    ELSE /\ writer' = "waiting"
         /\ attempt' = 1
         /\ UNCHANGED <<batch, cause, stopping>>

FlushReturnsNoRaise ==
  /\ writer' = "waiting"
  /\ batch' = <<>>
  /\ attempt' = 1
  /\ UNCHANGED <<cause, stopping>>

(* _flush_batch returns to the branch that called it, which empties the    *)
(* batch or, on a cancel, re-raises.                                       *)
FlushReturns ==
  IF cause = "cancel"
    THEN WriterEnds
    ELSE /\ writer' = "waiting"
         /\ batch' = <<>>
         /\ attempt' = 1
         /\ UNCHANGED <<cause, stopping>>

(* The commit takes effect. It is atomic, gives all its records the same   *)
(* created_at, and a record's primary key admits it only once.             *)
StoreBatch ==
  /\ Range(batch) \cap db = {}
  /\ db' = db \cup Range(batch)
  /\ batchEnds' = batchEnds \cup {batch[Len(batch)]}

CommitSucceeds ==
  /\ writer = "committing"
  /\ StoreBatch
  /\ FlushReturns
  /\ UNCHANGED <<accepted, queue, stops, swallows,
                 fallback, shed, unwritable, abandoned, ambiguous>>

(* _write_to_fallback_log: each record is written, or its OSError logged.  *)
WriteToFallbackLog ==
  \E written \in SUBSET Range(batch) :
     /\ fallback' = fallback \cup written
     /\ unwritable' = unwritable \cup (Range(batch) \ written)

(* The attempt raised: back off, or use the fallback log after the last.   *)
AttemptFails ==
  \/ /\ attempt < MaxRetries
     /\ writer' = "backoff"
     /\ UNCHANGED <<batch, attempt, cause, stopping, fallback, unwritable>>
  \/ /\ attempt = MaxRetries
     /\ WriteToFallbackLog
     /\ FlushReturns

(* The session or the commit raised and nothing was stored.                *)
CommitFails ==
  /\ writer = "committing"
  /\ AttemptFails
  /\ UNCHANGED <<accepted, queue, stops, swallows, db, batchEnds, shed, abandoned,
                 ambiguous>>

(* The commit took effect, but its answer was lost and the await raised.   *)
CommitAnswerLost ==
  /\ writer = "committing"
  /\ StoreBatch
  /\ ambiguous' = ambiguous \cup Range(batch)
  /\ AttemptFails
  /\ UNCHANGED <<accepted, queue, stops, swallows, shed, abandoned>>

BackoffEnds ==
  /\ writer = "backoff"
  /\ writer' = "committing"
  /\ attempt' = attempt + 1
  /\ UNCHANGED <<accepted, queue, batch, cause, stopping, stops, swallows,
                 sinks>>

-----------------------------------------------------------------------------
(* stop: cancel the task and await it. The cancel arrives where the writer *)
(* is suspended; a commit on its way may still take effect in the database.*)
CommitInFlight ==
  \/ UNCHANGED <<db, batchEnds, ambiguous>>
  \/ /\ writer = "committing"
     /\ StoreBatch
     /\ ambiguous' = ambiguous \cup Range(batch)

Stop ==
  /\ writer # "stopped"
  /\ stops < MaxStops
  /\ stops' = stops + 1

(* Mutant of StopInTry: the handler re-raises without a flush.             *)
StopInTryNoFlush ==
  /\ Stop
  /\ writer = "waiting" \/ cause = "full"
  /\ CommitInFlight
  /\ WriterEnds
  /\ UNCHANGED <<accepted, queue, swallows, fallback, shed, unwritable,
                 abandoned>>

(* Inside the try: the handler flushes the batch before it re-raises.      *)
StopInTry ==
  /\ Stop
  /\ writer = "waiting" \/ cause = "full"
  /\ CommitInFlight
  /\ IF batch = <<>>
       THEN WriterEnds
       ELSE /\ BeginFlush("cancel")
            /\ stopping' = TRUE
            /\ UNCHANGED batch
  /\ UNCHANGED <<accepted, queue, swallows, fallback, shed, unwritable,
                 abandoned>>

(* Inside a handler, of the timeout or of an earlier cancel: no handler is *)
(* left to flush the batch.                                                *)
StopInHandler ==
  /\ Stop
  /\ writer \in {"committing", "backoff"}
  /\ cause \in {"timeout", "cancel"}
  /\ CommitInFlight
  /\ abandoned' = abandoned \cup (Range(batch) \ db')
  /\ WriterEnds
  /\ UNCHANGED <<accepted, queue, swallows, fallback, shed, unwritable>>

(* The get completed in the same round of the loop: an older wait_for      *)
(* returns its record, the cancel is gone and stop() goes on waiting.      *)
StopSwallowed ==
  /\ swallows
  /\ Stop
  /\ Receive
  /\ stopping' = TRUE
  /\ UNCHANGED <<accepted, swallows, sinks>>

Next ==
  \/ RecordExecution
  \/ Start
  \/ TakeRecords
  \/ FlushInterval
  \/ CommitSucceeds
  \/ CommitFails
  \/ CommitAnswerLost
  \/ BackoffEnds
  \/ StopInTry
  \/ StopInHandler
  \/ StopSwallowed

Spec == Init /\ [][Next]_vars

-----------------------------------------------------------------------------
(* The event loop runs a task that can run, timers fire, and the database  *)
(* answers or fails. Nobody owes the ledger a start, a record or a stop.   *)
WriterStep ==
  \/ TakeRecords
  \/ CommitSucceeds \/ CommitFails \/ CommitAnswerLost
  \/ BackoffEnds

Fairness == WF_vars(WriterStep) /\ WF_vars(FlushInterval)

FairSpec == Spec /\ Fairness

-----------------------------------------------------------------------------
InHand == Range(queue) \cup Range(batch)
GivenUp == fallback \cup shed \cup unwritable \cup abandoned
Settled == db \cup GivenUp

(* No record disappears without a trace: it is in the queue or the writer's*)
(* batch, it is stored, or it is where the code reports it: shed, in the   *)
(* fallback log, refused by that log, or with a cancelled writer. It is    *)
(* about the branches of _background_writer that reset the batch.          *)
NoSilentLoss == 1..accepted \subseteq InHand \cup Settled

(* A record has one fate. Only a commit whose answer was lost can put a    *)
(* record both into the database and into the fallback log, although every *)
(* retry and the cancel handler flush the same batch again.                *)
SettledOnce ==
  /\ db \cap GivenUp \subseteq ambiguous
  /\ (Range(queue) \cup shed) \cap (db \cup fallback \cup unwritable \cup abandoned) = {}
  /\ fallback \cap unwritable = {}
  /\ abandoned \cap (db \cup fallback \cup unwritable) = {}

(* A recorded execution does not stay in memory for ever: the full batch,  *)
(* the flush interval or the bounded retries get it out, unless the writer *)
(* is not running.                                                         *)
EventuallySettled ==
  \A r \in Records : (r \in InHand) ~> (r \notin InHand \/ writer = "stopped")

(* stop() returns, whatever the database does, on an interpreter whose     *)
(* wait_for lets the cancel through.                                       *)
StopTerminates == (stopping /\ ~swallows) ~> ~stopping

(* The ledger keeps the promise of AuditLog: in order and nothing vanishes.*)
Promise ==
  INSTANCE AuditLog WITH pending <- InHand,
                         stored <- db,
                         givenUp <- GivenUp \ db

ImplementsAuditLog == Promise!Spec

(* What the modules that record and query are built on is what the writer  *)
(* does: LedgerView, with all days alike.                                  *)
View ==
  INSTANCE LedgerView WITH records <- [r \in 1..accepted |-> r],
                           storedOn <- [r \in Records |-> IF r \in db THEN 1 ELSE 0]

ImplementsView ==
  View!LedgerInit /\ [][View!LedgerNext(Records, {1})]_(View!ledgerVars)
=============================================================================
