---------------------------- MODULE QueueTrigger ----------------------------
(***************************************************************************)
(* The queue trigger (src/owlclaw/triggers/queue/trigger.py): a number of  *)
(* worker tasks that take messages from the adapter, ask governance, look  *)
(* the message up in the idempotency store, trigger the agent with         *)
(* retries, remember the message and settle it with the adapter.           *)
(*                                                                         *)
(* A worker's state is the await it is suspended at. The configuration     *)
(* (workers, ack policy, deduplication) is chosen in the initial state.    *)
(***************************************************************************)
EXTENDS KafkaAdapter, FiniteSets

CONSTANTS MaxWorkers,   \* bound: workers of a configuration
          DedupOf,      \* x-dedup-key, or the message id
          Unparsable,   \* messages the parser rejects with a ParseError
          Breaking,     \* messages on which it raises anything else: no body
          MaxRetries,   \* max_retries
          MaxStarts,    \* bound: start() calls
          MaxFaults     \* bound: failing calls, crashes, expiries

ASSUME QueueAssumption ==
  /\ MaxWorkers \in Nat \ {0}
  /\ DedupOf \in [Messages -> Ids]
  /\ Unparsable \subseteq Messages
  /\ Breaking \subseteq Messages
  /\ MaxRetries \in Nat
  /\ MaxStarts \in Nat
  /\ MaxFaults \in Nat

VARIABLES
  concurrency,  \* config.concurrency: workers 1..concurrency are used
  ackPolicy,    \* config.ack_policy
  dedup,        \* config.enable_dedup with a store
  starts,       \* start() calls so far
  running,      \* _running
  paused,       \* _paused
  pc,           \* where each worker is suspended
  cur,          \* offset of the record each worker holds, 0 for none
  attempt,      \* attempts to trigger the agent so far, the running one included
  how,          \* the adapter call that settles the message
  store,        \* keys in the idempotency store (survives a restart)
  runs,         \* agent runs that completed, by message
  done,         \* offsets processed, dropped as repeats or settled by policy
  dropped,      \* offsets acknowledged as repeats
  errored,      \* offsets given up with an exception in the log
  faults        \* failures so far

configVars == <<concurrency, ackPolicy, dedup>>
workerVars == <<pc, cur, attempt, how>>
outcomeVars == <<done, dropped, errored>>
vars == <<adapterVars, configVars, starts, running, paused, workerVars, store, runs,
          outcomeVars, faults>>

Workers == 1..MaxWorkers
AckPolicies == {"ack", "nack", "requeue", "dlq"}
Stages == {"off", "fetch", "held", "governance", "exists", "trigger",
           "remember", "settle"}

TypeOK ==
  /\ AdapterTypeOK
  /\ concurrency \in Workers
  /\ ackPolicy \in AckPolicies
  /\ dedup \in BOOLEAN
  /\ starts \in 0..MaxStarts
  /\ running \in BOOLEAN /\ paused \in BOOLEAN
  /\ pc \in [Workers -> Stages]
  /\ cur \in [Workers -> 0..MaxLog]
  /\ attempt \in [Workers -> 1..(MaxRetries + 1)]
  /\ how \in [Workers -> AckPolicies]
  /\ store \in SUBSET Ids
  /\ runs \in [Messages -> Nat]
  /\ done \in SUBSET Offsets
  /\ dropped \in SUBSET Offsets
  /\ errored \in SUBSET Offsets
  /\ faults \in 0..MaxFaults

-----------------------------------------------------------------------------
Init ==
  /\ AdapterInit
  /\ concurrency \in Workers
  /\ ackPolicy \in AckPolicies
  /\ dedup \in BOOLEAN
  /\ starts = 0
  /\ running = FALSE /\ paused = FALSE
  /\ pc = [w \in Workers |-> "off"]
  /\ cur = [w \in Workers |-> 0]
  /\ attempt = [w \in Workers |-> 1]
  /\ how = [w \in Workers |-> "ack"]
  /\ store = {}
  /\ runs = [m \in Messages |-> 0]
  /\ done = {} /\ dropped = {} /\ errored = {}
  /\ faults = 0

(* A call to a service fails, a process dies, a key expires.               *)
Fault ==
  /\ faults < MaxFaults
  /\ faults' = faults + 1

Produce ==
  /\ \E m \in Messages : Publish(m)
  /\ UNCHANGED <<configVars, starts, running, paused, workerVars, store, runs,
                 outcomeVars, faults>>

-----------------------------------------------------------------------------
(* Lifecycle                                                               *)

AllOff == \A w \in Workers : pc[w] = "off"

BeginStart ==
  /\ ~running /\ AllOff
  /\ starts < MaxStarts
  /\ starts' = starts + 1
  /\ running' = TRUE /\ paused' = FALSE

(* start of a trigger with a fresh adapter, after any earlier one stopped. *)
Start ==
  /\ BeginStart
  /\ Connect
  /\ pc' = [w \in Workers |-> IF w <= concurrency THEN "fetch" ELSE "off"]
  /\ UNCHANGED <<configVars, cur, attempt, how, store, runs, outcomeVars, faults>>

(* connect raises after _running was set: no worker is ever created.       *)
StartFails ==
  /\ BeginStart
  /\ Fault
  /\ UNCHANGED <<adapterVars, configVars, workerVars, store, runs, outcomeVars>>

(* stop closes the adapter first and then waits for the workers.           *)
Stop ==
  /\ running
  /\ running' = FALSE /\ paused' = FALSE
  /\ Disconnect
  /\ UNCHANGED <<configVars, starts, workerVars, store, runs, outcomeVars, faults>>

Pause ==
  /\ running /\ ~paused
  /\ paused' = TRUE
  /\ UNCHANGED <<adapterVars, configVars, starts, running, workerVars, store, runs,
                 outcomeVars, faults>>

Resume ==
  /\ paused
  /\ paused' = FALSE
  /\ UNCHANGED <<adapterVars, configVars, starts, running, workerVars, store, runs,
                 outcomeVars, faults>>

DedupKey(o) == DedupOf[log[o]]

Busy(w) == pc[w] \notin {"off", "fetch"}
InProcess == {cur[w] : w \in {v \in Workers : Busy(v)}}

(* The process dies: the workers and what the adapter remembered are gone. *)
Crash ==
  /\ running \/ ~AllOff
  /\ Fault
  /\ running' = FALSE /\ paused' = FALSE
  /\ Disconnect
  /\ pc' = [w \in Workers |-> "off"]
  /\ cur' = [w \in Workers |-> 0]
  /\ attempt' = [w \in Workers |-> 1]
  /\ how' = [w \in Workers |-> "ack"]
  /\ UNCHANGED <<configVars, starts, store, runs, outcomeVars>>

-----------------------------------------------------------------------------
(* Worker steps                                                            *)

Goto(w, stage) == pc' = [pc EXCEPT ![w] = stage]

(* The worker is done with its record and asks for the next one, or ends.  *)
LetGo(w, stage) ==
  /\ Goto(w, stage)
  /\ cur' = [cur EXCEPT ![w] = 0]
  /\ attempt' = [attempt EXCEPT ![w] = 1]
  /\ how' = [how EXCEPT ![w] = "ack"]

SettleBy(w, call) ==
  /\ Goto(w, "settle")
  /\ how' = [how EXCEPT ![w] = call]

(* What _process_message does with the record o up to its first await. An  *)
(* exception of the parser other than ParseError ends it: the loop counts  *)
(* it and goes on, and the record is settled by nobody.                    *)
BeginProcessing(w, o) ==
  \/ /\ log[o] \in Breaking
     /\ LetGo(w, "fetch")
     /\ errored' = errored \cup {o}
  \/ /\ log[o] \notin Breaking
     /\ cur' = [cur EXCEPT ![w] = o]
     /\ attempt' = [attempt EXCEPT ![w] = 1]
     /\ IF log[o] \in Unparsable
          THEN SettleBy(w, "dlq")
          ELSE Goto(w, "governance") /\ UNCHANGED how
     /\ UNCHANGED errored

(* Mutant of Receive: a message that arrives during a pause is skipped.    *)
ReceiveSkipsWhenPaused(w) ==
  /\ pc[w] = "fetch"
  /\ running
  /\ Fetch(position)
  /\ IF paused
       THEN UNCHANGED <<workerVars, errored>>
       ELSE BeginProcessing(w, position)
  /\ UNCHANGED <<configVars, starts, running, paused, store, runs, done, dropped, faults>>

(* The worker takes a record and holds it while paused.                    *)
Hold(w, o) ==
  /\ Goto(w, "held")
  /\ cur' = [cur EXCEPT ![w] = o]
  /\ UNCHANGED <<attempt, how, errored>>

(* The consume loop receives a message.                                    *)
Receive(w) ==
  /\ pc[w] = "fetch"
  /\ running
  /\ Fetch(position)
  /\ IF paused THEN Hold(w, position) ELSE BeginProcessing(w, position)
  /\ UNCHANGED <<configVars, starts, running, paused, store, runs, done, dropped, faults>>

Release(w) ==
  /\ pc[w] = "held"
  /\ running /\ ~paused
  /\ BeginProcessing(w, cur[w])
  /\ UNCHANGED <<adapterVars, configVars, starts, running, paused, store, runs, done,
                 dropped, faults>>

(* The adapter's stream of records raises: the loop is over for this worker*)
(* and nobody starts another, while the trigger goes on as running.        *)
ConsumeRaises(w) ==
  /\ pc[w] = "fetch"
  /\ LetGo(w, "off")
  /\ \/ FetchFails /\ Fault /\ UNCHANGED errored
     \/ FetchUnreadable(position) /\ errored' = errored \cup {position} /\ UNCHANGED faults
  /\ UNCHANGED <<configVars, starts, running, paused, store, runs, done, dropped>>

(* Mutant of LeaveLoop: a worker that holds a message does not look at     *)
(* _running.                                                               *)
LeaveLoopOnlyIdle(w) ==
  /\ ~connected /\ ~running
  /\ pc[w] = "fetch"
  /\ LetGo(w, "off")
  /\ UNCHANGED <<adapterVars, configVars, starts, running, paused, store, runs,
                 outcomeVars, faults>>

(* Once stopped, the loop ends: the stream of records is over, and a held  *)
(* message is let go of without being settled.                             *)
LeaveLoop(w) ==
  /\ ~connected /\ ~running
  /\ pc[w] \in {"fetch", "held"}
  /\ LetGo(w, "off")
  /\ UNCHANGED <<adapterVars, configVars, starts, running, paused, store, runs,
                 outcomeVars, faults>>

(* _check_governance: a rejected message is settled by the ack policy. An  *)
(* unavailable governance counts as allowed or as rejected, by config.     *)
Govern(w) ==
  /\ pc[w] = "governance"
  /\ \/ Goto(w, IF dedup THEN "exists" ELSE "trigger") /\ UNCHANGED how
     \/ SettleBy(w, ackPolicy)
  /\ UNCHANGED <<adapterVars, configVars, starts, running, paused, cur, attempt, store,
                 runs, outcomeVars, faults>>

(* Mutant of CheckSeen: the key is reserved in the store before the agent   *)
(* has run.                                                                *)
CheckSeenReserves(w) ==
  /\ pc[w] = "exists"
  /\ IF DedupKey(cur[w]) \in store
       THEN /\ SettleBy(w, "ack")
            /\ dropped' = dropped \cup {cur[w]}
            /\ done' = done \cup {cur[w]}
       ELSE Goto(w, "trigger") /\ UNCHANGED <<how, dropped, done>>
  /\ store' = store \cup {DedupKey(cur[w])}
  /\ UNCHANGED <<adapterVars, configVars, starts, running, paused, cur, attempt, runs,
                 errored, faults>>

(* The idempotency store answers whether it has the key ...                *)
CheckSeen(w) ==
  /\ pc[w] = "exists"
  /\ IF DedupKey(cur[w]) \in store
       THEN /\ SettleBy(w, "ack")
            /\ dropped' = dropped \cup {cur[w]}
            /\ done' = done \cup {cur[w]}
       ELSE Goto(w, "trigger") /\ UNCHANGED <<how, dropped, done>>
  /\ UNCHANGED <<adapterVars, configVars, starts, running, paused, cur, attempt, store,
                 runs, errored, faults>>

(* ... or fails, which counts as not having it.                            *)
CheckSeenFails(w) ==
  /\ pc[w] = "exists"
  /\ Fault
  /\ Goto(w, "trigger")
  /\ UNCHANGED <<adapterVars, configVars, starts, running, paused, cur, attempt, how,
                 store, runs, outcomeVars>>

(* trigger_event returns.                                                  *)
TriggerReturns(w) ==
  /\ pc[w] = "trigger"
  /\ runs' = [runs EXCEPT ![log[cur[w]]] = @ + 1]
  /\ done' = done \cup {cur[w]}
  /\ IF dedup
       THEN Goto(w, "remember") /\ UNCHANGED how
       ELSE SettleBy(w, "ack")
  /\ UNCHANGED <<adapterVars, configVars, starts, running, paused, cur, attempt, store,
                 dropped, errored, faults>>

(* Mutant of TriggerRaises: the attempts are not counted.                  *)
TriggerRaisesForEver(w) ==
  /\ pc[w] = "trigger"
  /\ attempt' = [attempt EXCEPT ![w] = IF @ = 1 THEN MaxRetries + 1 ELSE 1]
  /\ UNCHANGED <<adapterVars, configVars, starts, running, paused, pc, cur, how, store,
                 runs, outcomeVars, faults>>

(* Mutant of TriggerRaises: one retry too many.                            *)
TriggerRaisesOnceMore(w) ==
  /\ pc[w] = "trigger"
  /\ IF attempt[w] <= MaxRetries + 1
       THEN attempt' = [attempt EXCEPT ![w] = @ + 1] /\ UNCHANGED <<pc, how>>
       ELSE SettleBy(w, ackPolicy) /\ UNCHANGED attempt
  /\ UNCHANGED <<adapterVars, configVars, starts, running, paused, cur, store, runs,
                 outcomeVars, faults>>

(* trigger_event raises: try again after a backoff, or settle by policy.   *)
TriggerRaises(w) ==
  /\ pc[w] = "trigger"
  /\ IF attempt[w] <= MaxRetries
       THEN attempt' = [attempt EXCEPT ![w] = @ + 1] /\ UNCHANGED <<pc, how>>
       ELSE SettleBy(w, ackPolicy) /\ UNCHANGED attempt
  /\ UNCHANGED <<adapterVars, configVars, starts, running, paused, cur, store, runs,
                 outcomeVars, faults>>

(* Mutant of Remember: the agent ran, but the key is not stored.           *)
RememberNothing(w) ==
  /\ pc[w] = "remember"
  /\ SettleBy(w, "ack")
  /\ UNCHANGED <<adapterVars, configVars, starts, running, paused, cur, attempt, store,
                 runs, outcomeVars, faults>>

(* The key is stored for the idempotency window; an error is swallowed.    *)
Remember(w) ==
  /\ pc[w] = "remember"
  /\ SettleBy(w, "ack")
  /\ store' = store \cup {DedupKey(cur[w])}
  /\ UNCHANGED <<adapterVars, configVars, starts, running, paused, cur, attempt, runs,
                 outcomeVars, faults>>

RememberFails(w) ==
  /\ pc[w] = "remember"
  /\ Fault
  /\ SettleBy(w, "ack")
  /\ UNCHANGED <<adapterVars, configVars, starts, running, paused, cur, attempt, store,
                 runs, outcomeVars>>

AdapterCall(call, o) ==
  \/ call = "ack" /\ Ack(o)
  \/ call = "nack" /\ Nack(o)
  \/ call = "requeue" /\ Requeue(o)
  \/ call = "dlq" /\ SendToDlq(o)

(* The adapter call that settles the message returns, or raises: a failing *)
(* broker, or a producer that stop has closed. The loop counts the error   *)
(* and goes on to the next message.                                        *)
Settle(w) ==
  /\ pc[w] = "settle"
  /\ AdapterCall(how[w], cur[w])
  /\ LetGo(w, "fetch")
  /\ done' = done \cup {cur[w]}
  /\ UNCHANGED <<configVars, starts, running, paused, store, runs,
                 dropped, errored, faults>>

SettleRaises(w) ==
  /\ pc[w] = "settle"
  /\ \/ how[w] = "ack" /\ AckFails(cur[w])
     \/ how[w] = "requeue" /\ RequeueFails(cur[w])
     \/ how[w] = "dlq" /\ UNCHANGED adapterVars
  /\ IF connected THEN Fault ELSE UNCHANGED faults
  /\ LetGo(w, "fetch")
  /\ errored' = errored \cup {cur[w]}
  /\ UNCHANGED <<configVars, starts, running, paused, store, runs,
                 done, dropped>>

(* The idempotency window of a key ends.                                   *)
Expire ==
  /\ Fault
  /\ \E k \in store : store' = store \ {k}
  /\ UNCHANGED <<adapterVars, configVars, starts, running, paused, workerVars, runs,
                 outcomeVars>>

WorkerStep(w) ==
  \/ Receive(w) \/ Release(w) \/ ConsumeRaises(w) \/ LeaveLoop(w)
  \/ Govern(w)
  \/ CheckSeen(w) \/ CheckSeenFails(w)
  \/ TriggerReturns(w) \/ TriggerRaises(w)
  \/ Remember(w) \/ RememberFails(w)
  \/ Settle(w) \/ SettleRaises(w)

Next ==
  \/ Produce
  \/ Start \/ StartFails \/ Stop \/ Pause \/ Resume \/ Crash
  \/ Expire
  \/ \E w \in Workers : WorkerStep(w)

Spec == Init /\ [][Next]_vars

-----------------------------------------------------------------------------
(* The event loop runs every worker that can run; the services it awaits   *)
(* answer or fail. Nobody owes the trigger a start, a resume or a message. *)
FairSpec == Spec /\ \A w \in Workers : WF_vars(WorkerStep(w))

-----------------------------------------------------------------------------
(* Records the consumer has passed, so that it will not deliver them again,*)
(* and that nobody has in hand or finished.                                *)
Lost == IF connected
          THEN 1..(position - 1) \ (done \cup errored \cup InProcess)
          ELSE {}

(* With one worker and a consumer that starts at the earliest record, every*)
(* record is delivered until it is finished or given up with an exception, *)
(* through stops, crashes, a worker that dies and failing acks: the offset *)
(* committed for a record covers only its predecessors.                    *)
SingleWorkerLosesNothing ==
  concurrency = 1 /\ offsetReset = "earliest" => Lost = {}

(* However many workers: nothing is lost as long as the consumer stays     *)
(* connected. A record taken off the stream stays in hand, through a pause *)
(* and all retries, until it is finished or given up with an exception.    *)
NoLossWhileConnected ==
  [][connected /\ connected' => Lost' \subseteq Lost]_vars

(* With one worker and deduplication, the agent completes at most one run  *)
(* for a message plus one for each failure: a crash between the run and the*)
(* write of its key, a failing store, an expired key. Repeats of the       *)
(* message in the log, redeliveries and requeues add none.                 *)
AgentRunsBounded ==
  concurrency = 1 /\ dedup => \A m \in Messages : runs[m] <= 1 + faults

(* Deduplication drops a record only if the agent has completed a run for a*)
(* message with its key. That may be another message: producers choose     *)
(* x-dedup-key, and without it the id counts, which may be a record key.   *)
DedupDropsOnlyRepeats ==
  \A o \in dropped : \E m \in Messages : DedupOf[m] = DedupKey(o) /\ runs[m] > 0

(* While the trigger is connected, not paused and has a worker left, every *)
(* record in the log gets finished or given up with an exception; with the *)
(* requeue policy its copy may take its place.                             *)
EventuallyHandled ==
  \A o \in Offsets :
     (connected /\ position <= o /\ o <= Len(log))
       ~> \/ o \in done \cup errored
          \/ ~connected \/ paused \/ ackPolicy = "requeue" \/ AllOff

(* stop() returns: every worker leaves its loop, also one that holds a     *)
(* message because of a pause and one in the middle of its retries.        *)
StopCompletes == ~running ~> AllOff

(* What the adapter protocol says of ack ("Acknowledge successful message  *)
(* processing"): of the records the consumer was to deliver, the committed *)
(* offset covers finished ones only.                                       *)
CommittedIsDone == offsetReset = "earliest" => 1..committed \subseteq done
=============================================================================
