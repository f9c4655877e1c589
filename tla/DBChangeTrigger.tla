-------------------------- MODULE DBChangeTrigger --------------------------
(***************************************************************************)
(* The database-change trigger (src/owlclaw/triggers/db_change/manager.py  *)
(* and adapter.py) on one channel: notifications become tasks that push    *)
(* into the aggregator, a flushed batch asks governance and triggers the   *)
(* agent, and what the agent refuses waits in a bounded queue for the      *)
(* retry task, or ends in the dead letters.                                *)
(***************************************************************************)
EXTENDS EventAggregator

CONSTANTS RetryQueueMax,  \* local_queue_max_size
          MaxAttempts,    \* max_retry_attempts
          MaxStarts       \* bound: start() calls

ASSUME DBChangeAssumption ==
  /\ RetryQueueMax \in Nat \ {0}
  /\ MaxAttempts \in Nat
  /\ MaxStarts \in Nat

VARIABLES
  arrived,      \* notifications so far
  phase,        \* of the manager and its adapter
  starts,       \* start() calls so far
  stage,        \* where the flush that holds the lock is suspended
  retryQueue,   \* _local_retry_queue
  retry,        \* where the retry task is suspended, "off" if there is none
  retried,      \* the item it has in hand
  fate          \* what became of the events, by outcome

managerVars == <<arrived, phase, starts>>
retryVars == <<retryQueue, retry, retried>>
vars == <<aggregatorVars, managerVars, stage, retryVars, fate>>

(* "oversized", "blocked", "shed" (from a full retry queue), "dead" (in    *)
(* _dlq_events) and "error" (governance raised) are logged or recorded;    *)
(* "cancelled" events went with a task that was cancelled.                 *)
Fates == {"triggered", "oversized", "blocked", "shed", "dead", "error", "cancelled"}

Items == [events : Seq(Events), attempt : 0..MaxAttempts]
NoItem == [events |-> <<>>, attempt |-> 0]

TypeOK ==
  /\ AggregatorTypeOK
  /\ arrived \in 0..MaxEvents
  /\ phase \in {"stopped", "running", "stopping", "closing"}
  /\ starts \in 0..MaxStarts
  /\ stage \in {"idle", "governance", "trigger"} /\ (stage = "idle" <=> Unlocked)
  /\ retryQueue \in Seq(Items) /\ Len(retryQueue) <= RetryQueueMax
  /\ retry \in {"off", "idle", "trigger", "sleep"}
  /\ retried \in Items
  /\ fate \in [Fates -> SUBSET Events]

Init ==
  /\ AggregatorInit
  /\ arrived = 0
  /\ phase = "stopped" /\ starts = 0
  /\ stage = "idle"
  /\ retryQueue = <<>> /\ retry = "off" /\ retried = NoItem
  /\ fate = [f \in Fates |-> {}]

EndsAs(f, E) == fate' = [fate EXCEPT ![f] = @ \cup E]

-----------------------------------------------------------------------------
(* Notifications                                                           *)

(* _on_notify makes a task, and the task lines up to push its event unless *)
(* the payload is over the size limit. Listeners are removed last in stop. *)
Notify ==
  /\ phase # "stopped"
  /\ arrived < MaxEvents
  /\ arrived' = arrived + 1
  /\ \/ line' = Append(line, arrived') /\ UNCHANGED fate
     \/ EndsAs("oversized", {arrived'}) /\ UNCHANGED line
  /\ UNCHANGED <<mode, buffer, timer, batch, byTimer, dropped, phase, starts,
                 stage, retryVars>>

PushNext ==
  /\ Push
  /\ stage' = IF batch' = <<>> THEN "idle" ELSE "governance"
  /\ UNCHANGED <<managerVars, retryVars, fate>>

DebounceWakes ==
  /\ TimerWakes
  /\ UNCHANGED <<managerVars, stage, retryVars, fate>>

DebounceFlushes ==
  /\ TimerFlushes
  /\ stage' = "governance"
  /\ UNCHANGED <<managerVars, retryVars, fate>>

-----------------------------------------------------------------------------
(* The flush that holds the lock: _on_aggregated                           *)

Batch == Range(batch)

Leave(f) ==
  /\ EndsAs(f, Batch)
  /\ FlushEnds
  /\ stage' = "idle"

Allow ==
  /\ stage = "governance"
  /\ stage' = "trigger"
  /\ UNCHANGED <<aggregatorVars, managerVars, retryVars, fate>>

Block ==
  /\ stage = "governance"
  /\ Leave("blocked")
  /\ UNCHANGED <<line, managerVars, retryVars>>

(* Nobody catches what governance raises but the logger of the task.       *)
GovernanceRaises ==
  /\ stage = "governance"
  /\ Leave("error")
  /\ UNCHANGED <<line, managerVars, retryVars>>

(* trigger_event returns; the registered handler, which runs next and still*)
(* under the lock, changes nothing here.                                   *)
AgentReturns ==
  /\ stage = "trigger"
  /\ Leave("triggered")
  /\ UNCHANGED <<line, managerVars, retryVars>>

(* Mutant of Enqueue: a full queue turns the new item away unseen.         *)
EnqueueDropsNew(item) ==
  IF Len(retryQueue) = RetryQueueMax
    THEN UNCHANGED <<retryQueue, fate>>
    ELSE retryQueue' = Append(retryQueue, item) /\ UNCHANGED fate

(* _enqueue_local_retry: a full queue gives up its oldest item. Neither get*)
(* nor put suspends here.                                                  *)
Enqueue(item) ==
  IF Len(retryQueue) = RetryQueueMax
    THEN /\ retryQueue' = Append(Tail(retryQueue), item)
         /\ EndsAs("shed", Range(Head(retryQueue).events))
    ELSE retryQueue' = Append(retryQueue, item) /\ UNCHANGED fate

(* trigger_event raises: the batch is kept for the retry task.             *)
AgentRaises ==
  /\ stage = "trigger"
  /\ Enqueue([events |-> batch, attempt |-> 0])
  /\ FlushEnds
  /\ stage' = "idle"
  /\ UNCHANGED <<line, managerVars, retry, retried>>

(* The debounce task has cancelled itself: the cancel arrives where it next*)
(* suspends. What does not suspend before, as a paused agent, goes through.*)
OwnCancelArrives ==
  /\ byTimer
  /\ Leave("cancelled")
  /\ UNCHANGED <<line, managerVars, retryVars>>

-----------------------------------------------------------------------------
(* _retry_loop                                                             *)

RetryEnds == retry' = "idle" /\ retried' = NoItem

RetryTakes ==
  /\ retry = "idle"
  /\ retryQueue # <<>>
  /\ retry' = "trigger"
  /\ retried' = Head(retryQueue)
  /\ retryQueue' = Tail(retryQueue)
  /\ UNCHANGED <<aggregatorVars, managerVars, stage, fate>>

RetryReturns ==
  /\ retry = "trigger"
  /\ EndsAs("triggered", Range(retried.events))
  /\ RetryEnds
  /\ UNCHANGED <<aggregatorVars, managerVars, stage, retryQueue>>

(* Mutant of RetryRaises: attempts are not counted.                        *)
RetryRaisesForEver ==
  /\ retry = "trigger"
  /\ retry' = "sleep"
  /\ UNCHANGED <<aggregatorVars, managerVars, stage, retryQueue, retried, fate>>

(* Mutant of RetryRaises: one attempt too many.                            *)
RetryRaisesOnceMore ==
  /\ retry = "trigger"
  /\ IF retried.attempt > MaxAttempts
       THEN EndsAs("dead", Range(retried.events)) /\ RetryEnds
       ELSE /\ retry' = "sleep"
            /\ retried' = [retried EXCEPT !.attempt = @ + 1]
            /\ UNCHANGED fate
  /\ UNCHANGED <<aggregatorVars, managerVars, stage, retryQueue>>

(* The attempt failed: sleep on it, or after the last one give up.         *)
RetryRaises ==
  /\ retry = "trigger"
  /\ IF retried.attempt + 1 >= MaxAttempts
       THEN EndsAs("dead", Range(retried.events)) /\ RetryEnds
       ELSE /\ retry' = "sleep"
            /\ retried' = [retried EXCEPT !.attempt = @ + 1]
            /\ UNCHANGED fate
  /\ UNCHANGED <<aggregatorVars, managerVars, stage, retryQueue>>

RetryWakes ==
  /\ retry = "sleep"
  /\ Enqueue(retried)
  /\ RetryEnds
  /\ UNCHANGED <<aggregatorVars, managerVars, stage>>

-----------------------------------------------------------------------------
(* Lifecycle                                                               *)

Start ==
  /\ phase = "stopped"
  /\ starts < MaxStarts
  /\ starts' = starts + 1
  /\ phase' = "running"
  /\ retry' = "idle"
  /\ UNCHANGED <<aggregatorVars, arrived, stage, retryQueue, retried, fate>>

(* stop cancels the retry task, and its item goes with it ...              *)
StopRetries ==
  /\ phase = "running"
  /\ phase' = "stopping"
  /\ EndsAs("cancelled", Range(retried.events))
  /\ retry' = "off" /\ retried' = NoItem
  /\ UNCHANGED <<aggregatorVars, arrived, starts, stage, retryQueue>>

(* ... then the tasks of the notifications: those in line, and the one that*)
(* flushes. The buffer and a debounce task stay as they are.               *)
StopTasks ==
  LET flush == IF byTimer THEN {} ELSE Batch
  IN  /\ phase = "stopping"
      /\ phase' = "closing"
      /\ EndsAs("cancelled", Range(line) \cup flush)
      /\ line' = <<>>
      /\ timer' = IF timer = "behind" THEN "due" ELSE timer
      /\ IF byTimer
           THEN UNCHANGED <<batch, stage>>
           ELSE batch' = <<>> /\ stage' = "idle"
      /\ UNCHANGED <<mode, buffer, byTimer, dropped, arrived, starts, retryVars>>

(* ... and last the listeners.                                             *)
StopListening ==
  /\ phase = "closing"
  /\ phase' = "stopped"
  /\ UNCHANGED <<aggregatorVars, arrived, starts, stage, retryVars, fate>>

FlushStep == PushNext \/ DebounceWakes \/ DebounceFlushes
             \/ Allow \/ Block \/ GovernanceRaises \/ AgentReturns \/ AgentRaises
             \/ OwnCancelArrives
RetryStep == RetryTakes \/ RetryReturns \/ RetryRaises \/ RetryWakes

Next == Notify \/ FlushStep \/ RetryStep
        \/ Start \/ StopRetries \/ StopTasks \/ StopListening

Spec == Init /\ [][Next]_vars

(* The event loop runs the tasks that can run, governance and the agent    *)
(* answer (run_timeout_seconds bounds a run), and timers fire.             *)
FairSpec == Spec /\ WF_vars(FlushStep) /\ WF_vars(RetryStep)

-----------------------------------------------------------------------------
EventsOf(items) == UNION {Range(items[i].events) : i \in DOMAIN items}

(* Where an event can be while nothing has become of it, by the holder.    *)
Held == [line |-> Range(line), buffer |-> Range(buffer), batch |-> Batch,
         queue |-> EventsOf(retryQueue), hand |-> Range(retried.events)]

Settled == dropped \cup UNION {fate[f] : f \in Fates}

NoEventVanishes ==
  1..arrived \subseteq Settled \cup UNION {Held[h] : h \in DOMAIN Held}

OnePlace ==
  /\ \A h, g \in DOMAIN Held : h # g => Held[h] \cap Held[g] = {}
  /\ \A h \in DOMAIN Held : Held[h] \cap Settled = {}
  /\ \A f, g \in Fates : f # g => fate[f] \cap fate[g] = {}
  /\ \A f \in Fates : fate[f] \cap dropped = {}
  /\ \A i, j \in DOMAIN retryQueue :
       i # j => Range(retryQueue[i].events) \cap Range(retryQueue[j].events) = {}

(* Every event is accounted for exactly once. None vanishes: what was      *)
(* notified is held somewhere, or has a fate that is logged, recorded or   *)
(* came with a cancel; the buffer bound, the shedding of a full retry queue*)
(* and every way out of a flush account for the events they take. And none *)
(* is in two places: the agent is not given an event again that it took,   *)
(* and what was given up is not triggered later.                           *)
EveryEventOnce == NoEventVanishes /\ OnePlace

(* The agent is first asked about events in the order they came: all that  *)
(* wait are newer than what is being flushed, and what a full buffer gave  *)
(* up is older than what it kept.                                          *)
OldestFirst ==
  /\ \A e \in Batch \cup dropped, n \in Range(buffer) : e < n
  /\ \A e \in Batch \cup dropped \cup Range(buffer), n \in Range(line) : e < n

(* Whoever lines up or waits in a buffer that a timer or a push flushes is *)
(* taken on, although each push cancels the timer that was to do it. In the*)
(* batch mode an incomplete batch may wait for ever.                       *)
EventuallyTaken ==
  mode # "batch" =>
    \A e \in Events : e \in Range(line) \cup Range(buffer)
                        ~> e \notin Range(line) \cup Range(buffer)

(* What waits for a retry is triggered, given up as dead or shed, unless   *)
(* the manager is stopped: failing retries do not go round for ever.       *)
RetriesEnd ==
  \A e \in Events : e \in Held.queue \cup Held.hand
                      ~> (e \notin Held.queue \cup Held.hand \/ retry = "off")

(* Events are aggregated, not lost, "by debounce/batch/hybrid strategy": as*)
(* long as nobody stops the manager no task that has events is cancelled.  *)
NothingCancelledWhileRunning ==
  phase = "running" /\ starts = 1 => fate["cancelled"] = {}
=============================================================================
