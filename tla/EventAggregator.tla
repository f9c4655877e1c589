-------------------------- MODULE EventAggregator --------------------------
(***************************************************************************)
(* The buffer between database notifications and the agent                 *)
(* (src/owlclaw/triggers/db_change/aggregator.py). A push appends an event *)
(* to a bounded buffer and, by the mode, flushes it or restarts a debounce *)
(* task that will. The lock is held through a flush, so pushes line up     *)
(* behind the agent run it starts.                                         *)
(*                                                                         *)
(* Events are named by the order in which they arrive. There is one live   *)
(* debounce task at most: whoever makes a new one, or flushes, cancels the *)
(* one before. The operators are steps under the lock; the trigger conjoins*)
(* them with what happens to the batch.                                    *)
(***************************************************************************)
EXTENDS Naturals, Sequences, Functions

CONSTANTS MaxEvents,    \* bound: notifications
          BatchSize,    \* batch_size, in the modes that have one
          MaxBuffer     \* max_buffer_events

ASSUME AggregatorAssumption ==
  /\ MaxEvents \in Nat
  /\ BatchSize \in Nat \ {0}
  /\ MaxBuffer \in Nat \ {0}

VARIABLES mode,         \* _mode
          line,         \* events whose push waits for the lock, in order
          buffer,       \* _buffer
          timer,        \* _debounce_task: asleep, waiting for the lock behind
                        \* pushes, or due to have it next
          batch,        \* what the flush that holds the lock took, if any
          byTimer,      \* that flush is the debounce task's
          dropped       \* events that a full buffer gave up (dropped_events)

aggregatorVars == <<mode, line, buffer, timer, batch, byTimer, dropped>>

Modes == {"passthrough", "debounce", "batch", "hybrid"}
Events == 1..MaxEvents

AggregatorTypeOK ==
  /\ mode \in Modes
  /\ line \in Seq(Events)
  /\ buffer \in Seq(Events) /\ Len(buffer) <= MaxBuffer
  /\ timer \in {"none", "sleeping", "behind", "due"}
  /\ batch \in Seq(Events) /\ Len(batch) <= MaxBuffer
  /\ byTimer \in BOOLEAN
  /\ dropped \in SUBSET Events

AggregatorInit ==
  /\ mode \in Modes
  /\ line = <<>> /\ buffer = <<>>
  /\ timer = "none"
  /\ batch = <<>> /\ byTimer = FALSE
  /\ dropped = {}

Unlocked == batch = <<>>

Debounces == mode \in {"debounce", "hybrid"}

FlushesAt(n) ==
  \/ mode = "passthrough"
  \/ mode \in {"batch", "hybrid"} /\ n >= BatchSize

(* Mutant of Bounded: the newest events go.                                *)
BoundedAtEnd(b) == IF Len(b) > MaxBuffer THEN SubSeq(b, 1, MaxBuffer) ELSE b

(* _enforce_memory_bound: the oldest events go. One push adds one event, so*)
(* one is enough.                                                          *)
Bounded(b) == IF Len(b) > MaxBuffer THEN Tail(b) ELSE b

(* Mutant of TakeBatch: the buffer is not cleared.                         *)
TakeBatchKeeps(b, own) ==
  /\ batch' = b
  /\ buffer' = b
  /\ byTimer' = own
  /\ timer' = "none"

(* _flush_locked up to on_flush. The debounce task is cancelled, also when *)
(* it is the one that flushes.                                             *)
TakeBatch(b, own) ==
  /\ batch' = b
  /\ buffer' = <<>>
  /\ byTimer' = own
  /\ timer' = "none"

(* Mutant of ResetTimer: the old task is cancelled and none is made.       *)
ResetTimerCancels == timer' = "none"

(* _reset_debounce_task                                                    *)
ResetTimer == timer' = "sleeping"

(* push, once it has the lock.                                             *)
Push ==
  LET grown == Append(buffer, Head(line))
      kept  == Bounded(grown)
  IN  /\ Unlocked /\ timer # "due"
      /\ line # <<>>
      /\ line' = Tail(line)
      /\ dropped' = dropped \cup (Range(grown) \ Range(kept))
      /\ IF FlushesAt(Len(kept))
           THEN TakeBatch(kept, FALSE)
           ELSE /\ buffer' = kept
                /\ IF Debounces THEN ResetTimer ELSE UNCHANGED timer
                /\ UNCHANGED <<batch, byTimer>>
      /\ UNCHANGED mode

(* _debounce_wait_then_flush: debounce_seconds have passed, flush waits for*)
(* the lock. A push in front of it will cancel it ...                      *)
TimerWakes ==
  /\ timer = "sleeping"
  /\ timer' = IF line = <<>> THEN "due" ELSE "behind"
  /\ UNCHANGED <<mode, line, buffer, batch, byTimer, dropped>>

(* ... and takes what is there; a timer is only alive while there is some. *)
TimerFlushes ==
  /\ Unlocked /\ timer = "due"
  /\ buffer # <<>>
  /\ TakeBatch(buffer, TRUE)
  /\ UNCHANGED <<mode, line, dropped>>

(* on_flush has returned or raised, and the lock is free again.            *)
FlushEnds ==
  /\ batch' = <<>>
  /\ byTimer' = FALSE
  /\ UNCHANGED <<mode, buffer, timer, dropped>>
=============================================================================
