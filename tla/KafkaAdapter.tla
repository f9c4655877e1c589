---------------------------- MODULE KafkaAdapter ----------------------------
(***************************************************************************)
(* The Kafka adapter of the queue trigger                                  *)
(* (src/owlclaw/integrations/queue_adapters/kafka.py) over one partition.  *)
(*                                                                         *)
(* The broker keeps the log and the committed offset of the consumer group *)
(* across restarts; the consumer keeps the offset it fetches next, and the *)
(* adapter a dictionary from message ids to the records being processed.   *)
(* Offsets count from 1 and committed is the last offset committed, so a   *)
(* new consumer starts at committed + 1, or by its offset reset policy if  *)
(* nothing was committed yet: the adapter leaves that at "latest" unless   *)
(* it is given a consumer of its own.                                      *)
(*                                                                         *)
(* The operators below are steps of the adapter on its own variables; the  *)
(* queue trigger conjoins them with the steps of its workers.              *)
(***************************************************************************)
EXTENDS Naturals, Sequences

CONSTANTS Messages,     \* what producers publish
          Ids,          \* message ids
          IdOf,         \* x-message-id, the record key or the offset
          Unreadable,   \* messages with a header that has no value
          MaxLog        \* bound: records in the partition

ASSUME KafkaAssumption ==
  /\ IdOf \in [Messages -> Ids]
  /\ Unreadable \subseteq Messages
  /\ MaxLog \in Nat

VARIABLES log,          \* the partition: a sequence of messages
          committed,    \* committed offset of the group
          position,     \* next offset the consumer fetches, 1 for no consumer
          inflight,     \* _inflight: id -> offset, 0 for no entry
          connected,    \* _connected and not _closed
          offsetReset   \* auto_offset_reset of the consumer

adapterVars == <<log, committed, position, inflight, connected, offsetReset>>

Offsets == 1..MaxLog
NoEntry == 0
Id(o) == IdOf[log[o]]

AdapterTypeOK ==
  /\ log \in Seq(Messages) /\ Len(log) <= MaxLog
  /\ committed \in 0..MaxLog
  /\ position \in 1..(MaxLog + 1)
  /\ inflight \in [Ids -> 0..MaxLog]
  /\ connected \in BOOLEAN
  /\ offsetReset \in {"earliest", "latest"}

NoneInflight == [k \in Ids |-> NoEntry]

AdapterInit ==
  /\ log = <<>>
  /\ committed = 0
  /\ position = 1
  /\ inflight = NoneInflight
  /\ connected = FALSE
  /\ offsetReset \in {"earliest", "latest"}

(* A producer appends a record; the same message may come twice.           *)
Publish(m) ==
  /\ Len(log) < MaxLog
  /\ log' = Append(log, m)
  /\ UNCHANGED <<committed, position, inflight, connected, offsetReset>>

(* Mutant of Connect: the new consumer starts at the end of the log.       *)
ConnectAtEnd ==
  /\ connected' = TRUE
  /\ position' = Len(log) + 1
  /\ UNCHANGED <<log, committed, inflight, offsetReset>>

(* connect: the consumer resumes after the committed offset, if there is   *)
(* one.                                                                    *)
Connect ==
  /\ connected' = TRUE
  /\ position' = IF committed = 0 /\ offsetReset = "latest"
                   THEN Len(log) + 1
                   ELSE committed + 1
  /\ UNCHANGED <<log, committed, inflight, offsetReset>>

(* close, and what a crash leaves behind: nothing but the broker's state.  *)
Disconnect ==
  /\ connected' = FALSE
  /\ position' = 1
  /\ inflight' = NoneInflight
  /\ UNCHANGED <<log, committed, offsetReset>>

NextRecord(o) == connected /\ o = position /\ o <= Len(log)

(* consume: hand out the next record and remember it by its message id.    *)
Fetch(o) ==
  /\ NextRecord(o)
  /\ log[o] \notin Unreadable
  /\ position' = o + 1
  /\ inflight' = [inflight EXCEPT ![Id(o)] = o]
  /\ UNCHANGED <<log, committed, connected, offsetReset>>

(* consume raises: on the call to the broker ...                           *)
FetchFails ==
  /\ connected
  /\ UNCHANGED adapterVars

(* ... or on a record of which no message can be made. The consumer is past*)
(* it then, and the adapter does not remember it.                          *)
FetchUnreadable(o) ==
  /\ NextRecord(o)
  /\ log[o] \in Unreadable
  /\ position' = o + 1
  /\ UNCHANGED <<log, committed, inflight, connected, offsetReset>>

Forget(o) == inflight' = [inflight EXCEPT ![Id(o)] = NoEntry]

(* ack: commit the offset remembered for the id; nothing remembered, as    *)
(* after close, means a silent return. A failed commit has forgotten it.   *)
Ack(o) ==
  /\ Forget(o)
  /\ committed' = IF inflight[Id(o)] # NoEntry THEN inflight[Id(o)] ELSE committed
  /\ UNCHANGED <<log, position, connected, offsetReset>>

AckFails(o) ==
  /\ connected
  /\ inflight[Id(o)] # NoEntry
  /\ Forget(o)
  /\ UNCHANGED <<log, committed, position, connected, offsetReset>>

(* nack without requeue: the record is forgotten, its offset not committed.*)
Nack(o) ==
  /\ Forget(o)
  /\ UNCHANGED <<log, committed, position, connected, offsetReset>>

(* nack with requeue: a copy is produced and, if the record was still      *)
(* remembered, the consumer also goes back to it.                          *)
Requeue(o) ==
  /\ connected
  /\ Len(log) < MaxLog
  /\ log' = Append(log, log[o])
  /\ position' = IF inflight[Id(o)] # NoEntry THEN inflight[Id(o)] ELSE position
  /\ Forget(o)
  /\ UNCHANGED <<committed, connected, offsetReset>>

(* The producer fails, always once it is stopped.                          *)
RequeueFails(o) ==
  /\ Forget(o)
  /\ UNCHANGED <<log, committed, position, connected, offsetReset>>

(* send_to_dlq: the record is copied to a topic this system never reads;   *)
(* here it is neither committed nor forgotten.                             *)
SendToDlq(o) ==
  /\ connected
  /\ UNCHANGED adapterVars
=============================================================================
