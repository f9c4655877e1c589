------------------------- MODULE QueueTriggerProofs -------------------------
(***************************************************************************)
(* Proofs about QueueTrigger for every log, every number of workers and    *)
(* every limit: its types, that a single worker on a consumer that starts  *)
(* at the earliest record loses nothing, and what deduplication makes of   *)
(* the agent's runs.                                                       *)
(***************************************************************************)
EXTENDS QueueTrigger, TLAPS

USE KafkaAssumption, QueueAssumption

(* A busy worker holds a record of the log.                                *)
HoldsRecord == \A w \in Workers : Busy(w) => cur[w] \in 1..Len(log)

Single == concurrency = 1 /\ offsetReset = "earliest"

(* The records before n are finished, but for the one the worker holds.    *)
FinishedBefore(n) ==
  \A o \in Nat : 1 <= o /\ o < n =>
     o \in done \cup errored \/ (Busy(1) /\ o = cur[1])

(* What makes a commit of the single worker safe: the record it holds is   *)
(* the last one the consumer passed, and all before it are finished. The   *)
(* adapter remembers that record for its id or nothing, and nothing at all *)
(* once it is closed.                                                      *)
SingleInv ==
  Single =>
    /\ \A w \in Workers : w # 1 => pc[w] = "off"
    /\ 1..committed \subseteq done \cup errored
    /\ connected => FinishedBefore(position)
    /\ connected /\ Busy(1) => position = cur[1] + 1
    /\ Busy(1) => inflight[Id(cur[1])] \in {NoEntry, cur[1]}
    /\ ~connected => inflight = NoneInflight

IInv == TypeOK /\ HoldsRecord /\ SingleInv

-----------------------------------------------------------------------------
LEMMA InitIInv == Init => IInv
<1> SUFFICES ASSUME Init PROVE IInv
  OBVIOUS
<1>1. AdapterTypeOK
  <2>1. log \in Seq(Messages) /\ Len(log) <= MaxLog
    BY DEF Init, AdapterInit
  <2>2. inflight \in [Ids -> 0..MaxLog]
    BY DEF Init, AdapterInit, NoneInflight, NoEntry
  <2>3. committed \in 0..MaxLog /\ position \in 1..(MaxLog + 1)
    BY DEF Init, AdapterInit
  <2>4. QED
    BY <2>1, <2>2, <2>3 DEF Init, AdapterInit, AdapterTypeOK
<1>2. pc \in [Workers -> Stages] /\ how \in [Workers -> AckPolicies]
  BY DEF Init, Stages, AckPolicies
<1>3. cur \in [Workers -> 0..MaxLog] /\ attempt \in [Workers -> 1..(MaxRetries + 1)]
  BY DEF Init
<1>4. TypeOK
  <2>1. starts \in 0..MaxStarts /\ faults \in 0..MaxFaults
    BY DEF Init
  <2>2. runs \in [Messages -> Nat]
    BY DEF Init
  <2>3. QED
    BY <1>1, <1>2, <1>3, <2>1, <2>2 DEF Init, TypeOK
<1>5. \A w \in Workers : pc[w] = "off" /\ ~Busy(w)
  BY DEF Init, Busy
<1>6. HoldsRecord
  BY <1>5 DEF HoldsRecord
<1>7. SingleInv
  <2>1. 1 \in Workers
    BY DEF Workers
  <2>2. QED
    BY <1>5, <2>1 DEF SingleInv, Init, AdapterInit
<1>8. QED
  BY <1>4, <1>6, <1>7 DEF IInv

-----------------------------------------------------------------------------
(* The steps of a worker that has a record in hand and keeps it.           *)
Proceeds(w) ==
  \/ Release(w) /\ log[cur[w]] \notin Breaking
  \/ Govern(w)
  \/ CheckSeen(w) \/ CheckSeenFails(w)
  \/ TriggerReturns(w) \/ TriggerRaises(w)
  \/ Remember(w) \/ RememberFails(w)

(* Such a step touches neither the adapter nor the other workers.          *)
LEMMA ProceedsFacts ==
  ASSUME IInv, NEW w \in Workers, Proceeds(w)
  PROVE  /\ UNCHANGED <<adapterVars, configVars, starts, running, paused, cur, errored>>
         /\ Busy(w) /\ Busy(w)'
         /\ \A v \in Workers : v # w => pc'[v] = pc[v]
         /\ done \subseteq done'
         /\ TypeOK'
<1>1. TypeOK /\ HoldsRecord
  BY DEF IInv
<1>2. UNCHANGED <<adapterVars, configVars, starts, running, paused, cur, errored>>
  <2>1. cur' = [cur EXCEPT ![w] = cur[w]] => UNCHANGED cur
    BY <1>1 DEF TypeOK
  <2>2. QED
    BY <2>1 DEF Proceeds, Release, BeginProcessing, Govern, CheckSeen, CheckSeenFails,
         TriggerReturns, TriggerRaises, Remember, RememberFails, outcomeVars
<1>3. PICK s \in {"governance", "exists", "trigger", "remember", "settle"} :
        pc' = [pc EXCEPT ![w] = s]
  <2>1. CASE TriggerRaises(w)
    <3>1. pc \in [Workers -> Stages] /\ pc[w] = "trigger"
      BY <1>1, <2>1 DEF TriggerRaises, TypeOK
    <3>2. CASE UNCHANGED pc
      <4>1. pc' = [pc EXCEPT ![w] = "trigger"]
        BY <3>1, <3>2
      <4>2. QED
        BY <4>1
    <3>3. CASE pc' = [pc EXCEPT ![w] = "settle"]
      BY <3>3
    <3>4. QED
      BY <2>1, <3>2, <3>3 DEF TriggerRaises, SettleBy, Goto
  <2>2. CASE Release(w) /\ log[cur[w]] \notin Breaking
    BY <2>2 DEF Release, BeginProcessing, SettleBy, Goto
  <2>3. CASE Govern(w)
    BY <2>3 DEF Govern, SettleBy, Goto
  <2>4. CASE CheckSeen(w) \/ CheckSeenFails(w)
    BY <2>4 DEF CheckSeen, CheckSeenFails, SettleBy, Goto
  <2>5. CASE TriggerReturns(w)
    BY <2>5 DEF TriggerReturns, SettleBy, Goto
  <2>6. CASE Remember(w) \/ RememberFails(w)
    BY <2>6 DEF Remember, RememberFails, SettleBy, Goto
  <2>7. QED
    BY <2>1, <2>2, <2>3, <2>4, <2>5, <2>6 DEF Proceeds
<1>4. Busy(w)
  BY DEF Busy, Proceeds, Release, Govern, CheckSeen, CheckSeenFails, TriggerReturns,
         TriggerRaises, Remember, RememberFails
<1>5. cur[w] \in Offsets
  BY <1>1, <1>4 DEF HoldsRecord, TypeOK, AdapterTypeOK, Offsets
<1>6. /\ pc' \in [Workers -> Stages] /\ Busy(w)'
      /\ \A v \in Workers : v # w => pc'[v] = pc[v]
  BY <1>1, <1>3 DEF TypeOK, Stages, Busy
<1>7. /\ done' \in {done, done \cup {cur[w]}}
      /\ dropped' \in {dropped, dropped \cup {cur[w]}}
  BY DEF Proceeds, Release, Govern, CheckSeen, CheckSeenFails, TriggerReturns,
         TriggerRaises, Remember, RememberFails, outcomeVars
<1>8. how' \in [Workers -> AckPolicies]
  <2>1. how' = how \/ \E call \in AckPolicies : how' = [how EXCEPT ![w] = call]
    BY <1>1 DEF Proceeds, Release, Govern, CheckSeen, CheckSeenFails, TriggerReturns,
         TriggerRaises, Remember, RememberFails, BeginProcessing, SettleBy, TypeOK,
         AckPolicies
  <2>2. QED
    BY <1>1, <2>1 DEF TypeOK
<1>9. attempt' \in [Workers -> 1..(MaxRetries + 1)]
  <2>1. \/ attempt' = attempt
        \/ attempt' = [attempt EXCEPT ![w] = 1]
        \/ attempt[w] <= MaxRetries /\ attempt' = [attempt EXCEPT ![w] = @ + 1]
    BY DEF Proceeds, Release, Govern, CheckSeen, CheckSeenFails, TriggerReturns,
         TriggerRaises, Remember, RememberFails, BeginProcessing
  <2>2. attempt \in [Workers -> 1..(MaxRetries + 1)]
    BY <1>1 DEF TypeOK
  <2>3. QED
    BY <2>1, <2>2
<1>10. store' \in SUBSET Ids
  <2>1. store' \in {store, store \cup {DedupKey(cur[w])}}
    BY DEF Proceeds, Release, Govern, CheckSeen, CheckSeenFails, TriggerReturns,
         TriggerRaises, Remember, RememberFails
  <2>2. DedupKey(cur[w]) \in Ids
    BY <1>1, <1>4 DEF HoldsRecord, TypeOK, AdapterTypeOK, DedupKey
  <2>3. QED
    BY <1>1, <2>1, <2>2 DEF TypeOK
<1>11. runs' \in [Messages -> Nat]
  <2>1. runs' = runs \/ runs' = [runs EXCEPT ![log[cur[w]]] = @ + 1]
    BY DEF Proceeds, Release, Govern, CheckSeen, CheckSeenFails, TriggerReturns,
         TriggerRaises, Remember, RememberFails
  <2>2. runs \in [Messages -> Nat]
    BY <1>1 DEF TypeOK
  <2>3. QED
    BY <2>1, <2>2
<1>12. faults' \in 0..MaxFaults
  BY <1>1 DEF Proceeds, Release, Govern, CheckSeen, CheckSeenFails, TriggerReturns,
         TriggerRaises, Remember, RememberFails, Fault, TypeOK
<1>13. done' \in SUBSET Offsets /\ dropped' \in SUBSET Offsets
  BY <1>1, <1>5, <1>7 DEF TypeOK
<1>14. TypeOK'
  BY <1>1, <1>2, <1>6, <1>8, <1>9, <1>10, <1>11, <1>12, <1>13
     DEF TypeOK, AdapterTypeOK, adapterVars, configVars
<1>15. QED
  BY <1>2, <1>4, <1>6, <1>7, <1>14

(* Single keeps its value, and then only worker 1 ever runs.               *)
LEMMA OnlyWorkerOne ==
  ASSUME IInv, Single, NEW w \in Workers, pc[w] # "off"
  PROVE  w = 1
  BY DEF IInv, SingleInv

LEMMA OneIsAWorker == 1 \in Workers
  BY DEF Workers

LEMMA ProceedsIInv ==
  ASSUME IInv, NEW w \in Workers, Proceeds(w)
  PROVE  IInv'
<1>1. /\ UNCHANGED <<adapterVars, configVars, cur, errored>>
      /\ Busy(w) /\ Busy(w)'
      /\ \A v \in Workers : v # w => pc'[v] = pc[v]
      /\ done \subseteq done'
      /\ TypeOK'
  BY ProceedsFacts
<1>2. \A v \in Workers : Busy(v)' <=> Busy(v)
  BY <1>1 DEF Busy
<1>3. HoldsRecord'
  BY <1>1, <1>2 DEF IInv, HoldsRecord, adapterVars
<1>4. SingleInv'
  <2> SUFFICES ASSUME Single' PROVE SingleInv'
    BY DEF SingleInv
  <2>1. Single
    BY <1>1 DEF Single, configVars, adapterVars
  <2>2. w = 1
    BY <1>1, <2>1, OnlyWorkerOne DEF Busy
  <2>3. \A v \in Workers : v # 1 => pc'[v] = "off"
    BY <1>1, <2>1, <2>2 DEF IInv, SingleInv
  <2>4. connected' => FinishedBefore(position)'
    BY <1>1, <1>2, <2>1, OneIsAWorker DEF IInv, SingleInv, FinishedBefore, adapterVars
  <2>5. Id(cur[1])' = Id(cur[1])
    BY <1>1 DEF Id, adapterVars
  <2>6. QED
    BY <1>1, <1>2, <2>1, <2>3, <2>4, <2>5, OneIsAWorker DEF IInv, SingleInv, adapterVars
<1>5. QED
  BY <1>1, <1>3, <1>4 DEF IInv

-----------------------------------------------------------------------------
(* A worker receives the record at the consumer's position and keeps it.   *)
Takes(w) == Receive(w) /\ (paused \/ log[position] \notin Breaking)

LEMMA TakesFacts ==
  ASSUME IInv, NEW w \in Workers, Takes(w)
  PROVE  /\ pc[w] = "fetch" /\ connected
         /\ position \in 1..Len(log)
         /\ position' = position + 1
         /\ inflight' = [inflight EXCEPT ![Id(position)] = position]
         /\ cur' = [cur EXCEPT ![w] = position]
         /\ \E s \in {"held", "settle", "governance"} : pc' = [pc EXCEPT ![w] = s]
         /\ UNCHANGED <<log, committed, connected, offsetReset, configVars, starts,
                        running, paused, store, runs, outcomeVars, faults>>
<1>1. /\ pc[w] = "fetch" /\ connected
      /\ position \in 1..Len(log)
      /\ position' = position + 1
      /\ inflight' = [inflight EXCEPT ![Id(position)] = position]
      /\ UNCHANGED <<log, committed, connected, offsetReset, configVars, starts,
                     running, paused, store, runs, done, dropped, faults>>
  BY DEF IInv, Takes, Receive, Fetch, NextRecord, TypeOK, AdapterTypeOK
<1>2. Hold(w, position) \/ (BeginProcessing(w, position) /\ log[position] \notin Breaking)
  BY DEF Takes, Receive
<1>3. /\ cur' = [cur EXCEPT ![w] = position] /\ UNCHANGED errored
      /\ \E s \in {"held", "settle", "governance"} : pc' = [pc EXCEPT ![w] = s]
  BY <1>2 DEF Hold, BeginProcessing, SettleBy, Goto
<1>4. QED
  BY <1>1, <1>3 DEF outcomeVars

LEMMA TakesIInv ==
  ASSUME IInv, NEW w \in Workers, Takes(w)
  PROVE  IInv'
<1>1. TypeOK /\ HoldsRecord
  BY DEF IInv
<1>2. /\ pc[w] = "fetch" /\ connected
      /\ position \in 1..Len(log)
      /\ position' = position + 1
      /\ inflight' = [inflight EXCEPT ![Id(position)] = position]
      /\ cur' = [cur EXCEPT ![w] = position]
      /\ UNCHANGED <<log, committed, connected, offsetReset, configVars, starts,
                     running, paused, store, runs, outcomeVars, faults>>
  BY TakesFacts
<1>3. PICK s \in {"held", "settle", "governance"} : pc' = [pc EXCEPT ![w] = s]
  BY TakesFacts
<1>4. /\ how' = how \/ how' = [how EXCEPT ![w] = "dlq"]
      /\ attempt' = attempt \/ attempt' = [attempt EXCEPT ![w] = 1]
  BY DEF Takes, Receive, Hold, BeginProcessing, SettleBy
<1>5. position \in 1..MaxLog /\ Len(log) \in Nat /\ Len(log) <= MaxLog
  BY <1>1, <1>2 DEF TypeOK, AdapterTypeOK
<1>6. Id(position) \in Ids
  BY <1>1, <1>2 DEF Id, TypeOK, AdapterTypeOK
<1>7. /\ pc' \in [Workers -> Stages] /\ pc'[w] = s
      /\ \A v \in Workers : v # w => pc'[v] = pc[v]
  BY <1>1, <1>3 DEF TypeOK, Stages
<1>8. /\ cur' \in [Workers -> 0..MaxLog] /\ cur'[w] = position
      /\ \A v \in Workers : v # w => cur'[v] = cur[v]
  BY <1>1, <1>2, <1>5 DEF TypeOK
<1>9. TypeOK'
  <2>1. AdapterTypeOK'
    <3>1. inflight' \in [Ids -> 0..MaxLog]
      <4>1. inflight \in [Ids -> 0..MaxLog] /\ position \in 0..MaxLog
        BY <1>1, <1>5 DEF TypeOK, AdapterTypeOK
      <4>2. inflight' = [inflight EXCEPT ![Id(position)] = position]
        BY <1>2
      <4>3. QED
        BY <4>1, <4>2
    <3>2. position' \in 1..(MaxLog + 1)
      BY <1>2, <1>5
    <3>3. QED
      BY <1>1, <1>2, <3>1, <3>2 DEF TypeOK, AdapterTypeOK
  <2>2. how' \in [Workers -> AckPolicies]
    BY <1>1, <1>4 DEF TypeOK, AckPolicies
  <2>3. attempt' \in [Workers -> 1..(MaxRetries + 1)]
    BY <1>1, <1>4 DEF TypeOK
  <2>4. QED
    BY <1>1, <1>2, <1>7, <1>8, <2>1, <2>2, <2>3 DEF TypeOK, configVars, outcomeVars
<1>10. HoldsRecord'
  BY <1>1, <1>2, <1>7, <1>8 DEF HoldsRecord, Busy
<1>11. SingleInv'
  <2> SUFFICES ASSUME Single' PROVE SingleInv'
    BY DEF SingleInv
  <2>1. Single
    BY <1>2 DEF Single, configVars
  <2>2. w = 1 /\ Busy(1)' /\ ~Busy(1)
    BY <1>2, <1>7, <2>1, OnlyWorkerOne DEF Busy
  <2>3. FinishedBefore(position)'
    <3>1. FinishedBefore(position)
      BY <1>2, <2>1 DEF IInv, SingleInv
    <3> SUFFICES ASSUME NEW o \in Nat, 1 <= o, o < position'
                 PROVE  (o \in done \cup errored \/ (Busy(1) /\ o = cur[1]))'
      BY DEF FinishedBefore
    <3>2. CASE o < position
      BY <1>2, <2>2, <3>1, <3>2 DEF FinishedBefore, outcomeVars
    <3>3. CASE o = position
      BY <1>8, <2>2, <3>3
    <3>4. QED
      BY <1>2, <3>2, <3>3
  <2>4. inflight'[Id(cur[1])'] = cur'[1]
    <3>1. Id(cur[1])' = Id(position)
      BY <1>2, <1>8, <2>2 DEF Id
    <3>2. QED
      BY <1>1, <1>2, <1>6, <1>8, <2>2, <3>1 DEF TypeOK, AdapterTypeOK
  <2>5. \A v \in Workers : v # 1 => pc'[v] = "off"
    BY <1>7, <2>1, <2>2 DEF IInv, SingleInv
  <2>6. QED
    BY <1>2, <1>8, <2>1, <2>2, <2>3, <2>4, <2>5 DEF IInv, SingleInv, outcomeVars
<1>12. QED
  BY <1>9, <1>10, <1>11 DEF IInv

-----------------------------------------------------------------------------
(* A worker lets its record go: by the adapter call that settles it, or by *)
(* leaving the loop.                                                       *)
LEMMA LetGoFacts ==
  ASSUME TypeOK, NEW w \in Workers, NEW stage \in {"fetch", "off"}, LetGo(w, stage)
  PROVE  /\ pc' \in [Workers -> Stages] /\ pc'[w] = stage
         /\ cur' \in [Workers -> 0..MaxLog]
         /\ attempt' \in [Workers -> 1..(MaxRetries + 1)]
         /\ how' \in [Workers -> AckPolicies]
         /\ ~Busy(w)'
         /\ \A v \in Workers : v # w => pc'[v] = pc[v] /\ cur'[v] = cur[v]
<1>1. /\ pc \in [Workers -> Stages] /\ cur \in [Workers -> 0..MaxLog]
      /\ attempt \in [Workers -> 1..(MaxRetries + 1)]
      /\ how \in [Workers -> AckPolicies]
  BY DEF TypeOK
<1>2. /\ pc' \in [Workers -> Stages] /\ pc'[w] = stage
      /\ \A v \in Workers : v # w => pc'[v] = pc[v]
  BY <1>1 DEF LetGo, Goto, Stages
<1>3. /\ cur' \in [Workers -> 0..MaxLog]
      /\ \A v \in Workers : v # w => cur'[v] = cur[v]
  BY <1>1 DEF LetGo
<1>4. attempt' \in [Workers -> 1..(MaxRetries + 1)]
  BY <1>1 DEF LetGo
<1>5. how' \in [Workers -> AckPolicies]
  BY <1>1 DEF LetGo, AckPolicies
<1>6. QED
  BY <1>2, <1>3, <1>4, <1>5 DEF Busy

LEMMA LeaveLoopIInv ==
  ASSUME IInv, NEW w \in Workers, LeaveLoop(w)
  PROVE  IInv'
<1>1. /\ pc' \in [Workers -> Stages] /\ pc'[w] = "off"
      /\ cur' \in [Workers -> 0..MaxLog]
      /\ attempt' \in [Workers -> 1..(MaxRetries + 1)]
      /\ how' \in [Workers -> AckPolicies]
      /\ ~Busy(w)'
      /\ \A v \in Workers : v # w => pc'[v] = pc[v] /\ cur'[v] = cur[v]
  BY LetGoFacts DEF LeaveLoop, IInv
<1>2. /\ ~connected /\ pc[w] # "off"
      /\ UNCHANGED <<adapterVars, configVars, starts, running, paused, store, runs,
                     outcomeVars, faults>>
  BY DEF LeaveLoop
<1>3. TypeOK'
  BY <1>1, <1>2 DEF IInv, TypeOK, AdapterTypeOK, adapterVars, configVars, outcomeVars
<1>4. HoldsRecord'
  BY <1>1, <1>2 DEF IInv, HoldsRecord, Busy, adapterVars
<1>5. SingleInv'
  <2> SUFFICES ASSUME Single' PROVE SingleInv'
    BY DEF SingleInv
  <2>1. Single
    BY <1>2 DEF Single, configVars, adapterVars
  <2>2. w = 1
    BY <1>2, <2>1, OnlyWorkerOne
  <2>3. QED
    BY <1>1, <1>2, <2>1, <2>2 DEF IInv, SingleInv, adapterVars, outcomeVars
<1>6. QED
  BY <1>3, <1>4, <1>5 DEF IInv

(* A worker gives a record up with an exception: one without a body, when  *)
(* it receives or releases it, one of which no message can be made; or the *)
(* stream has failed under it.                                             *)
GivesUp(w) ==
  \/ Receive(w) /\ ~paused /\ log[position] \in Breaking
  \/ Release(w) /\ log[cur[w]] \in Breaking
  \/ ConsumeRaises(w)

(* The consumer goes past the next record.                                 *)
PassesRecord ==
  /\ connected
  /\ position \in 1..Len(log) /\ position' = position + 1
  /\ inflight' \in {inflight, [inflight EXCEPT ![Id(position)] = position]}
  /\ errored' = errored \cup {position}

LEMMA GivesUpFacts ==
  ASSUME IInv, NEW w \in Workers, GivesUp(w)
  PROVE  /\ UNCHANGED <<log, committed, connected, offsetReset, configVars, starts,
                        running, paused, store, runs, done, dropped>>
         /\ faults' \in 0..MaxFaults
         /\ \E stage \in {"fetch", "off"} : LetGo(w, stage)
         /\ \/ /\ pc[w] = "held" /\ cur[w] \in 1..Len(log)
               /\ UNCHANGED <<position, inflight>>
               /\ errored' = errored \cup {cur[w]}
            \/ pc[w] = "fetch" /\ UNCHANGED <<position, inflight, errored>>
            \/ pc[w] = "fetch" /\ PassesRecord
<1>1. TypeOK /\ HoldsRecord
  BY DEF IInv
<1>2. CASE Receive(w) /\ ~paused /\ log[position] \in Breaking
  <2>1. /\ LetGo(w, "fetch") /\ errored' = errored \cup {position}
        /\ UNCHANGED <<configVars, starts, running, paused, store, runs, done, dropped, faults>>
    BY <1>2 DEF Receive, BeginProcessing
  <2>2. pc[w] = "fetch" /\ Fetch(position)
    BY <1>2 DEF Receive
  <2>3. PassesRecord /\ UNCHANGED <<log, committed, connected, offsetReset>>
    BY <1>1, <2>1, <2>2 DEF Fetch, NextRecord, PassesRecord, TypeOK, AdapterTypeOK
  <2>4. QED
    BY <1>1, <2>1, <2>2, <2>3 DEF TypeOK
<1>3. CASE Release(w) /\ log[cur[w]] \in Breaking
  <2>1. /\ LetGo(w, "fetch") /\ errored' = errored \cup {cur[w]}
        /\ pc[w] = "held"
        /\ UNCHANGED <<adapterVars, configVars, starts, running, paused, store, runs, done,
                       dropped, faults>>
    BY <1>3 DEF Release, BeginProcessing
  <2>2. cur[w] \in 1..Len(log)
    BY <1>1, <2>1 DEF HoldsRecord, Busy
  <2>3. QED
    BY <1>1, <2>1, <2>2 DEF TypeOK, adapterVars
<1>4. CASE ConsumeRaises(w)
  <2>1. /\ LetGo(w, "off") /\ pc[w] = "fetch"
        /\ UNCHANGED <<configVars, starts, running, paused, store, runs, done, dropped>>
    BY <1>4 DEF ConsumeRaises
  <2>2. CASE FetchFails /\ Fault /\ UNCHANGED errored
    BY <1>1, <2>1, <2>2 DEF FetchFails, Fault, TypeOK, adapterVars
  <2>3. CASE FetchUnreadable(position) /\ errored' = errored \cup {position} /\ UNCHANGED faults
    <3>1. PassesRecord /\ UNCHANGED <<log, committed, connected, offsetReset>>
      BY <1>1, <2>3 DEF FetchUnreadable, NextRecord, PassesRecord, TypeOK, AdapterTypeOK
    <3>2. QED
      BY <1>1, <2>1, <2>3, <3>1 DEF TypeOK
  <2>4. QED
    BY <1>4, <2>2, <2>3 DEF ConsumeRaises
<1>5. QED
  BY <1>2, <1>3, <1>4 DEF GivesUp

LEMMA GivesUpIInv ==
  ASSUME IInv, NEW w \in Workers, GivesUp(w)
  PROVE  IInv'
<1>1. TypeOK /\ HoldsRecord
  BY DEF IInv
<1>2. /\ UNCHANGED <<log, committed, connected, offsetReset, configVars, starts,
                     running, paused, store, runs, done, dropped>>
      /\ faults' \in 0..MaxFaults
      /\ pc[w] # "off"
  BY GivesUpFacts
<1>3. PICK stage \in {"fetch", "off"} : LetGo(w, stage)
  BY GivesUpFacts
<1>4. /\ pc' \in [Workers -> Stages] /\ pc'[w] = stage
      /\ cur' \in [Workers -> 0..MaxLog]
      /\ attempt' \in [Workers -> 1..(MaxRetries + 1)]
      /\ how' \in [Workers -> AckPolicies]
      /\ ~Busy(w)'
      /\ \A v \in Workers : v # w => pc'[v] = pc[v] /\ cur'[v] = cur[v]
  BY <1>1, <1>3, LetGoFacts
<1>5. /\ position' \in 1..(MaxLog + 1) /\ inflight' \in [Ids -> 0..MaxLog]
      /\ errored' \subseteq Offsets
  <2>1. /\ position \in 1..(MaxLog + 1) /\ inflight \in [Ids -> 0..MaxLog]
        /\ Len(log) \in Nat /\ Len(log) <= MaxLog /\ errored \subseteq Offsets
    BY <1>1 DEF TypeOK, AdapterTypeOK
  <2>2. CASE cur[w] \in 1..Len(log) /\ UNCHANGED <<position, inflight>>
               /\ errored' = errored \cup {cur[w]}
    <3>1. cur[w] \in Offsets
      BY <2>1, <2>2 DEF Offsets
    <3>2. QED
      BY <2>1, <2>2, <3>1
  <2>3. CASE PassesRecord
    <3>1. position \in Offsets /\ position' \in 1..(MaxLog + 1) /\ Id(position) \in Ids
      <4>1. position \in 1..Len(log) /\ position' = position + 1
        BY <2>3 DEF PassesRecord
      <4>2. position \in Offsets /\ position' \in 1..(MaxLog + 1)
        BY <2>1, <4>1 DEF Offsets
      <4>3. log[position] \in Messages
        BY <1>1, <4>1 DEF TypeOK, AdapterTypeOK
      <4>4. QED
        BY <4>2, <4>3 DEF Id
    <3>2. inflight' \in [Ids -> 0..MaxLog]
      BY <2>1, <2>3, <3>1 DEF PassesRecord, Offsets
    <3>3. QED
      BY <2>1, <2>3, <3>1, <3>2 DEF PassesRecord
  <2>4. QED
    BY <2>1, <2>2, <2>3, GivesUpFacts
<1>6. TypeOK'
  BY <1>1, <1>2, <1>4, <1>5 DEF TypeOK, AdapterTypeOK, configVars
<1>7. HoldsRecord'
  BY <1>1, <1>2, <1>4 DEF HoldsRecord, Busy
<1>8. SingleInv'
  <2> SUFFICES ASSUME Single' PROVE SingleInv'
    BY DEF SingleInv
  <2>1. Single
    BY <1>2 DEF Single, configVars
  <2>2. w = 1 /\ ~Busy(1)'
    BY <1>2, <1>4, <2>1, OnlyWorkerOne
  <2>3. /\ 1..committed \subseteq done \cup errored
        /\ connected => FinishedBefore(position)
        /\ ~connected => inflight = NoneInflight
        /\ \A v \in Workers : v # 1 => pc[v] = "off"
    BY <2>1 DEF IInv, SingleInv
  <2>4. errored \subseteq errored' /\ (~connected => UNCHANGED inflight)
    BY GivesUpFacts DEF PassesRecord
  <2>5. ASSUME connected, NEW o \in Nat, 1 <= o, o < position'
        PROVE  o \in done \cup errored'
    <3>1. FinishedBefore(position) /\ position \in Nat
      BY <1>1, <2>3, <2>5 DEF TypeOK, AdapterTypeOK
    <3>2. CASE pc[1] = "held" /\ UNCHANGED position /\ errored' = errored \cup {cur[1]}
      BY <2>5, <3>1, <3>2 DEF FinishedBefore
    <3>3. CASE pc[1] = "fetch" /\ UNCHANGED <<position, errored>>
      BY <2>5, <3>1, <3>3 DEF FinishedBefore, Busy
    <3>4. CASE pc[1] = "fetch" /\ position' = position + 1
                 /\ errored' = errored \cup {position}
      BY <2>5, <3>1, <3>4 DEF FinishedBefore, Busy
    <3>5. QED
      BY <2>2, <3>2, <3>3, <3>4, GivesUpFacts DEF PassesRecord
  <2>6. FinishedBefore(position)' \/ ~connected
    BY <1>2, <2>5 DEF FinishedBefore
  <2>7. \A v \in Workers : v # 1 => pc'[v] = "off"
    BY <1>4, <2>2, <2>3
  <2>8. QED
    BY <1>2, <2>2, <2>3, <2>4, <2>6, <2>7 DEF SingleInv, NoneInflight
<1>9. QED
  BY <1>6, <1>7, <1>8 DEF IInv

(* What the adapter does when the record o is settled: the commit reaches  *)
(* the record remembered for its id, the consumer goes on or goes back.    *)
SettlesOrRaises(w) == Settle(w) \/ SettleRaises(w)

LEMMA SettleFacts ==
  ASSUME IInv, NEW w \in Workers, SettlesOrRaises(w)
  PROVE  /\ pc[w] = "settle"
         /\ cur[w] \in 1..Len(log)
         /\ UNCHANGED <<connected, offsetReset, configVars, starts, running, paused,
                        store, runs, dropped>>
         /\ LetGo(w, "fetch")
         /\ faults' \in 0..MaxFaults
         /\ \/ done' = done \cup {cur[w]} /\ errored' = errored
            \/ done' = done /\ errored' = errored \cup {cur[w]}
         /\ log' \in Seq(Messages) /\ Len(log') \in Len(log)..MaxLog
         /\ \A o \in 1..Len(log) : log'[o] = log[o]
         /\ inflight' = inflight \/ Forget(cur[w])
         /\ committed' \in {committed, inflight[Id(cur[w])]}
         /\ inflight[Id(cur[w])] = NoEntry =>
               committed' = committed /\ position' = position
         /\ position' \in {position, inflight[Id(cur[w])]}
<1>1. TypeOK /\ HoldsRecord
  BY DEF IInv
<1>2. pc[w] = "settle" /\ LetGo(w, "fetch")
  BY DEF SettlesOrRaises, Settle, SettleRaises
<1>3. cur[w] \in 1..Len(log)
  BY <1>1, <1>2 DEF HoldsRecord, Busy
<1>4. faults' \in 0..MaxFaults
  BY <1>1 DEF SettlesOrRaises, Settle, SettleRaises, Fault, TypeOK
<1>5. log \in Seq(Messages) /\ Len(log) \in Nat /\ Len(log) <= MaxLog
  BY <1>1 DEF TypeOK, AdapterTypeOK
<1>6. /\ log' \in Seq(Messages) /\ Len(log') \in Len(log)..MaxLog
      /\ \A o \in 1..Len(log) : log'[o] = log[o]
  <2>1. CASE log' = log
    BY <1>5, <2>1
  <2>2. CASE Len(log) < MaxLog /\ log' = Append(log, log[cur[w]])
    <3>1. log[cur[w]] \in Messages
      BY <1>3, <1>5
    <3>2. QED
      BY <1>5, <2>2, <3>1
  <2>3. QED
    BY <2>1, <2>2 DEF SettlesOrRaises, Settle, SettleRaises, AdapterCall, Ack, AckFails,
       Nack, Requeue, RequeueFails, SendToDlq, adapterVars
<1>7. /\ UNCHANGED <<connected, offsetReset, configVars, starts, running, paused,
                     store, runs, dropped>>
      /\ inflight' = inflight \/ Forget(cur[w])
      /\ committed' \in {committed, inflight[Id(cur[w])]}
      /\ inflight[Id(cur[w])] = NoEntry =>
            committed' = committed /\ position' = position
      /\ position' \in {position, inflight[Id(cur[w])]}
  BY DEF SettlesOrRaises, Settle, SettleRaises, AdapterCall, Ack, AckFails, Nack,
     Requeue, RequeueFails, SendToDlq, adapterVars
<1>8. \/ done' = done \cup {cur[w]} /\ errored' = errored
      \/ done' = done /\ errored' = errored \cup {cur[w]}
  BY DEF SettlesOrRaises, Settle, SettleRaises
<1>9. QED
  BY <1>2, <1>3, <1>4, <1>6, <1>7, <1>8

LEMMA SettleIInv ==
  ASSUME IInv, NEW w \in Workers, SettlesOrRaises(w)
  PROVE  IInv'
<1> DEFINE k == Id(cur[w])
<1>1. TypeOK /\ HoldsRecord
  BY DEF IInv
<1>2. /\ pc[w] = "settle" /\ cur[w] \in 1..Len(log)
      /\ UNCHANGED <<connected, offsetReset, configVars, starts, running, paused,
                     store, runs, dropped>>
      /\ faults' \in 0..MaxFaults
      /\ \/ done' = done \cup {cur[w]} /\ errored' = errored
         \/ done' = done /\ errored' = errored \cup {cur[w]}
      /\ log' \in Seq(Messages) /\ Len(log') \in Len(log)..MaxLog
      /\ \A o \in 1..Len(log) : log'[o] = log[o]
      /\ inflight' = inflight \/ inflight' = [inflight EXCEPT ![k] = NoEntry]
      /\ committed' \in {committed, inflight[k]}
      /\ inflight[k] = NoEntry => committed' = committed /\ position' = position
      /\ position' \in {position, inflight[k]}
  BY SettleFacts DEF Forget
<1>3. /\ pc' \in [Workers -> Stages] /\ pc'[w] = "fetch"
      /\ cur' \in [Workers -> 0..MaxLog]
      /\ attempt' \in [Workers -> 1..(MaxRetries + 1)]
      /\ how' \in [Workers -> AckPolicies]
      /\ ~Busy(w)'
      /\ \A v \in Workers : v # w => pc'[v] = pc[v] /\ cur'[v] = cur[v]
  BY <1>1, SettleFacts, LetGoFacts
<1>4. Len(log) \in Nat /\ Len(log) <= MaxLog /\ cur[w] \in Offsets
  BY <1>1, <1>2 DEF TypeOK, AdapterTypeOK, Offsets
<1>5. k \in Ids /\ inflight[k] \in 0..MaxLog
  <2>1. log[cur[w]] \in Messages
    BY <1>1, <1>2 DEF TypeOK, AdapterTypeOK
  <2>2. k \in Ids
    BY <2>1 DEF Id
  <2>3. QED
    BY <1>1, <2>2 DEF TypeOK, AdapterTypeOK
<1> HIDE DEF k
<1>6. AdapterTypeOK'
  <2>1. inflight' \in [Ids -> 0..MaxLog]
    <3>1. inflight \in [Ids -> 0..MaxLog]
      BY <1>1 DEF TypeOK, AdapterTypeOK
    <3>2. inflight' = inflight \/ inflight' = [inflight EXCEPT ![k] = NoEntry]
      BY <1>2
    <3>3. QED
      BY <3>1, <3>2 DEF NoEntry
  <2>2. committed' \in 0..MaxLog
    BY <1>1, <1>2, <1>5 DEF TypeOK, AdapterTypeOK
  <2>3. position' \in 1..(MaxLog + 1)
    <3>1. position \in 1..(MaxLog + 1)
      BY <1>1 DEF TypeOK, AdapterTypeOK
    <3>2. CASE inflight[k] = NoEntry
      BY <1>2, <3>1, <3>2
    <3>3. CASE inflight[k] # NoEntry
      BY <1>2, <1>5, <3>1, <3>3 DEF NoEntry
    <3>4. QED
      BY <3>2, <3>3
  <2>4. log' \in Seq(Messages) /\ Len(log') <= MaxLog
    BY <1>2, <1>4
  <2>5. QED
    BY <1>1, <1>2, <2>1, <2>2, <2>3, <2>4 DEF TypeOK, AdapterTypeOK
<1>7. TypeOK'
  <2>1. done' \in SUBSET Offsets /\ errored' \in SUBSET Offsets
    BY <1>1, <1>2, <1>4 DEF TypeOK
  <2>2. QED
    BY <1>1, <1>2, <1>3, <1>6, <2>1 DEF TypeOK, configVars
<1>8. HoldsRecord'
  <2>1. 1..Len(log) \subseteq 1..Len(log')
    BY <1>2, <1>4
  <2>2. \A v \in Workers : Busy(v)' => v # w /\ Busy(v) /\ cur'[v] = cur[v]
    BY <1>3 DEF Busy
  <2>3. QED
    BY <1>1, <2>1, <2>2 DEF HoldsRecord
<1>9. SingleInv'
  <2> SUFFICES ASSUME Single' PROVE SingleInv'
    BY DEF SingleInv
  <2>1. Single
    BY <1>2 DEF Single, configVars
  <2>2. w = 1 /\ Busy(1) /\ ~Busy(1)'
    BY <1>2, <1>3, <2>1, OnlyWorkerOne DEF Busy
  <2>3. /\ \A v \in Workers : v # 1 => pc[v] = "off"
        /\ 1..committed \subseteq done \cup errored
        /\ connected => FinishedBefore(position) /\ position = cur[1] + 1
        /\ inflight[k] \in {NoEntry, cur[1]}
        /\ ~connected => inflight = NoneInflight
    BY <2>1, <2>2 DEF IInv, SingleInv, k
  <2>4. cur[1] \in Nat /\ committed \in Nat /\ position \in Nat
    BY <1>1, <1>2, <2>2 DEF TypeOK, AdapterTypeOK
  <2>5. connected =>
          \A o \in Nat : 1 <= o /\ o < position => o \in done' \cup errored'
    <3>1. done \cup errored \cup {cur[1]} \subseteq done' \cup errored'
      BY <1>2, <2>2
    <3>2. QED
      BY <2>3, <3>1 DEF FinishedBefore
  <2>6. inflight[k] # NoEntry => connected
    BY <1>5, <2>3 DEF NoneInflight
  <2>7. 1..committed' \subseteq done' \cup errored'
    <3>1. CASE committed' = committed
      BY <1>2, <2>3, <3>1
    <3>2. CASE committed' = cur[1] /\ connected
      BY <2>3, <2>4, <2>5, <3>2
    <3>3. QED
      BY <1>2, <2>3, <2>6, <3>1, <3>2
  <2>8. connected' => FinishedBefore(position)'
    <3>1. position' \in {position, cur[1]}
      BY <1>2, <2>3
    <3>2. connected => \A o \in Nat : 1 <= o /\ o < position' => o \in done' \cup errored'
      BY <2>3, <2>4, <2>5, <3>1
    <3>3. QED
      BY <1>2, <3>2 DEF FinishedBefore
  <2>9. ~connected' => inflight' = NoneInflight
    BY <1>2, <2>3 DEF NoneInflight
  <2>10. \A v \in Workers : v # 1 => pc'[v] = "off"
    BY <1>3, <2>2, <2>3
  <2>11. QED
    BY <2>2, <2>7, <2>8, <2>9, <2>10 DEF SingleInv
<1>10. QED
  BY <1>7, <1>8, <1>9 DEF IInv

-----------------------------------------------------------------------------
LEMMA ProduceIInv == ASSUME IInv, Produce PROVE IInv'
<1>1. PICK m \in Messages : Publish(m)
  BY DEF Produce
<1>2. /\ UNCHANGED <<committed, position, inflight, connected, offsetReset, configVars,
                     starts, running, paused, workerVars, store, runs, outcomeVars, faults>>
      /\ log' = Append(log, m) /\ Len(log) < MaxLog
  BY <1>1 DEF Publish, Produce
<1>3. log \in Seq(Messages)
  BY DEF IInv, TypeOK, AdapterTypeOK
<1>4. /\ log' \in Seq(Messages) /\ Len(log') = Len(log) + 1 /\ Len(log) \in Nat
      /\ \A o \in 1..Len(log) : log'[o] = log[o]
  BY <1>2, <1>3
<1>5. TypeOK'
  BY <1>2, <1>4 DEF IInv, TypeOK, AdapterTypeOK, configVars, workerVars, outcomeVars
<1>6. HoldsRecord'
  BY <1>2, <1>4 DEF IInv, HoldsRecord, Busy, workerVars
<1>7. SingleInv'
  <2>1. Busy(1) => Id(cur[1])' = Id(cur[1])
    BY <1>2, <1>4, OneIsAWorker DEF IInv, HoldsRecord, Id, workerVars
  <2>2. QED
    BY <1>2, <2>1 DEF IInv, SingleInv, Single, FinishedBefore, Busy, configVars, workerVars,
       outcomeVars
<1>8. QED
  BY <1>5, <1>6, <1>7 DEF IInv

(* A fresh trigger and adapter: the consumer resumes behind the committed  *)
(* offset, and what is committed is finished.                              *)
LEMMA StartIInv == ASSUME IInv, Start PROVE IInv'
<1>1. /\ AllOff /\ connected' = TRUE
      /\ starts' = starts + 1 /\ starts < MaxStarts
      /\ running' = TRUE /\ paused' = FALSE
      /\ position' = IF committed = 0 /\ offsetReset = "latest"
                       THEN Len(log) + 1 ELSE committed + 1
      /\ pc' = [w \in Workers |-> IF w <= concurrency THEN "fetch" ELSE "off"]
      /\ UNCHANGED <<log, committed, inflight, offsetReset, configVars, cur, attempt, how,
                     store, runs, outcomeVars, faults>>
  BY DEF Start, BeginStart, Connect
<1>2. \A w \in Workers : ~Busy(w)'
  BY <1>1 DEF Busy
<1>3. TypeOK'
  <2>1. position' \in 1..(MaxLog + 1)
    BY <1>1 DEF IInv, TypeOK, AdapterTypeOK
  <2>2. pc' \in [Workers -> Stages]
    BY <1>1 DEF Stages
  <2>3. starts' \in 0..MaxStarts
    BY <1>1 DEF IInv, TypeOK
  <2>4. QED
    BY <1>1, <2>1, <2>2, <2>3 DEF IInv, TypeOK, AdapterTypeOK, configVars, outcomeVars
<1>4. HoldsRecord'
  BY <1>2 DEF HoldsRecord
<1>5. SingleInv'
  <2> SUFFICES ASSUME Single' PROVE SingleInv'
    BY DEF SingleInv
  <2>1. Single /\ concurrency = 1
    BY <1>1 DEF Single, configVars
  <2>2. 1..committed \subseteq done \cup errored
    BY <2>1 DEF IInv, SingleInv
  <2>3. position' = committed + 1 /\ committed \in Nat
    BY <1>1, <2>1 DEF Single, IInv, TypeOK, AdapterTypeOK
  <2>4. FinishedBefore(position)'
    BY <1>1, <2>2, <2>3 DEF FinishedBefore, outcomeVars
  <2>5. \A v \in Workers : v # 1 => pc'[v] = "off"
    BY <1>1, <2>1 DEF Workers
  <2>6. QED
    BY <1>1, <1>2, <2>2, <2>4, <2>5, OneIsAWorker DEF SingleInv, outcomeVars
<1>6. QED
  BY <1>3, <1>4, <1>5 DEF IInv

(* The adapter is closed, the workers go on (stop) or are gone (crash).    *)
LEMMA DisconnectIInv == ASSUME IInv, Stop \/ Crash PROVE IInv'
<1>1. /\ connected' = FALSE /\ position' = 1 /\ inflight' = NoneInflight
      /\ running' = FALSE /\ paused' = FALSE
      /\ UNCHANGED <<log, committed, offsetReset, configVars, starts, store, runs,
                     outcomeVars>>
      /\ faults' \in 0..MaxFaults
  BY DEF Stop, Crash, Disconnect, Fault, IInv, TypeOK
<1>2. \/ UNCHANGED workerVars
      \/ /\ pc' = [w \in Workers |-> "off"]
         /\ cur' = [w \in Workers |-> 0]
         /\ attempt' = [w \in Workers |-> 1]
         /\ how' = [w \in Workers |-> "ack"]
  BY DEF Stop, Crash
<1>3. /\ pc' \in [Workers -> Stages] /\ cur' \in [Workers -> 0..MaxLog]
      /\ attempt' \in [Workers -> 1..(MaxRetries + 1)]
      /\ how' \in [Workers -> AckPolicies]
      /\ \A w \in Workers : pc'[w] # "off" => pc'[w] = pc[w] /\ cur'[w] = cur[w]
  <2>1. CASE UNCHANGED workerVars
    BY <2>1 DEF workerVars, IInv, TypeOK
  <2>2. CASE /\ pc' = [w \in Workers |-> "off"]
             /\ cur' = [w \in Workers |-> 0]
             /\ attempt' = [w \in Workers |-> 1]
             /\ how' = [w \in Workers |-> "ack"]
    BY <2>2 DEF Stages, AckPolicies
  <2>3. QED
    BY <1>2, <2>1, <2>2
<1>4. AdapterTypeOK'
  <2>1. NoneInflight \in [Ids -> 0..MaxLog]
    BY DEF NoneInflight, NoEntry
  <2>2. inflight' \in [Ids -> 0..MaxLog]
    BY <1>1, <2>1
  <2>3. position' \in 1..(MaxLog + 1)
    <3>1. position' = 1
      BY <1>1
    <3>2. QED
      BY <3>1
  <2>4. /\ log' \in Seq(Messages) /\ Len(log') <= MaxLog
        /\ committed' \in 0..MaxLog
        /\ offsetReset' \in {"earliest", "latest"}
    BY <1>1 DEF IInv, TypeOK, AdapterTypeOK
  <2>5. QED
    BY <1>1, <2>2, <2>3, <2>4 DEF AdapterTypeOK
<1>5. TypeOK'
  BY <1>1, <1>3, <1>4 DEF IInv, TypeOK, configVars, outcomeVars
<1>6. HoldsRecord'
  BY <1>1, <1>3 DEF IInv, HoldsRecord, Busy
<1>7. SingleInv'
  <2> SUFFICES ASSUME Single' PROVE SingleInv'
    BY DEF SingleInv
  <2>1. Single
    BY <1>1 DEF Single, configVars
  <2>2. Busy(1)' => inflight'[Id(cur[1])'] = NoEntry
    <3> SUFFICES ASSUME Busy(1)' PROVE inflight'[Id(cur[1])'] = NoEntry
      OBVIOUS
    <3>1. log \in Seq(Messages) /\ cur'[1] \in 1..Len(log)
      BY <1>1, <1>6, OneIsAWorker DEF HoldsRecord, IInv, TypeOK, AdapterTypeOK
    <3>2. Id(cur[1])' \in Ids
      BY <1>1, <3>1 DEF Id
    <3>3. QED
      BY <1>1, <3>2 DEF NoneInflight
  <2>3. \A v \in Workers : v # 1 => pc'[v] = "off"
    BY <1>3, <2>1 DEF IInv, SingleInv
  <2>4. QED
    BY <1>1, <2>1, <2>2, <2>3 DEF IInv, SingleInv, outcomeVars
<1>8. QED
  BY <1>5, <1>6, <1>7 DEF IInv

(* The steps that touch neither a worker nor the adapter.                  *)
LEMMA ElsewhereIInv ==
  ASSUME IInv, StartFails \/ Pause \/ Resume \/ Expire \/ UNCHANGED vars
  PROVE  IInv'
<1>1. /\ UNCHANGED <<adapterVars, configVars, workerVars, runs, outcomeVars>>
      /\ starts' \in 0..MaxStarts /\ faults' \in 0..MaxFaults
      /\ store' \in SUBSET Ids
      /\ running' \in BOOLEAN /\ paused' \in BOOLEAN
  <2>1. TypeOK
    BY DEF IInv
  <2>2. CASE StartFails
    <3>1. starts' \in 0..MaxStarts
      BY <2>1, <2>2 DEF StartFails, BeginStart, TypeOK
    <3>2. faults' \in 0..MaxFaults
      BY <2>1, <2>2 DEF StartFails, Fault, TypeOK
    <3>3. QED
      BY <2>1, <2>2, <3>1, <3>2 DEF StartFails, BeginStart, TypeOK
  <2>3. CASE Pause \/ Resume
    BY <2>1, <2>3 DEF Pause, Resume, TypeOK, workerVars
  <2>4. CASE Expire
    BY <2>1, <2>4 DEF Expire, Fault, TypeOK, workerVars
  <2>5. CASE UNCHANGED vars
    BY <2>1, <2>5 DEF vars, TypeOK
  <2>6. QED
    BY <2>2, <2>3, <2>4, <2>5
<1>2. TypeOK'
  BY <1>1 DEF IInv, TypeOK, AdapterTypeOK, adapterVars, configVars, workerVars, outcomeVars
<1>3. HoldsRecord'
  BY <1>1 DEF IInv, HoldsRecord, Busy, adapterVars, workerVars
<1>4. SingleInv'
  BY <1>1 DEF IInv, SingleInv, Single, FinishedBefore, Busy, Id, adapterVars, configVars,
     workerVars, outcomeVars
<1>5. QED
  BY <1>2, <1>3, <1>4 DEF IInv

-----------------------------------------------------------------------------
LEMMA QueueStep ==
  ASSUME IInv, [Next]_vars
  PROVE  IInv'
<1>1. CASE Produce
  BY <1>1, ProduceIInv
<1>2. CASE Start
  BY <1>2, StartIInv
<1>3. CASE Stop \/ Crash
  BY <1>3, DisconnectIInv
<1>4. CASE StartFails \/ Pause \/ Resume \/ Expire \/ UNCHANGED vars
  BY <1>4, ElsewhereIInv
<1>5. ASSUME NEW w \in Workers, WorkerStep(w) PROVE IInv'
  <2>1. CASE Takes(w)
    BY <2>1, TakesIInv
  <2>2. CASE LeaveLoop(w)
    BY <2>2, LeaveLoopIInv
  <2>3. CASE SettlesOrRaises(w)
    BY <2>3, SettleIInv
  <2>4. CASE Proceeds(w)
    BY <2>4, ProceedsIInv
  <2>5. CASE GivesUp(w)
    BY <2>5, GivesUpIInv
  <2>6. QED
    BY <1>5, <2>1, <2>2, <2>3, <2>4, <2>5
       DEF WorkerStep, SettlesOrRaises, Proceeds, Takes, GivesUp
<1>6. QED
  BY <1>1, <1>2, <1>3, <1>4, <1>5 DEF Next

(* The inductive invariant holds always.                                   *)
THEOREM QueueInvariance == Spec => []IInv
<1>1. IInv /\ [Next]_vars => IInv'
  BY QueueStep
<1>2. QED
  BY InitIInv, <1>1, PTL DEF Spec

(* Types, for every number of workers, messages and records.               *)
THEOREM QueueTypeOK == Spec => []TypeOK
<1>1. IInv => TypeOK
  BY DEF IInv
<1>2. QED
  BY QueueInvariance, <1>1, PTL

(* With one worker and a consumer that starts at the earliest record, a    *)
(* record the consumer has passed is finished, was given up with an        *)
(* exception, or is the one in hand; whatever fails, stops or crashes.     *)
THEOREM QueueSingleWorker == Spec => []SingleWorkerLosesNothing
<1>1. IInv => SingleWorkerLosesNothing
  <2> SUFFICES ASSUME IInv, Single, connected
               PROVE  Lost = {}
    BY DEF SingleWorkerLosesNothing, Single, Lost
  <2>1. FinishedBefore(position) /\ position \in Nat
    BY DEF IInv, SingleInv, TypeOK, AdapterTypeOK
  <2>2. Busy(1) => cur[1] \in InProcess
    BY OneIsAWorker DEF InProcess
  <2>3. \A o \in 1..(position - 1) : o \in done \cup errored \cup InProcess
    BY <2>1, <2>2 DEF FinishedBefore
  <2>4. QED
    BY <2>3 DEF Lost
<1>2. QED
  BY QueueInvariance, <1>1, PTL

-----------------------------------------------------------------------------
(* Any number of workers: nothing is lost while the consumer is connected  *)

Handled == done \cup errored \cup InProcess

(* The consumer may come to o, now or after going back for a requeue; and  *)
(* it has already been there.                                              *)
Reachable(o) == o >= position \/ \E k \in Ids : inflight[k] # NoEntry /\ inflight[k] <= o
Passed(o)    == o < position \/ \E k \in Ids : o <= inflight[k]

(* What a consumer that goes back skips when it goes on from another record*)
(* is handled. Without a consumer nothing is remembered.                   *)
PassedInv ==
  /\ ~running => ~connected
  /\ ~connected => position = 1 /\ inflight = NoneInflight
  /\ \A o \in Offsets : Reachable(o) /\ Passed(o) => o \in Handled

(* The steps of a worker on a record.                                      *)
OnRecord(w) == Proceeds(w) \/ Takes(w) \/ GivesUp(w) \/ SettlesOrRaises(w)

(* A worker keeps its record until that is finished or given up.           *)
LEMMA HandledStep ==
  ASSUME IInv, NEW w \in Workers, OnRecord(w)
  PROVE  Handled \subseteq Handled'
<1>1. CASE Proceeds(w)
  <2>1. /\ UNCHANGED <<cur, errored>> /\ Busy(w) /\ Busy(w)'
        /\ \A v \in Workers : v # w => pc'[v] = pc[v]
        /\ done \subseteq done'
    BY <1>1, ProceedsFacts
  <2>2. \A v \in Workers : Busy(v)' <=> Busy(v)
    BY <2>1 DEF Busy
  <2>3. InProcess' = InProcess
    BY <2>1, <2>2 DEF InProcess
  <2>4. QED
    BY <2>1, <2>3 DEF Handled
<1>2. CASE Takes(w)
  <2>1. pc \in [Workers -> Stages] /\ cur \in [Workers -> 0..MaxLog]
    BY DEF IInv, TypeOK
  <2>2. /\ pc[w] = "fetch" /\ cur' = [cur EXCEPT ![w] = position]
        /\ \E s \in {"held", "settle", "governance"} : pc' = [pc EXCEPT ![w] = s]
        /\ UNCHANGED outcomeVars
    BY <1>2, TakesFacts
  <2>3. \A v \in Workers : Busy(v) => Busy(v)' /\ cur'[v] = cur[v]
    BY <2>1, <2>2 DEF Busy
  <2>4. InProcess \subseteq InProcess'
    BY <2>3 DEF InProcess
  <2>5. QED
    BY <2>2, <2>4 DEF Handled, outcomeVars
<1>3. CASE SettlesOrRaises(w)
  <2>1. /\ LetGo(w, "fetch") /\ TypeOK
        /\ done \subseteq done' /\ errored \subseteq errored'
        /\ cur[w] \in done' \cup errored'
    BY <1>3, SettleFacts DEF IInv
  <2>2. \A v \in Workers : v # w => pc'[v] = pc[v] /\ cur'[v] = cur[v]
    BY <2>1, LetGoFacts
  <2>3. \A v \in Workers : v # w /\ Busy(v) => Busy(v)' /\ cur'[v] = cur[v]
    BY <2>2 DEF Busy
  <2>4. ASSUME NEW v \in Workers, Busy(v)
        PROVE  cur[v] \in Handled'
    <3>1. CASE v = w
      BY <2>1, <3>1 DEF Handled
    <3>2. CASE v # w
      BY <2>3, <2>4, <3>2 DEF Handled, InProcess
    <3>3. QED
      BY <3>1, <3>2
  <2>5. QED
    BY <2>1, <2>4 DEF Handled, InProcess
<1>4. CASE GivesUp(w)
  <2>1. /\ TypeOK /\ UNCHANGED done /\ errored \subseteq errored'
        /\ Busy(w) => cur[w] \in errored'
    BY <1>4, GivesUpFacts DEF IInv, PassesRecord, Busy
  <2>2. \A v \in Workers : v # w => pc'[v] = pc[v] /\ cur'[v] = cur[v]
    BY <1>4, <2>1, GivesUpFacts, LetGoFacts
  <2>3. ASSUME NEW v \in Workers, Busy(v)
        PROVE  cur[v] \in Handled'
    BY <2>1, <2>2, <2>3 DEF Handled, InProcess, Busy
  <2>4. QED
    BY <2>1, <2>3 DEF Handled, InProcess
<1>5. QED
  BY <1>1, <1>2, <1>3, <1>4 DEF OnRecord

(* A record the consumer passes is in hand, or given up.                   *)
LEMMA PassesFacts ==
  ASSUME IInv, NEW w \in Workers, Takes(w) \/ (GivesUp(w) /\ position' # position)
  PROVE  /\ position' = position + 1
         /\ inflight' \in {inflight, [inflight EXCEPT ![Id(position)] = position]}
         /\ position \in Handled'
<1>1. CASE Takes(w)
  <2>1. /\ position' = position + 1
        /\ inflight' = [inflight EXCEPT ![Id(position)] = position]
        /\ cur' = [cur EXCEPT ![w] = position]
        /\ \E s \in {"held", "settle", "governance"} : pc' = [pc EXCEPT ![w] = s]
    BY <1>1, TakesFacts
  <2>2. cur'[w] = position /\ Busy(w)'
    BY <2>1 DEF IInv, TypeOK, Busy
  <2>3. QED
    BY <2>1, <2>2 DEF Handled, InProcess
<1>2. CASE GivesUp(w) /\ position' # position
  BY <1>2, GivesUpFacts DEF PassesRecord, Handled
<1>3. QED
  BY <1>1, <1>2

(* Where the consumer may go and has been only narrows, but for the record *)
(* it has just received.                                                   *)
LEMMA ReachStep ==
  ASSUME IInv, NEW w \in Workers, OnRecord(w),
         NEW o \in Offsets, Reachable(o)', Passed(o)'
  PROVE  o \in Handled' \/ (Reachable(o) /\ Passed(o))
<1>1. TypeOK /\ HoldsRecord
  BY DEF IInv
<1>2. inflight \in [Ids -> 0..MaxLog] /\ position \in 1..(MaxLog + 1)
  BY <1>1 DEF TypeOK, AdapterTypeOK
<1>3. CASE Proceeds(w)
  <2>1. UNCHANGED <<position, inflight>>
    BY <1>3, ProceedsFacts DEF adapterVars
  <2>2. QED
    BY <2>1 DEF Reachable, Passed
<1>4. CASE Takes(w) \/ (GivesUp(w) /\ position' # position)
  <2>1. /\ position' = position + 1
        /\ inflight' \in {inflight, [inflight EXCEPT ![Id(position)] = position]}
        /\ position \in Handled'
    BY <1>4, PassesFacts
  <2>2. \A k \in Ids : inflight'[k] \in {inflight[k], position}
    BY <1>2, <2>1
  <2>3. Reachable(o)
    BY <1>2, <2>1, <2>2 DEF Reachable, Offsets
  <2>4. o # position => Passed(o)
    BY <1>2, <2>1, <2>2 DEF Passed, Offsets
  <2>5. QED
    BY <2>1, <2>3, <2>4
<1>5. CASE SettlesOrRaises(w)
  <2> DEFINE j == Id(cur[w])
  <2>1. /\ inflight' = inflight \/ inflight' = [inflight EXCEPT ![j] = NoEntry]
        /\ inflight[j] = NoEntry => position' = position
        /\ position' \in {position, inflight[j]}
        /\ cur[w] \in 1..Len(log)
    BY <1>5, SettleFacts DEF Forget
  <2>2. j \in Ids
    BY <1>1, <2>1 DEF TypeOK, AdapterTypeOK, Id
  <2> HIDE DEF j
  <2>3. \A k \in Ids : inflight'[k] \in {inflight[k], NoEntry}
    BY <1>2, <2>1
  <2>4. Reachable(o)
    BY <1>2, <2>1, <2>2, <2>3 DEF Reachable, Offsets, NoEntry
  <2>5. Passed(o)
    BY <1>2, <2>1, <2>2, <2>3 DEF Passed, Offsets, NoEntry
  <2>6. QED
    BY <2>4, <2>5
<1>6. CASE GivesUp(w) /\ position' = position
  <2>1. UNCHANGED <<position, inflight>>
    BY <1>2, <1>6, GivesUpFacts DEF PassesRecord
  <2>2. QED
    BY <2>1 DEF Reachable, Passed
<1>7. QED
  BY <1>3, <1>4, <1>5, <1>6 DEF OnRecord

LEMMA NothingPassed ==
  ASSUME inflight = NoneInflight, NEW o \in Offsets
  PROVE  /\ Reachable(o) <=> o >= position
         /\ Passed(o) <=> o < position
  BY DEF Reachable, Passed, NoneInflight, NoEntry, Offsets

LEMMA PassedStep ==
  ASSUME IInv, PassedInv, [Next]_vars
  PROVE  PassedInv'
<1>0. IInv' /\ TypeOK
  BY QueueStep DEF IInv
<1>1. ASSUME NEW w \in Workers, OnRecord(w)
      PROVE  PassedInv'
  <2>1. UNCHANGED <<running, connected>>
    <3>1. CASE Proceeds(w)
      BY <3>1, ProceedsFacts DEF adapterVars
    <3>2. CASE Takes(w)
      BY <3>2, TakesFacts
    <3>3. CASE SettlesOrRaises(w)
      BY <3>3, SettleFacts
    <3>4. CASE GivesUp(w)
      BY <3>4, GivesUpFacts
    <3>5. QED
      BY <1>1, <3>1, <3>2, <3>3, <3>4 DEF OnRecord
  <2>2. ~connected => UNCHANGED <<position, inflight>>
    <3>1. CASE Proceeds(w)
      BY <3>1, ProceedsFacts DEF adapterVars
    <3>2. CASE Takes(w)
      BY <3>2, TakesFacts
    <3>3. ASSUME SettlesOrRaises(w), ~connected
          PROVE  UNCHANGED <<position, inflight>>
      <4>1. /\ inflight' = inflight \/ Forget(cur[w])
            /\ inflight[Id(cur[w])] = NoEntry => position' = position
            /\ cur[w] \in 1..Len(log)
        BY <3>3, SettleFacts
      <4>2. Id(cur[w]) \in Ids
        BY <1>0, <4>1 DEF TypeOK, AdapterTypeOK, Id
      <4>3. inflight = NoneInflight
        BY <3>3 DEF PassedInv
      <4>4. inflight[Id(cur[w])] = NoEntry /\ (Forget(cur[w]) => inflight' = inflight)
        BY <4>2, <4>3 DEF NoneInflight, Forget
      <4>5. QED
        BY <4>1, <4>4
    <3>4. CASE GivesUp(w)
      BY <3>4, GivesUpFacts DEF PassesRecord
    <3>5. QED
      BY <1>1, <3>1, <3>2, <3>3, <3>4 DEF OnRecord
  <2>3. ASSUME NEW o \in Offsets, Reachable(o)', Passed(o)'
        PROVE  o \in Handled'
    BY <1>1, <2>3, HandledStep, ReachStep DEF PassedInv
  <2>4. QED
    BY <2>1, <2>2, <2>3 DEF PassedInv, NoneInflight
<1>2. CASE Start
  <2>1. /\ running' /\ connected' /\ UNCHANGED inflight
        /\ inflight = NoneInflight
    BY <1>2 DEF Start, BeginStart, Connect, PassedInv
  <2>2. inflight' = NoneInflight'
    BY <2>1 DEF NoneInflight
  <2>3. position' \in 1..(MaxLog + 1)
    BY <1>0 DEF IInv, TypeOK, AdapterTypeOK
  <2>4. \A o \in Offsets : ~(Reachable(o)' /\ Passed(o)')
    BY <2>2, <2>3 DEF Reachable, Passed, NoneInflight, NoEntry, Offsets
  <2>5. QED
    BY <2>1, <2>4 DEF PassedInv
<1>3. CASE Stop \/ Crash
  <2>1. ~connected' /\ position' = 1 /\ inflight' = NoneInflight' /\ ~running'
    BY <1>3 DEF Stop, Crash, Disconnect, NoneInflight
  <2>2. \A o \in Offsets : ~Passed(o)'
    BY <2>1 DEF Passed, NoneInflight, NoEntry, Offsets
  <2>3. QED
    BY <2>1, <2>2 DEF PassedInv
<1>4. CASE StartFails \/ Produce \/ Pause \/ Resume \/ Expire \/ UNCHANGED vars
  <2>1. /\ UNCHANGED <<position, inflight, connected, done, errored, cur, pc>>
        /\ running' = running \/ running'
    BY <1>4 DEF StartFails, BeginStart, Produce, Publish, Pause, Resume, Expire, vars,
       adapterVars, workerVars, outcomeVars
  <2>2. Handled' = Handled
    BY <2>1 DEF Handled, InProcess, Busy
  <2>3. \A o \in Offsets : (Reachable(o)' <=> Reachable(o)) /\ (Passed(o)' <=> Passed(o))
    BY <2>1 DEF Reachable, Passed
  <2>4. QED
    BY <2>1, <2>2, <2>3 DEF PassedInv, NoneInflight
<1>5. ASSUME NEW w \in Workers, LeaveLoop(w)
      PROVE  PassedInv'
  <2>1. UNCHANGED <<running, connected, position, inflight>> /\ ~connected
    BY <1>5 DEF LeaveLoop, adapterVars
  <2>2. \A o \in Offsets : ~Passed(o)'
    BY <2>1 DEF PassedInv, Passed, NoneInflight, NoEntry, Offsets
  <2>3. QED
    BY <2>1, <2>2 DEF PassedInv, NoneInflight
<1>6. QED
  BY <1>1, <1>2, <1>3, <1>4, <1>5
     DEF Next, WorkerStep, OnRecord, Proceeds, Takes, GivesUp, SettlesOrRaises

(* However many workers, policies, retries, requeues that take the consumer*)
(* back, pauses and failing calls: while it stays connected no record gets *)
(* lost that was not lost before.                                          *)
THEOREM QueueNoLossWhileConnected == Spec => NoLossWhileConnected
<1>1. Init => PassedInv
  <2>1. ASSUME Init, NEW o \in Offsets
        PROVE  ~Passed(o)
    BY <2>1 DEF Init, AdapterInit, Passed, NoneInflight, NoEntry, Offsets
  <2>2. QED
    BY <2>1 DEF Init, AdapterInit, PassedInv
<1>2. IInv /\ PassedInv /\ [Next]_vars => PassedInv'
  BY PassedStep
<1>3. ASSUME IInv, PassedInv, [Next]_vars, connected, connected'
      PROVE  Lost' \subseteq Lost
  <2>1. TypeOK /\ IInv'
    BY <1>3, QueueStep DEF IInv
  <2>2. position \in 1..(MaxLog + 1) /\ position' \in 1..(MaxLog + 1)
    BY <2>1 DEF IInv, TypeOK, AdapterTypeOK
  <2>3. Lost = 1..(position - 1) \ Handled /\ Lost' = 1..(position' - 1) \ Handled'
    BY <1>3 DEF Lost, Handled
  <2>4. ASSUME NEW w \in Workers, OnRecord(w)
        PROVE  Lost' \subseteq Lost
    <3>1. Handled \subseteq Handled'
      BY <1>3, <2>4, HandledStep
    <3>2. ASSUME NEW o \in Lost'
          PROVE  o \in Lost
      <4>1. o \in Offsets /\ o < position' /\ o \notin Handled'
        <5>1. o \in 1..(position' - 1) /\ o \notin Handled'
          BY <2>3
        <5>2. \A p \in 1..(MaxLog + 1) : \A q \in 1..(p - 1) : q \in 1..MaxLog /\ q < p
          OBVIOUS
        <5>3. QED
          BY <2>2, <5>1, <5>2 DEF Offsets
      <4>2. o < position
        <5>1. CASE Proceeds(w)
          BY <1>3, <4>1, <5>1, ProceedsFacts DEF adapterVars
        <5>2. CASE Takes(w) \/ (GivesUp(w) /\ position' # position)
          <6>1. position' = position + 1 /\ position \in Handled'
            BY <1>3, <5>2, PassesFacts
          <6>2. QED
            BY <2>2, <4>1, <6>1 DEF Offsets
        <5>3. CASE SettlesOrRaises(w)
          <6> SUFFICES ASSUME ~(o < position) PROVE FALSE
            OBVIOUS
          <6>1. /\ position' \in {position, inflight[Id(cur[w])]}
                /\ cur[w] \in 1..Len(log)
            BY <1>3, <5>3, SettleFacts
          <6>2. Id(cur[w]) \in Ids /\ o < inflight[Id(cur[w])]
            BY <2>1, <4>1, <6>1 DEF TypeOK, AdapterTypeOK, Id
          <6>3. inflight[Id(cur[w])] \in Nat
            BY <2>1, <6>2 DEF TypeOK, AdapterTypeOK
          <6>4. Reachable(o) /\ Passed(o)
            BY <2>2, <4>1, <6>2, <6>3 DEF Reachable, Passed, Offsets
          <6>5. QED
            BY <1>3, <3>1, <4>1, <6>4 DEF PassedInv
        <5>4. CASE GivesUp(w) /\ position' = position
          BY <4>1, <5>4
        <5>5. QED
          BY <2>4, <5>1, <5>2, <5>3, <5>4 DEF OnRecord
      <4>3. QED
        BY <2>2, <2>3, <3>1, <4>1, <4>2 DEF Offsets
    <3>3. QED
      BY <3>2
  <2>5. CASE Start
    BY <1>3, <2>5 DEF Start, BeginStart, PassedInv
  <2>6. CASE StartFails \/ Produce \/ Pause \/ Resume \/ Expire \/ UNCHANGED vars
    BY <1>3, <2>6 DEF StartFails, Produce, Publish, Pause, Resume, Expire, vars, adapterVars,
                workerVars, outcomeVars, Lost, InProcess, Busy
  <2>7. CASE (Stop \/ Crash) \/ \E w \in Workers : LeaveLoop(w)
    BY <1>3, <2>7 DEF Stop, Crash, Disconnect, LeaveLoop
  <2>8. QED
    BY <1>3, <2>4, <2>5, <2>6, <2>7
       DEF Next, WorkerStep, OnRecord, Proceeds, Takes, GivesUp, SettlesOrRaises
<1>4. IInv /\ PassedInv /\ [Next]_vars => [connected /\ connected' => Lost' \subseteq Lost]_vars
  BY <1>3
<1>5. QED
  BY QueueInvariance, <1>1, <1>2, <1>4, PTL DEF Spec, NoLossWhileConnected

-----------------------------------------------------------------------------
(* Deduplication: how often a single worker makes the agent run a message, *)
(* and that only repeats are dropped, however many workers there are.      *)

(* With one worker nobody else runs.                                       *)
AloneInv == concurrency = 1 => \A w \in Workers : w # 1 => pc[w] = "off"

InHand(m, stage) == pc[1] = stage /\ log[cur[1]] = m

(* A run beyond the faults is on record, or about to be, and the agent is  *)
(* not asked for one then.                                                 *)
RunsInv ==
  concurrency = 1 /\ dedup =>
    \A m \in Messages :
      /\ runs[m] <= faults + 1
      /\ runs[m] <= faults \/ DedupOf[m] \in store \/ InHand(m, "remember")
      /\ InHand(m, "trigger") => runs[m] <= faults

(* What is in the store, or about to be, has run.                          *)
StoreInv ==
  /\ \A k \in store : \E m \in Messages : DedupOf[m] = k /\ runs[m] > 0
  /\ \A w \in Workers : pc[w] = "remember" => runs[log[cur[w]]] > 0

DropInv ==
  \A o \in dropped :
    o \in 1..Len(log) /\ \E m \in Messages : DedupOf[m] = DedupKey(o) /\ runs[m] > 0

-----------------------------------------------------------------------------
(* Only one worker runs                                                    *)

LEMMA AloneStep ==
  ASSUME IInv, AloneInv, [Next]_vars
  PROVE  AloneInv'
<1>0. TypeOK
  BY DEF IInv
<1>1. CASE Produce \/ StartFails \/ Stop \/ Pause \/ Resume \/ Expire \/ UNCHANGED vars
  <2>1. UNCHANGED <<concurrency, pc>>
    BY <1>1 DEF Produce, StartFails, Stop, Pause, Resume, Expire, vars, workerVars, configVars
  <2>2. QED
    BY <2>1 DEF AloneInv
<1>2. CASE Start \/ Crash
  <2> SUFFICES ASSUME concurrency' = 1, NEW w \in Workers, w # 1
               PROVE  pc'[w] = "off"
    BY DEF AloneInv
  <2>1. concurrency = 1 /\ ~(w <= 1)
    BY <1>2 DEF Start, Crash, configVars, Workers
  <2>2. QED
    BY <1>2, <2>1 DEF Start, Crash
<1>3. ASSUME NEW w \in Workers, WorkerStep(w) PROVE AloneInv'
  <2>1. pc[w] # "off" /\ concurrency' = concurrency
    BY <1>3 DEF WorkerStep, Receive, Release, ConsumeRaises, LeaveLoop, Govern,
       CheckSeen, CheckSeenFails, TriggerReturns, TriggerRaises, Remember,
       RememberFails, Settle, SettleRaises, configVars
  <2>2. \A v \in Workers : v # w => pc'[v] = pc[v]
    <3>1. pc' = pc \/ \E s \in Stages : pc' = [pc EXCEPT ![w] = s]
      BY <1>3 DEF WorkerStep, Receive, Release, ConsumeRaises, LeaveLoop, Govern,
         CheckSeen, CheckSeenFails, TriggerReturns, TriggerRaises, Remember,
         RememberFails, Settle, SettleRaises, BeginProcessing, Hold, SettleBy, LetGo,
         Goto, Stages
    <3>2. QED
      BY <1>0, <3>1 DEF TypeOK
  <2>3. QED
    BY <2>1, <2>2 DEF AloneInv
<1>4. QED
  BY <1>1, <1>2, <1>3 DEF Next

(* The record in the hands of the worker is one of the log.                *)
LEMMA HeldMessage ==
  ASSUME IInv, NEW w \in Workers, Busy(w)
  PROVE  /\ cur[w] \in 1..Len(log) /\ log[cur[w]] \in Messages
         /\ DedupKey(cur[w]) = DedupOf[log[cur[w]]]
  BY DEF IInv, HoldsRecord, TypeOK, AdapterTypeOK, DedupKey

-----------------------------------------------------------------------------
(* Runs of a single worker                                                 *)

(* A failure that adds no run excuses one more.                            *)
LEMMA FaultRuns ==
  ASSUME IInv, RunsInv, Fault, UNCHANGED <<runs, configVars>>
  PROVE  RunsInv'
<1>1. /\ faults \in Nat /\ faults' = faults + 1 /\ runs \in [Messages -> Nat]
      /\ UNCHANGED <<concurrency, dedup>>
  BY DEF IInv, TypeOK, Fault, configVars
<1> SUFFICES ASSUME concurrency = 1, dedup, NEW m \in Messages
             PROVE  runs[m] <= faults'
  BY <1>1 DEF RunsInv
<1>2. QED
  BY <1>1 DEF RunsInv

(* A step that leaves runs and store alone must not take a message from    *)
(* the one stage, nor bring it to the other.                               *)
LEMMA QuietRuns ==
  ASSUME IInv, RunsInv, UNCHANGED <<runs, store, faults, configVars>>,
         \A m \in Messages : InHand(m, "remember") => InHand(m, "remember")',
         \A m \in Messages : dedup /\ InHand(m, "trigger")' => InHand(m, "trigger")
  PROVE  RunsInv'
<1>1. UNCHANGED <<concurrency, dedup>>
  BY DEF configVars
<1> SUFFICES ASSUME concurrency = 1, dedup, NEW m \in Messages
             PROVE  /\ runs[m] <= faults + 1
                    /\ runs[m] <= faults \/ DedupOf[m] \in store \/ InHand(m, "remember")'
                    /\ InHand(m, "trigger")' => runs[m] <= faults
  BY <1>1 DEF RunsInv
<1>2. QED
  BY DEF RunsInv

LEMMA ElsewhereRuns ==
  ASSUME IInv, RunsInv,
         Produce \/ Start \/ StartFails \/ Stop \/ Pause \/ Resume \/ Crash \/ Expire
           \/ UNCHANGED vars
  PROVE  RunsInv'
<1>1. CASE StartFails \/ Crash \/ Expire
  BY <1>1, FaultRuns DEF StartFails, Crash, Expire
<1>2. CASE Produce
  <2>1. PICK n \in Messages : log' = Append(log, n)
    BY <1>2 DEF Produce, Publish
  <2>2. UNCHANGED <<runs, store, faults, configVars, pc, cur>>
    BY <1>2 DEF Produce, workerVars
  <2>3. ASSUME Busy(1) PROVE log'[cur[1]] = log[cur[1]]
    <3>1. cur[1] \in 1..Len(log) /\ log \in Seq(Messages)
      BY <2>3, HeldMessage, OneIsAWorker DEF IInv, TypeOK, AdapterTypeOK
    <3>2. QED
      BY <2>1, <3>1
  <2>4. QED
    BY <2>2, <2>3, QuietRuns DEF InHand, Busy
<1>3. CASE Start
  <2>1. /\ UNCHANGED <<runs, store, faults, configVars>>
        /\ pc[1] = "off" /\ pc'[1] \in {"off", "fetch"}
    BY <1>3, OneIsAWorker DEF Start, BeginStart, AllOff
  <2>2. QED
    BY <2>1, QuietRuns DEF InHand
<1>4. CASE Stop \/ Pause \/ Resume \/ UNCHANGED vars
  <2>1. UNCHANGED <<runs, store, faults, configVars, pc, cur, log>>
    BY <1>4 DEF Stop, Pause, Resume, vars, Disconnect, adapterVars, workerVars
  <2>2. QED
    BY <2>1, QuietRuns DEF InHand
<1>5. QED
  BY <1>1, <1>2, <1>3, <1>4

(* A worker that only receives, lets go, decides or tries again.           *)
LEMMA QuietWorkerRuns ==
  ASSUME IInv, RunsInv, NEW w \in Workers, w = 1,
         Receive(w) \/ Release(w) \/ LeaveLoop(w) \/ Govern(w) \/ TriggerRaises(w)
  PROVE  RunsInv'
<1>1. TypeOK
  BY DEF IInv
<1>2. UNCHANGED <<runs, store, faults, configVars>> /\ pc[1] # "remember"
  BY DEF Receive, Release, LeaveLoop, Govern, TriggerRaises
<1>3. ASSUME dedup, pc'[1] = "trigger"
      PROVE  pc[1] = "trigger" /\ UNCHANGED <<log, cur>>
  <2>1. TriggerRaises(w)
    BY <1>1, <1>3 DEF Receive, Release, LeaveLoop, Govern, BeginProcessing, Hold,
       SettleBy, LetGo, Goto, TypeOK
  <2>2. QED
    BY <2>1 DEF TriggerRaises, adapterVars
<1>4. QED
  BY <1>2, <1>3, QuietRuns DEF InHand

(* A worker that ends with its record or with its stream.                  *)
LEMMA EndsRuns ==
  ASSUME IInv, RunsInv, NEW w \in Workers, w = 1,
         Settle(w) \/ SettleRaises(w) \/ ConsumeRaises(w)
  PROVE  RunsInv'
<1>1. TypeOK /\ UNCHANGED <<runs, store, configVars>>
  BY DEF IInv, Settle, SettleRaises, ConsumeRaises
<1>2. pc[1] \in {"settle", "fetch"} /\ pc'[1] \in {"fetch", "off"}
  BY <1>1 DEF Settle, SettleRaises, ConsumeRaises, LetGo, Goto, TypeOK
<1>3. CASE Fault
  BY <1>1, <1>3, FaultRuns
<1>4. CASE UNCHANGED faults
  BY <1>1, <1>2, <1>4, QuietRuns DEF InHand
<1>5. QED
  BY <1>3, <1>4 DEF Settle, SettleRaises, ConsumeRaises

(* The store has to miss the key for the agent to be asked.                *)
LEMMA CheckSeenRuns ==
  ASSUME IInv, RunsInv, NEW w \in Workers, w = 1, CheckSeen(w)
  PROVE  RunsInv'
<1>1. /\ TypeOK /\ pc[1] = "exists" /\ UNCHANGED <<concurrency, dedup>>
      /\ UNCHANGED <<runs, store, faults, configVars, log, cur>>
  BY DEF IInv, CheckSeen, adapterVars, configVars
<1>2. CASE DedupKey(cur[w]) \in store
  <2>1. pc'[1] = "settle"
    BY <1>1, <1>2 DEF CheckSeen, SettleBy, Goto, TypeOK
  <2>2. QED
    BY <1>1, <2>1, QuietRuns DEF InHand
<1>3. CASE DedupKey(cur[w]) \notin store
  <2>1. pc'[1] = "trigger"
    BY <1>1, <1>3 DEF CheckSeen, Goto, TypeOK
  <2> SUFFICES ASSUME concurrency = 1, dedup, NEW m \in Messages
               PROVE  /\ runs[m] <= faults + 1
                      /\ runs[m] <= faults \/ DedupOf[m] \in store
                      /\ log[cur[1]] = m => runs[m] <= faults
    BY <1>1 DEF RunsInv, InHand
  <2>2. runs[m] <= faults + 1 /\ (runs[m] <= faults \/ DedupOf[m] \in store)
    BY <1>1 DEF RunsInv, InHand
  <2>3. QED
    BY <1>3, <2>2 DEF DedupKey
<1>4. QED
  BY <1>2, <1>3

(* One run more, and the key is about to be stored.                         *)
LEMMA TriggerReturnsRuns ==
  ASSUME IInv, RunsInv, NEW w \in Workers, w = 1, TriggerReturns(w)
  PROVE  RunsInv'
<1>1. /\ TypeOK /\ pc[1] = "trigger" /\ UNCHANGED <<concurrency, dedup>>
      /\ UNCHANGED <<store, faults, log, cur>>
      /\ runs' = [runs EXCEPT ![log[cur[1]]] = @ + 1]
  BY DEF IInv, TriggerReturns, adapterVars, configVars
<1>2. log[cur[1]] \in Messages /\ runs \in [Messages -> Nat] /\ faults \in Nat
  BY <1>1, HeldMessage DEF Busy, TypeOK
<1> SUFFICES ASSUME concurrency = 1, dedup, NEW m \in Messages
             PROVE  /\ runs'[m] <= faults + 1
                    /\ runs'[m] <= faults \/ DedupOf[m] \in store \/ InHand(m, "remember")'
                    /\ ~InHand(m, "trigger")'
  BY <1>1 DEF RunsInv
<1>3. pc'[1] = "remember"
  BY <1>1 DEF TriggerReturns, Goto, TypeOK
<1>4. CASE m = log[cur[1]]
  <2>1. runs[m] <= faults
    BY <1>1, <1>4 DEF RunsInv, InHand
  <2>2. runs'[m] <= faults + 1
    BY <1>1, <1>2, <1>4, <2>1
  <2>3. QED
    BY <1>1, <1>3, <1>4, <2>2 DEF InHand
<1>5. CASE m # log[cur[1]]
  <2>1. runs'[m] = runs[m]
    BY <1>1, <1>2, <1>5
  <2>2. QED
    BY <1>1, <1>3, <2>1 DEF RunsInv, InHand
<1>6. QED
  BY <1>4, <1>5

LEMMA RememberRuns ==
  ASSUME IInv, RunsInv, NEW w \in Workers, w = 1, Remember(w)
  PROVE  RunsInv'
<1>1. /\ TypeOK /\ pc[1] = "remember" /\ UNCHANGED <<concurrency, dedup>>
      /\ UNCHANGED <<runs, faults, log, cur>>
      /\ store' = store \cup {DedupOf[log[cur[1]]]}
  BY DEF IInv, Remember, adapterVars, configVars, DedupKey
<1>2. pc'[1] = "settle"
  BY <1>1 DEF Remember, SettleBy, Goto, TypeOK
<1> SUFFICES ASSUME concurrency = 1, dedup, NEW m \in Messages
             PROVE  /\ runs[m] <= faults + 1
                    /\ runs[m] <= faults \/ DedupOf[m] \in store'
  BY <1>1, <1>2 DEF RunsInv, InHand
<1>3. QED
  BY <1>1 DEF RunsInv, InHand

LEMMA RunsStep ==
  ASSUME IInv, AloneInv, RunsInv, [Next]_vars
  PROVE  RunsInv'
<1>1. CASE Produce \/ Start \/ StartFails \/ Stop \/ Pause \/ Resume \/ Crash \/ Expire
             \/ UNCHANGED vars
  BY <1>1, ElsewhereRuns
<1>2. ASSUME NEW w \in Workers, WorkerStep(w) PROVE RunsInv'
  <2>1. pc[w] # "off" /\ concurrency' = concurrency
    BY <1>2 DEF WorkerStep, Receive, Release, ConsumeRaises, LeaveLoop, Govern,
       CheckSeen, CheckSeenFails, TriggerReturns, TriggerRaises, Remember,
       RememberFails, Settle, SettleRaises, configVars
  <2>2. CASE concurrency # 1
    BY <2>1, <2>2 DEF RunsInv
  <2>3. CASE concurrency = 1
    <3>1. w = 1
      BY <2>1, <2>3 DEF AloneInv
    <3>2. CASE Receive(w) \/ Release(w) \/ LeaveLoop(w) \/ Govern(w) \/ TriggerRaises(w)
      BY <3>1, <3>2, QuietWorkerRuns
    <3>3. CASE CheckSeen(w)
      BY <3>1, <3>3, CheckSeenRuns
    <3>4. CASE CheckSeenFails(w) \/ RememberFails(w)
      BY <3>4, FaultRuns DEF CheckSeenFails, RememberFails
    <3>5. CASE TriggerReturns(w)
      BY <3>1, <3>5, TriggerReturnsRuns
    <3>6. CASE Remember(w)
      BY <3>1, <3>6, RememberRuns
    <3>7. CASE Settle(w) \/ SettleRaises(w) \/ ConsumeRaises(w)
      BY <3>1, <3>7, EndsRuns
    <3>8. QED
      BY <1>2, <3>2, <3>3, <3>4, <3>5, <3>6, <3>7 DEF WorkerStep
  <2>4. QED
    BY <2>2, <2>3
<1>3. QED
  BY <1>1, <1>2 DEF Next

(* With one worker and deduplication the agent completes one run of a      *)
(* message and one more for each failure, for every log, every number of   *)
(* restarts and every ack policy.                                          *)
THEOREM QueueAgentRunsBounded == Spec => []AgentRunsBounded
<1>1. Init => AloneInv /\ RunsInv
  <2> SUFFICES ASSUME Init PROVE AloneInv /\ RunsInv
    OBVIOUS
  <2>1. faults = 0 /\ \A m \in Messages : runs[m] = 0
    BY DEF Init
  <2>2. \A w \in Workers : pc[w] = "off"
    BY DEF Init
  <2>3. QED
    BY <2>1, <2>2, OneIsAWorker DEF AloneInv, RunsInv, InHand
<1>2. IInv /\ AloneInv /\ RunsInv /\ [Next]_vars => (AloneInv /\ RunsInv)'
  BY AloneStep, RunsStep
<1>3. IInv /\ RunsInv => AgentRunsBounded
  <2>1. ASSUME IInv, RunsInv, concurrency = 1, dedup, NEW m \in Messages
        PROVE  runs[m] <= 1 + faults
    <3>1. runs[m] <= faults + 1
      BY <2>1 DEF RunsInv
    <3>2. runs[m] \in Nat /\ faults \in Nat
      BY <2>1 DEF IInv, TypeOK
    <3>3. QED
      BY <3>1, <3>2
  <2>2. IInv /\ RunsInv => (concurrency = 1 /\ dedup => \A m \in Messages : runs[m] <= 1 + faults)
    BY <2>1, Zenon
  <2>3. QED
    BY <2>2, Zenon DEF AgentRunsBounded
<1>4. QED
  BY QueueInvariance, <1>1, <1>2, <1>3, PTL DEF Spec

-----------------------------------------------------------------------------
(* Any number of workers: what is dropped has run                          *)

(* Records stay where they are and runs are not taken back.                *)
Grows ==
  /\ Len(log) <= Len(log')
  /\ \A o \in 1..Len(log) : log'[o] = log[o]
  /\ \A m \in Messages : runs[m] <= runs'[m]

LEMMA GrowsStep ==
  ASSUME IInv, [Next]_vars
  PROVE  Grows
<1>1. log \in Seq(Messages) /\ runs \in [Messages -> Nat]
  BY DEF IInv, TypeOK, AdapterTypeOK
<1>2. log' = log \/ \E m : log' = Append(log, m)
  <2>1. ASSUME NEW w \in Workers, WorkerStep(w)
        PROVE  log' = log \/ \E m : log' = Append(log, m)
    BY <2>1 DEF WorkerStep, Receive, Release, ConsumeRaises, LeaveLoop, Govern,
       CheckSeen, CheckSeenFails, TriggerReturns, TriggerRaises, Remember,
       RememberFails, Settle, SettleRaises, AdapterCall, Fetch, FetchFails,
       FetchUnreadable, Ack, AckFails, Nack, Requeue, RequeueFails, SendToDlq,
       adapterVars
  <2>2. QED
    BY <2>1 DEF Next, vars, adapterVars, Produce, Publish, Start, Connect, StartFails, Stop,
         Disconnect, Pause, Resume, Crash, Expire
<1>3. \/ runs' = runs
      \/ \E w \in Workers : runs' = [runs EXCEPT ![log[cur[w]]] = @ + 1]
  BY DEF Next, vars, Produce, Start, StartFails, Stop, Pause, Resume, Crash, Expire,
     WorkerStep, Receive, Release, ConsumeRaises, LeaveLoop, Govern, CheckSeen,
     CheckSeenFails, TriggerReturns, TriggerRaises, Remember, RememberFails, Settle,
     SettleRaises
<1>4. Len(log) <= Len(log') /\ \A o \in 1..Len(log) : log'[o] = log[o]
  <2>1. CASE log' = log
    BY <1>1, <2>1
  <2>2. ASSUME NEW m, log' = Append(log, m)
        PROVE  Len(log) <= Len(log') /\ \A o \in 1..Len(log) : log'[o] = log[o]
    <3>1. log \in Seq(Messages \cup {m})
      BY <1>1
    <3>2. QED
      BY <2>2, <3>1
  <2>3. QED
    BY <1>2, <2>1, <2>2
<1>5. \A m \in Messages : runs[m] <= runs'[m]
  BY <1>1, <1>3
<1>6. QED
  BY <1>4, <1>5 DEF Grows

LEMMA RunsType ==
  ASSUME IInv, [Next]_vars
  PROVE  TypeOK' /\ runs' \in [Messages -> Nat] /\ log' \in Seq(Messages)
  BY QueueStep DEF IInv, TypeOK, AdapterTypeOK

(* A worker comes to the write of the id from the run of the agent only,   *)
(* with the record in hand.                                                *)
LEMMA RememberingOnlyAfterRun ==
  ASSUME IInv, [Next]_vars, NEW v \in Workers, pc'[v] = "remember"
  PROVE  (pc[v] = "remember" /\ cur'[v] = cur[v]) \/ TriggerReturns(v)
<1>1. TypeOK
  BY DEF IInv
<1>2. CASE Produce \/ StartFails \/ Stop \/ Pause \/ Resume \/ Expire \/ UNCHANGED vars
  BY <1>2 DEF Produce, StartFails, Stop, Pause, Resume, Expire, vars, workerVars
<1>3. CASE Start \/ Crash
  BY <1>3 DEF Start, Crash
<1>4. ASSUME NEW w \in Workers, WorkerStep(w), ~TriggerReturns(w)
      PROVE  pc[v] = "remember" /\ cur'[v] = cur[v]
  <2>1. /\ cur' = cur \/ \E n : cur' = [cur EXCEPT ![w] = n]
        /\ \/ pc' = pc /\ pc[w] = "trigger"
           \/ \E s \in Stages \ {"remember"} : pc' = [pc EXCEPT ![w] = s]
    BY <1>4 DEF WorkerStep, Receive, Release, ConsumeRaises, LeaveLoop, Govern,
       CheckSeen, CheckSeenFails, TriggerRaises, Remember, RememberFails, Settle,
       SettleRaises, BeginProcessing, Hold, SettleBy, LetGo, Goto, Stages
  <2>2. w # v /\ pc'[v] = pc[v]
    BY <1>1, <2>1 DEF TypeOK
  <2>3. QED
    BY <1>1, <2>1, <2>2 DEF TypeOK
<1>5. ASSUME NEW w \in Workers, TriggerReturns(w), w # v
      PROVE  pc[v] = "remember" /\ cur'[v] = cur[v]
  BY <1>1, <1>5 DEF TriggerReturns, SettleBy, Goto, TypeOK
<1>6. QED
  BY <1>2, <1>3, <1>4, <1>5 DEF Next

(* An id comes into the store from a worker that remembers it.             *)
LEMMA StoreStep ==
  ASSUME IInv, StoreInv, [Next]_vars
  PROVE  StoreInv'
<1>1. TypeOK /\ Grows
  BY GrowsStep DEF IInv
<1>2. ASSUME NEW k \in store'
      PROVE  k \in store \/ \E w \in Workers : pc[w] = "remember" /\ k = DedupKey(cur[w])
  BY <1>2 DEF Next, vars, Produce, Start, StartFails, Stop, Pause, Resume, Crash,
     Expire, WorkerStep, Receive, Release, ConsumeRaises, LeaveLoop, Govern, CheckSeen,
     CheckSeenFails, TriggerReturns, TriggerRaises, Remember, RememberFails, Settle,
     SettleRaises
<1>3. ASSUME NEW k \in store' PROVE \E m \in Messages : DedupOf[m] = k /\ runs'[m] > 0
  <2>1. \E m \in Messages : DedupOf[m] = k /\ runs[m] > 0
    <3>1. CASE k \in store
      BY <3>1 DEF StoreInv
    <3>2. ASSUME NEW w \in Workers, pc[w] = "remember", k = DedupKey(cur[w])
          PROVE  \E m \in Messages : DedupOf[m] = k /\ runs[m] > 0
      <4>1. log[cur[w]] \in Messages /\ DedupOf[log[cur[w]]] = k
        BY <3>2, HeldMessage DEF Busy
      <4>2. QED
        BY <3>2, <4>1 DEF StoreInv
    <3>3. QED
      BY <1>2, <1>3, <3>1, <3>2
  <2>2. runs \in [Messages -> Nat] /\ runs' \in [Messages -> Nat]
    BY <1>1, RunsType DEF TypeOK
  <2>3. QED
    BY <1>1, <2>1, <2>2 DEF Grows
<1>4. ASSUME NEW v \in Workers, pc'[v] = "remember" PROVE runs'[log'[cur'[v]]] > 0
  <2>1. CASE pc[v] = "remember" /\ cur'[v] = cur[v]
    <3>1. cur[v] \in 1..Len(log) /\ log[cur[v]] \in Messages
      BY <2>1, HeldMessage DEF Busy
    <3>2. log'[cur'[v]] = log[cur[v]] /\ runs[log[cur[v]]] <= runs'[log[cur[v]]]
      BY <1>1, <2>1, <3>1 DEF Grows
    <3>3. runs[log[cur[v]]] > 0 /\ runs \in [Messages -> Nat] /\ runs' \in [Messages -> Nat]
      BY <1>1, <2>1, RunsType DEF StoreInv, TypeOK
    <3>4. QED
      BY <3>1, <3>2, <3>3
  <2>2. CASE TriggerReturns(v)
    <3>1. log[cur[v]] \in Messages /\ log' = log /\ cur' = cur
      BY <2>2, HeldMessage DEF TriggerReturns, Busy, adapterVars
    <3>2. runs'[log[cur[v]]] = runs[log[cur[v]]] + 1 /\ runs[log[cur[v]]] \in Nat
      BY <1>1, <2>2, <3>1 DEF TriggerReturns, TypeOK
    <3>3. QED
      BY <3>1, <3>2
  <2>3. (pc[v] = "remember" /\ cur'[v] = cur[v]) \/ TriggerReturns(v)
    BY <1>1, <1>4, RememberingOnlyAfterRun
  <2>4. QED
    BY <2>1, <2>2, <2>3
<1>5. QED
  BY <1>3, <1>4 DEF StoreInv

(* A key in the store is that of a message that has run.                   *)
LEMMA DropStep ==
  ASSUME IInv, StoreInv, DropInv, [Next]_vars
  PROVE  DropInv'
<1>1. Grows /\ log \in Seq(Messages) /\ log' \in Seq(Messages)
  BY GrowsStep, RunsType DEF IInv, TypeOK, AdapterTypeOK
<1>2. runs \in [Messages -> Nat] /\ runs' \in [Messages -> Nat]
  BY RunsType DEF IInv, TypeOK
<1>3. ASSUME NEW o \in dropped'
      PROVE  o \in 1..Len(log) /\ \E m \in Messages : DedupOf[m] = DedupKey(o) /\ runs[m] > 0
  <2>1. \/ o \in dropped
        \/ \E w \in Workers : pc[w] = "exists" /\ o = cur[w] /\ DedupKey(cur[w]) \in store
    BY <1>3 DEF Next, vars, outcomeVars, Produce, Start, StartFails, Stop, Pause, Resume, Crash,
         Expire, WorkerStep, Receive, Release, ConsumeRaises, LeaveLoop, Govern, CheckSeen,
         CheckSeenFails, TriggerReturns, TriggerRaises, Remember, RememberFails, Settle,
         SettleRaises
  <2>2. CASE o \in dropped
    BY <2>2 DEF DropInv
  <2>3. ASSUME NEW w \in Workers, pc[w] = "exists", o = cur[w], DedupKey(cur[w]) \in store
        PROVE  /\ o \in 1..Len(log)
               /\ \E m \in Messages : DedupOf[m] = DedupKey(o) /\ runs[m] > 0
    BY <2>3, HeldMessage DEF Busy, StoreInv
  <2>4. QED
    BY <2>1, <2>2, <2>3
<1>4. ASSUME NEW o \in dropped'
      PROVE  /\ o \in 1..Len(log')
             /\ \E m \in Messages : DedupOf[m] = DedupKey(o)' /\ runs'[m] > 0
  <2>1. o \in 1..Len(log)
    BY <1>3, <1>4
  <2>2. PICK m \in Messages : DedupOf[m] = DedupKey(o) /\ runs[m] > 0
    BY <1>3, <1>4
  <2>3. o \in 1..Len(log') /\ DedupKey(o)' = DedupKey(o)
    BY <1>1, <2>1 DEF Grows, DedupKey
  <2>4. runs'[m] > 0
    BY <1>1, <1>2, <2>2 DEF Grows
  <2>5. QED
    BY <2>2, <2>3, <2>4
<1>5. QED
  BY <1>4 DEF DropInv

(* Deduplication drops a record only if the agent has completed a run for a*)
(* message with the record's key, whatever workers, restarts, requeues and *)
(* failures do.                                                            *)
THEOREM QueueDropsOnlyRepeats == Spec => []DedupDropsOnlyRepeats
<1>1. Init => StoreInv /\ DropInv
  BY DEF Init, StoreInv, DropInv
<1>2. IInv /\ StoreInv /\ DropInv /\ [Next]_vars => (StoreInv /\ DropInv)'
  BY StoreStep, DropStep
<1>3. DropInv => DedupDropsOnlyRepeats
  BY DEF DropInv, DedupDropsOnlyRepeats
<1>4. QED
  BY QueueInvariance, <1>1, <1>2, <1>3, PTL DEF Spec
=============================================================================
