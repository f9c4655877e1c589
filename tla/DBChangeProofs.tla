--------------------------- MODULE DBChangeProofs ---------------------------
(***************************************************************************)
(* Proofs about DBChangeTrigger for every number of events and starts and  *)
(* every size of buffer, batch and retry queue: its types, that events are *)
(* taken in the order they came, and that each is accounted for once.      *)
(***************************************************************************)
EXTENDS DBChangeTrigger, SequenceTheorems, TLAPS

-----------------------------------------------------------------------------
(* Sequences                                                               *)

(* The numbers in s grow from each place to the next.                      *)
Increasing(s) == \A i, j \in 1..Len(s) : i < j => s[i] < s[j]

(* Appending adds one element.                                             *)
LEMMA RangeAppend ==
  ASSUME NEW S, NEW s \in Seq(S), NEW e \in S
  PROVE  Range(Append(s, e)) = Range(s) \cup {e}
<1>1. Append(s, e) = s \o <<e>>
  BY AppendIsConcat
<1>2. Range(s \o <<e>>) = Range(s) \cup Range(<<e>>)
  BY RangeConcatenation
<1>3. Range(<<e>>) = {e}
  BY DEF Range
<1>4. QED
  BY <1>1, <1>2, <1>3

(* Taking off the head: the two parts of the split after one element.      *)
LEMMA HeadTail ==
  ASSUME NEW S, NEW s \in Seq(S), s # <<>>
  PROVE  /\ Head(s) \in S
         /\ Tail(s) \in Seq(S) /\ Len(Tail(s)) = Len(s) - 1
         /\ Range(s) = {Head(s)} \cup Range(Tail(s))
<1>1. /\ Head(s) \in S
      /\ Tail(s) \in Seq(S) /\ Len(Tail(s)) = Len(s) - 1
  BY HeadTailProperties
<1>2. s = <<Head(s)>> \o Tail(s)
  OBVIOUS
<1>3. Range(<<Head(s)>> \o Tail(s)) = Range(<<Head(s)>>) \cup Range(Tail(s))
  <2>1. <<Head(s)>> \in Seq(S) /\ Tail(s) \in Seq(S)
    BY <1>1
  <2> DEFINE h == <<Head(s)>>
             t == Tail(s)
  <2> HIDE DEF h, t
  <2>2. h \in Seq(S) /\ t \in Seq(S)
    BY <2>1 DEF h, t
  <2>3. Range(h \o t) = Range(h) \cup Range(t)
    BY <2>2, RangeConcatenation
  <2>4. QED
    BY <2>3 DEF h, t
<1>4. Range(<<Head(s)>>) = {Head(s)}
  BY DEF Range
<1>5. QED
  BY <1>1, <1>2, <1>3, <1>4

(* An increasing sequence stays so when a larger number is appended.       *)
LEMMA IncreasingAppend ==
  ASSUME NEW s \in Seq(Nat), NEW e \in Nat, Increasing(s),
         \A x \in Range(s) : x < e
  PROVE  Increasing(Append(s, e))
<1>1. SUFFICES ASSUME NEW i \in 1..(Len(s) + 1), NEW j \in 1..(Len(s) + 1), i < j
               PROVE  Append(s, e)[i] < Append(s, e)[j]
  <2>1. Len(Append(s, e)) = Len(s) + 1
    OBVIOUS
  <2>2. QED
    BY <2>1 DEF Increasing
<1>2. i \in 1..Len(s) /\ Append(s, e)[i] = s[i]
  BY <1>1
<1>3. CASE j <= Len(s)
  BY <1>1, <1>2, <1>3 DEF Increasing
<1>4. CASE j = Len(s) + 1
  BY <1>2, <1>4 DEF Range
<1>5. QED
  BY <1>3, <1>4

(* The head of an increasing sequence is below its tail, which increases.  *)
LEMMA IncreasingTail ==
  ASSUME NEW s \in Seq(Nat), s # <<>>, Increasing(s)
  PROVE  /\ Increasing(Tail(s))
         /\ \A x \in Range(Tail(s)) : Head(s) < x
<1>1. /\ Head(s) = s[1] /\ 1 \in 1..Len(s)
      /\ Tail(s) \in Seq(Nat) /\ Len(Tail(s)) = Len(s) - 1
      /\ \A i \in 1..Len(Tail(s)) : Tail(s)[i] = s[i + 1] /\ i + 1 \in 1..Len(s)
  OBVIOUS
<1>2. QED
  BY <1>1 DEF Increasing, Range

-----------------------------------------------------------------------------

USE AggregatorAssumption, DBChangeAssumption

Holders == {"line", "buffer", "batch", "queue", "hand", "dropped"}
Places == Holders \cup Fates

(* Where the events are, from the state of who holds them.                 *)
Family(inLine, inBuffer, inBatch, inQueue, inHand, gone, fates) ==
  [p \in Places |->
     IF p \in Fates THEN fates[p]
     ELSE IF p = "line" THEN inLine
     ELSE IF p = "buffer" THEN inBuffer
     ELSE IF p = "batch" THEN inBatch
     ELSE IF p = "queue" THEN inQueue
     ELSE IF p = "hand" THEN inHand
     ELSE gone]

Where == Family(Range(line), Range(buffer), Batch, EventsOf(retryQueue),
                Range(retried.events), dropped, fate)

(* Each of the first n events is in one place, and nothing else is.        *)
Partition(F, n) ==
  /\ DOMAIN F = Places
  /\ \A p \in Places : F[p] \subseteq 1..n
  /\ \A p, q \in Places : p # q => F[p] \cap F[q] = {}
  /\ \A e \in 1..n : \E p \in Places : e \in F[p]

OrderInv == Increasing(line) /\ Increasing(buffer) /\ OldestFirst

(* No event is in two items of a queue.                                    *)
Apart(q) ==
  \A i, j \in DOMAIN q : i # j => Range(q[i].events) \cap Range(q[j].events) = {}

(* The retry task has an item in hand only while it works on it, and only  *)
(* while the manager runs.                                                 *)
RetryInv ==
  /\ retry \in {"off", "idle"} => retried = NoItem
  /\ phase # "running" => retry = "off"

IInv == TypeOK /\ OrderInv /\ Partition(Where, arrived) /\ Apart(retryQueue) /\ RetryInv

-----------------------------------------------------------------------------
(* Moving events from place to place                                       *)

LEMMA PlaceNames ==
  /\ Holders \subseteq Places /\ Fates \subseteq Places
  /\ \A h \in Holders, f \in Fates : h # f
  BY DEF Places, Holders, Fates

LEMMA FamilyFacts ==
  ASSUME NEW l, NEW b, NEW t, NEW q, NEW h, NEW g, NEW F
  PROVE  LET W == Family(l, b, t, q, h, g, F)
         IN  /\ DOMAIN W = Places
             /\ W["line"] = l /\ W["buffer"] = b /\ W["batch"] = t
             /\ W["queue"] = q /\ W["hand"] = h /\ W["dropped"] = g
             /\ \A f \in Fates : W[f] = F[f]
  BY DEF Family, Places, Holders, Fates

LEMMA WhereNow ==
  /\ DOMAIN Where = Places
  /\ Where["line"] = Range(line) /\ Where["buffer"] = Range(buffer)
  /\ Where["batch"] = Range(batch) /\ Where["queue"] = EventsOf(retryQueue)
  /\ Where["hand"] = Range(retried.events) /\ Where["dropped"] = dropped
  /\ \A f \in Fates : Where[f] = fate[f]
  BY FamilyFacts DEF Where, Batch

LEMMA WhereNext ==
  /\ DOMAIN Where' = Places
  /\ Where'["line"] = Range(line') /\ Where'["buffer"] = Range(buffer')
  /\ Where'["batch"] = Range(batch') /\ Where'["queue"] = EventsOf(retryQueue')
  /\ Where'["hand"] = Range(retried'.events) /\ Where'["dropped"] = dropped'
  /\ \A f \in Fates : Where'[f] = fate'[f]
<1>1. Where' = Family(Range(line'), Range(buffer'), Range(batch'), EventsOf(retryQueue'),
                      Range(retried'.events), dropped', fate')
  BY DEF Where, Batch, EventsOf, Range
<1>2. QED
  BY <1>1, FamilyFacts

(* Events that move from one place to another are still in one.            *)
LEMMA MoveFacts ==
  ASSUME NEW n, NEW F, Partition(F, n),
         NEW a \in Places, NEW b \in Places, a # b, NEW M, M \subseteq F[a],
         NEW G, DOMAIN G = Places, G[a] = F[a] \ M, G[b] = F[b] \cup M,
         \A p \in Places \ {a, b} : G[p] = F[p]
  PROVE  Partition(G, n)
<1>1. /\ DOMAIN G = Places /\ G[a] = F[a] \ M /\ G[b] = F[b] \cup M
      /\ \A p \in Places \ {a, b} : G[p] = F[p]
  OBVIOUS
<1>2. /\ \A p \in Places : F[p] \subseteq 1..n
      /\ \A p, q \in Places : p # q => F[p] \cap F[q] = {}
      /\ \A e \in 1..n : \E p \in Places : e \in F[p]
  BY DEF Partition
<1>3. \A p \in Places : G[p] \subseteq 1..n
  <2> SUFFICES ASSUME NEW p \in Places PROVE G[p] \subseteq 1..n
    OBVIOUS
  <2>1. p = a \/ p = b \/ p \in Places \ {a, b}
    OBVIOUS
  <2>2. QED
    BY <1>1, <1>2, <2>1
<1>4. \A p, q \in Places : p # q => G[p] \cap G[q] = {}
  <2> SUFFICES ASSUME NEW p \in Places, NEW q \in Places, p # q, NEW e, e \in G[p], e \in G[q]
               PROVE  FALSE
    OBVIOUS
  <2>1. ASSUME NEW r \in Places, e \in G[r]
        PROVE  \/ r = b /\ e \in M
               \/ e \in F[r] /\ ~(r = a /\ e \in M)
    <3>1. r = a \/ r = b \/ r \in Places \ {a, b}
      OBVIOUS
    <3>2. QED
      BY <1>1, <2>1, <3>1
  <2>2. e \in M => e \in F[a]
    OBVIOUS
  <2>3. QED
    BY <1>2, <2>1, <2>2
<1>5. \A e \in 1..n : \E p \in Places : e \in G[p]
  <2> SUFFICES ASSUME NEW e \in 1..n PROVE \E p \in Places : e \in G[p]
    OBVIOUS
  <2>1. PICK p \in Places : e \in F[p]
    BY <1>2
  <2>2. CASE e \in M
    BY <1>1, <2>2
  <2>3. CASE e \notin M
    <3>1. p = a \/ p = b \/ p \in Places \ {a, b}
      OBVIOUS
    <3>2. e \in G[p]
      BY <1>1, <2>1, <2>3, <3>1
    <3>3. QED
      BY <3>2
  <2>4. QED
    BY <2>2, <2>3
<1>6. QED
  BY <1>1, <1>3, <1>4, <1>5 DEF Partition

(* A new event comes to one place.                                         *)
LEMMA ArriveFacts ==
  ASSUME NEW n \in Nat, NEW F, Partition(F, n), NEW a \in Places, NEW G,
         DOMAIN G = Places, G[a] = F[a] \cup {n + 1},
         \A p \in Places \ {a} : G[p] = F[p]
  PROVE  Partition(G, n + 1)
<1>1. /\ \A p \in Places : F[p] \subseteq 1..n
      /\ \A p, q \in Places : p # q => F[p] \cap F[q] = {}
      /\ \A e \in 1..n : \E p \in Places : e \in F[p]
  BY DEF Partition
<1>2. 1..(n + 1) = 1..n \cup {n + 1} /\ n + 1 \notin 1..n
  OBVIOUS
<1>3. \A p \in Places : \A e : e \in G[p] <=> e \in F[p] \/ (p = a /\ e = n + 1)
  <2> SUFFICES ASSUME NEW p \in Places, NEW e
               PROVE  e \in G[p] <=> e \in F[p] \/ (p = a /\ e = n + 1)
    OBVIOUS
  <2>1. CASE p = a
    BY <2>1
  <2>2. CASE p # a
    BY <2>2
  <2>3. QED
    BY <2>1, <2>2
<1>4. \A p \in Places : G[p] \subseteq 1..(n + 1)
  BY <1>1, <1>2, <1>3
<1>5. \A p, q \in Places : p # q => G[p] \cap G[q] = {}
  <2> SUFFICES ASSUME NEW p \in Places, NEW q \in Places, p # q, NEW e, e \in G[p], e \in G[q]
               PROVE  FALSE
    OBVIOUS
  <2>1. QED
    BY <1>1, <1>2, <1>3
<1>6. \A e \in 1..(n + 1) : \E p \in Places : e \in G[p]
  BY <1>1, <1>2, <1>3
<1>7. QED
  BY <1>4, <1>5, <1>6 DEF Partition

(* Where the events are on the way of a step that moves them twice.        *)
Move(F, a, b, M) == [F EXCEPT ![a] = @ \ M, ![b] = @ \cup M]

LEMMA MoveOn ==
  ASSUME NEW n, NEW F, Partition(F, n),
         NEW a \in Places, NEW b \in Places, a # b, NEW M, M \subseteq F[a]
  PROVE  LET G == Move(F, a, b, M)
         IN  /\ Partition(G, n)
             /\ DOMAIN G = Places /\ G[a] = F[a] \ M /\ G[b] = F[b] \cup M
             /\ \A p \in Places \ {a, b} : G[p] = F[p]
<1> DEFINE G == Move(F, a, b, M)
<1>1. DOMAIN F = Places
  BY DEF Partition
<1>2. /\ DOMAIN G = Places /\ G[a] = F[a] \ M /\ G[b] = F[b] \cup M
      /\ \A p \in Places \ {a, b} : G[p] = F[p]
  BY <1>1 DEF Move
<1> HIDE DEF G
<1>3. Partition(G, n)
  BY <1>2, MoveFacts
<1>4. QED
  BY <1>2, <1>3 DEF G

-----------------------------------------------------------------------------
(* Sequences of events and of items                                        *)

LEMMA EventSeqs ==
  /\ \A s \in Seq(Events) : s \in Seq(Nat) /\ Range(s) \subseteq Events
  /\ Range(<<>>) = {} /\ Increasing(<<>>)
  /\ NoItem \in Items /\ Range(NoItem.events) = {}
<1>1. \A s \in Seq(Events) : s \in Seq(Nat) /\ Range(s) \subseteq Events
  BY DEF Events, Range
<1>2. Range(<<>>) = {} /\ Increasing(<<>>)
  BY DEF Range, Increasing
<1>3. NoItem \in Items /\ NoItem.events = <<>>
  BY DEF NoItem, Items
<1>4. QED
  BY <1>1, <1>2, <1>3

(* Without its first item a queue has the events of the others.            *)
LEMMA QueueTail ==
  ASSUME NEW q \in Seq(Items), q # <<>>, Apart(q)
  PROVE  /\ Head(q) \in Items /\ Tail(q) \in Seq(Items) /\ Len(Tail(q)) = Len(q) - 1
         /\ Apart(Tail(q))
         /\ Range(Head(q).events) \subseteq EventsOf(q)
         /\ EventsOf(Tail(q)) = EventsOf(q) \ Range(Head(q).events)
<1> DEFINE t == Tail(q)
<1>1. /\ Head(q) = q[1] /\ 1 \in DOMAIN q /\ q[1] \in Items
      /\ t \in Seq(Items) /\ Len(t) = Len(q) - 1
      /\ \A i \in DOMAIN t : i + 1 \in DOMAIN q /\ i + 1 # 1 /\ t[i] = q[i + 1]
      /\ \A i, j \in DOMAIN t : i # j => i + 1 # j + 1
      /\ \A i \in DOMAIN q : i # 1 => i - 1 \in DOMAIN t /\ t[i - 1] = q[i]
  OBVIOUS
<1> HIDE DEF t
<1>2. Apart(t)
  <2> SUFFICES ASSUME NEW i \in DOMAIN t, NEW j \in DOMAIN t, i # j
               PROVE  Range(t[i].events) \cap Range(t[j].events) = {}
    BY DEF Apart
  <2>1. i + 1 \in DOMAIN q /\ j + 1 \in DOMAIN q /\ i + 1 # j + 1
    BY <1>1
  <2>2. t[i] = q[i + 1] /\ t[j] = q[j + 1]
    BY <1>1
  <2>3. QED
    BY <2>1, <2>2 DEF Apart
<1>3. Range(q[1].events) \subseteq EventsOf(q)
  BY <1>1 DEF EventsOf
<1>4. EventsOf(t) \subseteq EventsOf(q) \ Range(q[1].events)
  <2> SUFFICES ASSUME NEW i \in DOMAIN t, NEW e \in Range(t[i].events)
               PROVE  e \in EventsOf(q) /\ e \notin Range(q[1].events)
    BY DEF EventsOf
  <2>1. i + 1 \in DOMAIN q /\ i + 1 # 1 /\ e \in Range(q[i + 1].events)
    BY <1>1
  <2>2. QED
    BY <1>1, <2>1 DEF EventsOf, Apart
<1>5. EventsOf(q) \ Range(q[1].events) \subseteq EventsOf(t)
  <2> SUFFICES ASSUME NEW i \in DOMAIN q, NEW e \in Range(q[i].events),
                      e \notin Range(q[1].events)
               PROVE  e \in EventsOf(t)
    BY DEF EventsOf
  <2>1. i - 1 \in DOMAIN t /\ e \in Range(t[i - 1].events)
    BY <1>1
  <2>2. QED
    BY <2>1 DEF EventsOf
<1>6. QED
  BY <1>1, <1>2, <1>3, <1>4, <1>5 DEF t

LEMMA QueueAppend ==
  ASSUME NEW q \in Seq(Items), NEW item \in Items, Apart(q),
         Range(item.events) \cap EventsOf(q) = {}
  PROVE  /\ Append(q, item) \in Seq(Items) /\ Len(Append(q, item)) = Len(q) + 1
         /\ Apart(Append(q, item))
         /\ EventsOf(Append(q, item)) = EventsOf(q) \cup Range(item.events)
<1> DEFINE a == Append(q, item)
           n == Len(q)
<1>1. /\ a \in Seq(Items) /\ Len(a) = n + 1
      /\ DOMAIN a = DOMAIN q \cup {n + 1} /\ n + 1 \notin DOMAIN q
      /\ \A i \in DOMAIN q : a[i] = q[i]
      /\ a[n + 1] = item
  OBVIOUS
<1> HIDE DEF a, n
<1>2. \A i \in DOMAIN q : Range(q[i].events) \cap Range(item.events) = {}
  BY DEF EventsOf
<1>3. Apart(a)
  BY <1>1, <1>2 DEF Apart
<1>4. EventsOf(a) = EventsOf(q) \cup Range(item.events)
  BY <1>1 DEF EventsOf
<1>5. QED
  BY <1>1, <1>3, <1>4 DEF a, n

-----------------------------------------------------------------------------
(* Steps                                                                   *)

ManagerTypeOK ==
  /\ arrived \in 0..MaxEvents
  /\ phase \in {"stopped", "running", "stopping", "closing"}
  /\ starts \in 0..MaxStarts

StageTypeOK ==
  stage \in {"idle", "governance", "trigger"} /\ (stage = "idle" <=> Unlocked)

QueueTypeOK == retryQueue \in Seq(Items) /\ Len(retryQueue) <= RetryQueueMax

RetryTypeOK == retry \in {"off", "idle", "trigger", "sleep"} /\ retried \in Items

FateTypeOK == fate \in [Fates -> SUBSET Events]

LEMMA EndsAsFacts ==
  ASSUME FateTypeOK, NEW f \in Fates, NEW E, E \subseteq Events, EndsAs(f, E)
  PROVE  /\ FateTypeOK'
         /\ fate'[f] = fate[f] \cup E
         /\ \A g \in Fates \ {f} : fate'[g] = fate[g]
  BY DEF FateTypeOK, EndsAs

(* What waits in line and in the buffer is untouched by what happens to a  *)
(* batch.                                                                  *)
LEMMA OrderKept ==
  ASSUME OrderInv, UNCHANGED <<line, buffer, dropped>>, batch' = batch \/ batch' = <<>>
  PROVE  OrderInv'
<1>1. Range(line') = Range(line) /\ Range(buffer') = Range(buffer) /\ Batch' \subseteq Batch
  BY EventSeqs DEF Batch
<1>2. OldestFirst'
  BY <1>1 DEF OrderInv, OldestFirst
<1>3. QED
  BY <1>2 DEF OrderInv

(* A push takes the first of the line to the end of the buffer; what goes  *)
(* at the other end is older than what is kept.                            *)
LEMMA PushFacts ==
  ASSUME TypeOK, OrderInv, line # <<>>
  PROVE  LET first == Head(line)
             grown == Append(buffer, first)
             kept  == Bounded(grown)
             gone  == Range(grown) \ Range(kept)
         IN  /\ first \in Events /\ first \in Range(line)
             /\ Range(Tail(line)) = Range(line) \ {first}
             /\ Tail(line) \in Seq(Events) /\ Increasing(Tail(line))
             /\ \A x \in Range(Tail(line)) : first < x
             /\ Range(grown) = Range(buffer) \cup {first}
             /\ kept \in Seq(Events) /\ Len(kept) <= MaxBuffer /\ kept # <<>>
             /\ Increasing(kept) /\ Range(kept) \subseteq Range(grown)
             /\ \A d \in gone, x \in Range(kept) : d < x
<1> DEFINE first == Head(line)
           grown == Append(buffer, first)
           kept  == Bounded(grown)
           gone  == Range(grown) \ Range(kept)
<1>1. /\ line \in Seq(Events) /\ line \in Seq(Nat)
      /\ buffer \in Seq(Events) /\ buffer \in Seq(Nat) /\ Len(buffer) <= MaxBuffer
      /\ Increasing(line) /\ Increasing(buffer) /\ OldestFirst
  BY EventSeqs DEF TypeOK, AggregatorTypeOK, OrderInv
<1>2. /\ first \in Events
      /\ Tail(line) \in Seq(Events)
      /\ Range(line) = {first} \cup Range(Tail(line))
  BY <1>1, HeadTail
<1>3. /\ Increasing(Tail(line))
      /\ \A x \in Range(Tail(line)) : first < x
  BY <1>1, IncreasingTail
<1>4. first \notin Range(Tail(line))
  <2>1. first \in Nat
    BY <1>2 DEF Events
  <2>2. QED
    BY <1>3, <2>1
<1>5. /\ grown \in Seq(Events) /\ grown \in Seq(Nat) /\ Len(grown) = Len(buffer) + 1
      /\ Range(grown) = Range(buffer) \cup {first} /\ grown # <<>>
  <2>1. /\ grown \in Seq(Events) /\ Len(grown) = Len(buffer) + 1
        /\ grown # <<>>
    BY <1>1, <1>2
  <2>2. grown \in Seq(Nat)
    BY <2>1, EventSeqs
  <2>3. Range(grown) = Range(buffer) \cup {first}
    BY <1>1, <1>2, RangeAppend
  <2>4. QED
    BY <2>1, <2>2, <2>3
<1>6. Increasing(grown)
  <2>1. \A x \in Range(buffer) : x < first
    BY <1>1, <1>2 DEF OldestFirst
  <2>2. first \in Nat
    BY <1>2 DEF Events
  <2>3. QED
    BY <1>1, <2>1, <2>2, IncreasingAppend
<1> HIDE DEF grown
<1>7. kept = IF Len(grown) > MaxBuffer THEN Tail(grown) ELSE grown
  BY DEF Bounded
<1>8. /\ Tail(grown) \in Seq(Events) /\ Len(Tail(grown)) = Len(buffer)
      /\ Range(grown) = {Head(grown)} \cup Range(Tail(grown))
      /\ Increasing(Tail(grown))
      /\ \A x \in Range(Tail(grown)) : Head(grown) < x
  <2>1. /\ Tail(grown) \in Seq(Events) /\ Len(Tail(grown)) = Len(grown) - 1
        /\ Range(grown) = {Head(grown)} \cup Range(Tail(grown))
    BY <1>5, HeadTail
  <2>2. Increasing(Tail(grown)) /\ \A x \in Range(Tail(grown)) : Head(grown) < x
    BY <1>5, <1>6, IncreasingTail
  <2>3. QED
    BY <1>1, <1>5, <2>1, <2>2
<1> HIDE DEF kept
<1>9. /\ kept \in Seq(Events) /\ Len(kept) <= MaxBuffer /\ kept # <<>>
      /\ Increasing(kept) /\ Range(kept) \subseteq Range(grown)
      /\ \A d \in gone, x \in Range(kept) : d < x
  <2>1. CASE Len(grown) > MaxBuffer
    <3>1. kept = Tail(grown) /\ Len(kept) = MaxBuffer /\ kept # <<>>
      BY <1>1, <1>5, <1>7, <1>8, <2>1
    <3>2. \A d \in gone : d = Head(grown)
      BY <1>8, <3>1
    <3>3. QED
      BY <1>8, <3>1, <3>2
  <2>2. CASE ~(Len(grown) > MaxBuffer)
    <3>1. kept = grown /\ Len(kept) <= MaxBuffer
      BY <1>1, <1>5, <1>7, <2>2
    <3>2. gone = {}
      BY <3>1
    <3>3. QED
      BY <1>5, <1>6, <3>1, <3>2
  <2>3. QED
    BY <2>1, <2>2
<1>10. first \in Range(line) /\ Range(Tail(line)) = Range(line) \ {first}
  BY <1>2, <1>4
<1>11. QED
  BY <1>2, <1>3, <1>5, <1>9, <1>10 DEF grown, kept

(* An item goes to the retry queue, from where its events were.            *)
LEMMA EnqueueFacts ==
  ASSUME TypeOK, Partition(Where, arrived), Apart(retryQueue),
         NEW item \in Items, NEW from \in {"batch", "hand"},
         Where[from] = Range(item.events), Enqueue(item),
         Where'[from] = {}, UNCHANGED dropped, Range(line') = Range(line),
         Range(buffer') = Range(buffer),
         \A p \in {"batch", "hand"} \ {from} : Where'[p] = Where[p]
  PROVE  /\ QueueTypeOK' /\ FateTypeOK' /\ Apart(retryQueue')
         /\ Partition(Where', arrived)
<1> DEFINE M == Range(item.events)
           H == Range(Head(retryQueue).events)
           n == arrived
<1>1. /\ retryQueue \in Seq(Items) /\ Len(retryQueue) <= RetryQueueMax
      /\ FateTypeOK /\ n \in Nat /\ 1..n \subseteq Events
  BY DEF TypeOK, FateTypeOK, Events
<1>2. /\ DOMAIN Where = Places
      /\ \A p \in Places : Where[p] \subseteq 1..n
      /\ \A p, q \in Places : p # q => Where[p] \cap Where[q] = {}
  BY DEF Partition
<1>3. /\ {"line", "buffer", "batch", "hand", "dropped", "queue", "shed"} \subseteq Places
      /\ "shed" \in Fates /\ from \in Places /\ from # "queue" /\ from # "shed"
      /\ \A p \in Places : \/ p \in {"line", "buffer", "batch", "hand", "dropped", "queue"}
                           \/ p \in Fates
      /\ \A f \in Fates : f \notin {"line", "buffer", "batch", "hand", "dropped", "queue"}
  BY DEF Places, Holders, Fates
<1>4. M \cap EventsOf(retryQueue) = {}
  BY <1>2, <1>3, WhereNow
<1>5. \A p \in {"line", "buffer", "batch", "hand", "dropped"} \ {from} : Where'[p] = Where[p]
  BY WhereNow, WhereNext
<1>6. CASE Len(retryQueue) # RetryQueueMax
  <2>1. retryQueue' = Append(retryQueue, item) /\ fate' = fate
    BY <1>6 DEF Enqueue
  <2>2. /\ retryQueue' \in Seq(Items) /\ Len(retryQueue') = Len(retryQueue) + 1
        /\ Apart(retryQueue')
        /\ EventsOf(retryQueue') = EventsOf(retryQueue) \cup M
    BY <1>1, <1>4, <2>1, QueueAppend
  <2>3. QueueTypeOK' /\ FateTypeOK'
    BY <1>1, <1>6, <2>1, <2>2 DEF QueueTypeOK, FateTypeOK
  <2>4. /\ DOMAIN Where' = Places /\ Where'[from] = Where[from] \ M
        /\ Where'["queue"] = Where["queue"] \cup M
        /\ \A p \in Places \ {from, "queue"} : Where'[p] = Where[p]
    BY <1>3, <1>5, <2>1, <2>2, WhereNow, WhereNext
  <2>5. Partition(Where', n)
    BY <1>3, <2>4, MoveFacts
  <2>6. QED
    BY <2>2, <2>3, <2>5
<1>7. CASE Len(retryQueue) = RetryQueueMax
  <2>1. retryQueue' = Append(Tail(retryQueue), item) /\ EndsAs("shed", H)
    BY <1>7 DEF Enqueue
  <2>2. /\ Tail(retryQueue) \in Seq(Items) /\ Len(Tail(retryQueue)) = RetryQueueMax - 1
        /\ Apart(Tail(retryQueue)) /\ H \subseteq EventsOf(retryQueue)
        /\ EventsOf(Tail(retryQueue)) = EventsOf(retryQueue) \ H
    <3>1. retryQueue # <<>>
      BY <1>1, <1>7
    <3>2. QED
      BY <1>1, <1>7, <3>1, QueueTail
  <2>3. M \cap EventsOf(Tail(retryQueue)) = {}
    BY <1>4, <2>2
  <2>4. /\ retryQueue' \in Seq(Items) /\ Len(retryQueue') = RetryQueueMax
        /\ Apart(retryQueue')
        /\ EventsOf(retryQueue') = EventsOf(Tail(retryQueue)) \cup M
    <3>1. /\ Append(Tail(retryQueue), item) \in Seq(Items)
          /\ Len(Append(Tail(retryQueue), item)) = Len(Tail(retryQueue)) + 1
          /\ Apart(Append(Tail(retryQueue), item))
          /\ EventsOf(Append(Tail(retryQueue), item)) = EventsOf(Tail(retryQueue)) \cup M
      BY <2>2, <2>3, QueueAppend
    <3>2. QED
      BY <2>1, <2>2, <3>1
  <2>5. H \subseteq Where["queue"] /\ H \subseteq Events
    BY <1>1, <1>2, <1>3, <2>2, WhereNow
  <2>6. /\ FateTypeOK' /\ fate'["shed"] = fate["shed"] \cup H
        /\ \A g \in Fates \ {"shed"} : fate'[g] = fate[g]
    BY <1>1, <1>3, <2>1, <2>5, EndsAsFacts
  <2> DEFINE F == Move(Where, "queue", "shed", H)
  <2>7. /\ Partition(F, n) /\ DOMAIN F = Places
        /\ F["queue"] = Where["queue"] \ H /\ F["shed"] = Where["shed"] \cup H
        /\ \A p \in Places \ {"queue", "shed"} : F[p] = Where[p]
    BY <1>3, <2>5, MoveOn
  <2> HIDE DEF F
  <2>8. /\ DOMAIN Where' = Places /\ Where'[from] = F[from] \ M /\ M \subseteq F[from]
        /\ Where'["queue"] = F["queue"] \cup M
    BY <1>3, <2>2, <2>4, <2>7, WhereNow, WhereNext
  <2>9. \A p \in Places \ {from, "queue"} : Where'[p] = F[p]
    <3> SUFFICES ASSUME NEW p \in Places \ {from, "queue"} PROVE Where'[p] = F[p]
      OBVIOUS
    <3>1. CASE p \in Fates
      <4>1. Where'[p] = fate'[p] /\ Where[p] = fate[p]
        BY <3>1, WhereNow, WhereNext
      <4>2. Where["shed"] = fate["shed"]
        BY <1>3, WhereNow
      <4>3. QED
        BY <2>6, <2>7, <3>1, <4>1, <4>2
    <3>2. CASE p \notin Fates
      BY <1>3, <1>5, <2>7, <3>2
    <3>3. QED
      BY <3>1, <3>2
  <2>10. Partition(Where', n)
    BY <1>3, <2>7, <2>8, <2>9, MoveFacts
  <2>11. QueueTypeOK'
    BY <2>4 DEF QueueTypeOK
  <2>12. QED
    BY <2>4, <2>6, <2>10, <2>11
<1>8. QED
  BY <1>6, <1>7

-----------------------------------------------------------------------------
(* The invariant                                                           *)

LEMMA TypeParts ==
  TypeOK <=> /\ AggregatorTypeOK /\ ManagerTypeOK /\ StageTypeOK
             /\ QueueTypeOK /\ RetryTypeOK /\ FateTypeOK
  BY DEF TypeOK, ManagerTypeOK, StageTypeOK, QueueTypeOK, RetryTypeOK, FateTypeOK

(* The invariant after a step, by its parts.                               *)
LEMMA PartsNext ==
  ASSUME AggregatorTypeOK', ManagerTypeOK', StageTypeOK', QueueTypeOK', RetryTypeOK', FateTypeOK',
         OrderInv', Partition(Where', arrived'), Apart(retryQueue'), RetryInv'
  PROVE  IInv'
<1>1. TypeOK'
  BY DEF TypeOK, ManagerTypeOK, StageTypeOK, QueueTypeOK, RetryTypeOK, FateTypeOK
<1>2. QED
  BY <1>1 DEF IInv, Apart

LEMMA PartsNow ==
  ASSUME IInv
  PROVE  /\ TypeOK /\ OrderInv /\ Partition(Where, arrived) /\ Apart(retryQueue) /\ RetryInv
         /\ AggregatorTypeOK /\ ManagerTypeOK /\ StageTypeOK
         /\ QueueTypeOK /\ RetryTypeOK /\ FateTypeOK
         /\ arrived \in Nat /\ 1..arrived \subseteq Events
         /\ \A p \in Places : Where[p] \subseteq Events
  BY TypeParts DEF IInv, ManagerTypeOK, Partition, Events

LEMMA InitIInv == Init => IInv
<1> SUFFICES ASSUME Init PROVE IInv
  OBVIOUS
<1>1. /\ mode \in Modes /\ line = <<>> /\ buffer = <<>> /\ timer = "none"
      /\ batch = <<>> /\ byTimer \in BOOLEAN /\ dropped = {}
      /\ arrived = 0 /\ phase = "stopped" /\ starts = 0 /\ stage = "idle"
      /\ retryQueue = <<>> /\ retry = "off" /\ retried = NoItem
      /\ fate = [f \in Fates |-> {}]
  BY DEF Init, AggregatorInit
<1>2. TypeOK
  <2>1. AggregatorTypeOK
    BY <1>1 DEF AggregatorTypeOK
  <2>2. ManagerTypeOK /\ StageTypeOK /\ QueueTypeOK /\ RetryTypeOK /\ FateTypeOK
    BY <1>1, EventSeqs DEF ManagerTypeOK, StageTypeOK, Unlocked, QueueTypeOK, RetryTypeOK, FateTypeOK
  <2>3. QED
    BY <2>1, <2>2, TypeParts
<1>3. OrderInv
  BY <1>1, EventSeqs DEF OrderInv, OldestFirst
<1>4. EventsOf(retryQueue) = {} /\ Apart(retryQueue)
  BY <1>1 DEF EventsOf, Apart
<1>5. \A p \in Places : Where[p] = {}
  BY <1>1, <1>4, EventSeqs, WhereNow DEF Places, Holders
<1>6. Partition(Where, arrived)
  BY <1>1, <1>5, WhereNow DEF Partition
<1>7. RetryInv
  BY <1>1 DEF RetryInv
<1>8. QED
  BY <1>2, <1>3, <1>4, <1>6, <1>7 DEF IInv

(* A batch ends as one, in a fate.                                         *)
LEMMA LeaveKeeps ==
  ASSUME IInv, NEW f \in Fates, Leave(f), UNCHANGED <<line, managerVars, retryVars>>
  PROVE  IInv'
<1>1. /\ EndsAs(f, Batch) /\ stage' = "idle" /\ batch' = <<>> /\ byTimer' \in BOOLEAN
      /\ UNCHANGED <<mode, buffer, timer, dropped>>
  BY DEF Leave, FlushEnds
<1>2. /\ UNCHANGED <<line, arrived, phase, starts, retryQueue, retry, retried>>
  BY DEF managerVars, retryVars
<1>3. f \in Places /\ "batch" \in Places /\ f # "batch" /\ Batch \subseteq Events
  BY PartsNow, WhereNow, PlaceNames DEF Holders, Batch
<1>4. /\ FateTypeOK' /\ fate'[f] = fate[f] \cup Batch
      /\ \A g \in Fates \ {f} : fate'[g] = fate[g]
  BY <1>1, <1>3, PartsNow, EndsAsFacts
<1>5. /\ DOMAIN Where' = Places /\ Where'["batch"] = Where["batch"] \ Batch
      /\ Where'[f] = Where[f] \cup Batch /\ Batch \subseteq Where["batch"]
      /\ \A p \in Places \ {"batch", f} : Where'[p] = Where[p]
  BY <1>1, <1>2, <1>4, WhereNow, WhereNext, EventSeqs DEF Places, Holders, Batch
<1>6. Partition(Where', arrived')
  BY <1>2, <1>3, <1>5, PartsNow, MoveFacts
<1>7. AggregatorTypeOK'
  BY <1>1, <1>2, PartsNow DEF AggregatorTypeOK
<1>8. ManagerTypeOK' /\ StageTypeOK' /\ QueueTypeOK' /\ RetryTypeOK' /\ RetryInv'
  BY <1>1, <1>2, PartsNow
  DEF ManagerTypeOK, StageTypeOK, Unlocked, QueueTypeOK, RetryTypeOK, RetryInv
<1>9. OrderInv'
  BY <1>1, <1>2, PartsNow, OrderKept
<1>10. Apart(retryQueue')
  BY <1>2, PartsNow
<1>11. QED
  BY <1>4, <1>6, <1>7, <1>8, <1>9, <1>10, PartsNext

(* Only what is named has changed.                                         *)
LEMMA AggregatorKept ==
  ASSUME IInv, UNCHANGED aggregatorVars
  PROVE  AggregatorTypeOK' /\ OrderInv'
<1>1. UNCHANGED <<mode, line, buffer, timer, batch, byTimer, dropped>>
  BY DEF aggregatorVars
<1>2. AggregatorTypeOK'
  BY <1>1, PartsNow DEF AggregatorTypeOK
<1>3. QED
  BY <1>1, <1>2, PartsNow, OrderKept

(* The retry task takes, drops or ends the item in its hand.               *)
LEMMA RetryMoves ==
  ASSUME IInv, UNCHANGED <<aggregatorVars, arrived, stage>>, ManagerTypeOK', RetryInv',
         QueueTypeOK', RetryTypeOK', FateTypeOK', Apart(retryQueue'),
         Partition(Where', arrived)
  PROVE  IInv'
<1>1. AggregatorTypeOK' /\ OrderInv'
  BY AggregatorKept
<1>2. StageTypeOK'
  BY PartsNow DEF StageTypeOK, Unlocked, aggregatorVars
<1>3. QED
  BY <1>1, <1>2, PartsNext

(* ... so that its events have the fate f.                                 *)
LEMMA RetriedEnds ==
  ASSUME IInv, NEW f \in Fates, EndsAs(f, Range(retried.events)), retried' = NoItem,
         UNCHANGED <<aggregatorVars, arrived, stage, retryQueue>>,
         ManagerTypeOK', RetryInv', RetryTypeOK'
  PROVE  IInv'
<1> DEFINE M == Range(retried.events)
<1>1. UNCHANGED <<line, buffer, batch, dropped, arrived, retryQueue>>
  BY DEF aggregatorVars
<1>2. f \in Places /\ "hand" \in Places /\ f # "hand" /\ M \subseteq Events
  BY PartsNow, WhereNow, PlaceNames DEF Holders
<1>3. /\ FateTypeOK' /\ fate'[f] = fate[f] \cup M
      /\ \A g \in Fates \ {f} : fate'[g] = fate[g]
  BY <1>2, PartsNow, EndsAsFacts
<1>4. /\ DOMAIN Where' = Places /\ Where'["hand"] = Where["hand"] \ M
      /\ Where'[f] = Where[f] \cup M /\ M \subseteq Where["hand"]
      /\ \A p \in Places \ {"hand", f} : Where'[p] = Where[p]
  BY <1>1, <1>3, WhereNow, WhereNext, EventSeqs DEF Places, Holders
<1>5. Partition(Where', arrived)
  BY <1>2, <1>4, PartsNow, MoveFacts
<1>6. QueueTypeOK' /\ Apart(retryQueue')
  BY <1>1, PartsNow DEF QueueTypeOK
<1>7. QED
  BY <1>3, <1>5, <1>6, RetryMoves

LEMMA NotifyKeeps ==
  ASSUME IInv, Notify
  PROVE  IInv'
<1> DEFINE new == arrived + 1
<1>1. /\ arrived < MaxEvents /\ arrived' = new
      /\ \/ line' = Append(line, new) /\ UNCHANGED fate
         \/ EndsAs("oversized", {new}) /\ UNCHANGED line
      /\ UNCHANGED <<mode, buffer, timer, batch, byTimer, dropped, phase, starts,
                     stage, retryQueue, retry, retried>>
  BY DEF Notify, retryVars
<1>2. /\ new \in Events /\ new \in Nat /\ arrived' \in 0..MaxEvents
      /\ \A x \in 1..arrived : x < new
  BY <1>1, PartsNow DEF Events, ManagerTypeOK
<1>3. /\ line \in Seq(Events) /\ line \in Seq(Nat) /\ Increasing(line) /\ OldestFirst
      /\ FateTypeOK /\ "oversized" \in Fates
      /\ {"line", "buffer", "batch", "dropped", "oversized"} \subseteq Places
  BY PartsNow, EventSeqs DEF AggregatorTypeOK, OrderInv, Fates, Places, Holders
<1>4. \A x \in Range(line) \cup Range(buffer) \cup Batch \cup dropped : x < new
  BY <1>2, <1>3, PartsNow, WhereNow DEF Partition, Batch
<1>5. ManagerTypeOK' /\ StageTypeOK' /\ QueueTypeOK' /\ RetryTypeOK' /\ RetryInv'
      /\ Apart(retryQueue')
  BY <1>1, <1>2, PartsNow
  DEF ManagerTypeOK, StageTypeOK, Unlocked, QueueTypeOK, RetryTypeOK, RetryInv
<1>6. CASE line' = Append(line, new) /\ UNCHANGED fate
  <2>1. /\ line' \in Seq(Events) /\ Range(line') = Range(line) \cup {new} /\ Increasing(line')
    BY <1>2, <1>3, <1>4, <1>6, RangeAppend, IncreasingAppend
  <2>2. AggregatorTypeOK' /\ FateTypeOK'
    BY <1>1, <1>6, <2>1, PartsNow DEF AggregatorTypeOK, FateTypeOK
  <2>3. OldestFirst'
    BY <1>1, <1>3, <1>4, <2>1 DEF OldestFirst, Batch
  <2>4. OrderInv'
    BY <1>1, <2>1, <2>3, PartsNow DEF OrderInv
  <2>5. /\ DOMAIN Where' = Places /\ Where'["line"] = Where["line"] \cup {new}
        /\ \A p \in Places \ {"line"} : Where'[p] = Where[p]
    BY <1>1, <1>6, <2>1, WhereNow, WhereNext DEF Places, Holders
  <2>6. Partition(Where', arrived')
    BY <1>1, <1>3, <2>5, PartsNow, ArriveFacts
  <2>7. QED
    BY <1>5, <2>2, <2>4, <2>6, PartsNext
<1>7. CASE EndsAs("oversized", {new}) /\ UNCHANGED line
  <2>1. /\ FateTypeOK' /\ fate'["oversized"] = fate["oversized"] \cup {new}
        /\ \A g \in Fates \ {"oversized"} : fate'[g] = fate[g]
    BY <1>2, <1>3, <1>7, EndsAsFacts
  <2>2. AggregatorTypeOK' /\ OrderInv'
    BY <1>1, <1>7, AggregatorKept DEF aggregatorVars
  <2>3. /\ DOMAIN Where' = Places /\ Where'["oversized"] = Where["oversized"] \cup {new}
        /\ \A p \in Places \ {"oversized"} : Where'[p] = Where[p]
    BY <1>1, <1>3, <1>7, <2>1, WhereNow, WhereNext DEF Places, Holders
  <2>4. Partition(Where', arrived')
    BY <1>1, <1>3, <2>3, PartsNow, ArriveFacts
  <2>5. QED
    BY <1>5, <2>1, <2>2, <2>4, PartsNext
<1>8. QED
  BY <1>1, <1>6, <1>7

LEMMA PushKeeps ==
  ASSUME IInv, PushNext
  PROVE  IInv'
<1> DEFINE first == Head(line)
           grown == Append(buffer, first)
           kept  == Bounded(grown)
           gone  == Range(grown) \ Range(kept)
<1>1. /\ batch = <<>> /\ line # <<>> /\ line' = Tail(line)
      /\ dropped' = dropped \cup gone
      /\ \/ TakeBatch(kept, FALSE)
         \/ /\ buffer' = kept
            /\ timer' = "sleeping" \/ timer' = timer
            /\ UNCHANGED <<batch, byTimer>>
      /\ stage' = (IF batch' = <<>> THEN "idle" ELSE "governance")
      /\ UNCHANGED <<mode, arrived, phase, starts, retryQueue, retry, retried, fate>>
  BY DEF PushNext, Push, Unlocked, ResetTimer, managerVars, retryVars
<1>2. /\ first \in Events /\ first \in Range(line)
      /\ Range(Tail(line)) = Range(line) \ {first}
      /\ Tail(line) \in Seq(Events) /\ Increasing(Tail(line))
      /\ \A x \in Range(Tail(line)) : first < x
      /\ Range(grown) = Range(buffer) \cup {first}
      /\ kept \in Seq(Events) /\ Len(kept) <= MaxBuffer /\ kept # <<>>
      /\ Increasing(kept) /\ Range(kept) \subseteq Range(grown)
      /\ \A d \in gone, x \in Range(kept) : d < x
  BY <1>1, PartsNow, PushFacts
<1> HIDE DEF first, grown, kept, gone
<1>3. /\ gone = Range(grown) \ Range(kept) /\ gone \subseteq Events
      /\ Range(buffer) \subseteq Events /\ dropped \subseteq Events
      /\ OldestFirst /\ Batch = {}
  BY <1>1, <1>2, PartsNow, EventSeqs DEF gone, AggregatorTypeOK, OrderInv, Batch
<1>4. /\ batch' \in Seq(Events) /\ Len(batch') <= MaxBuffer
      /\ buffer' \in Seq(Events) /\ Len(buffer') <= MaxBuffer /\ Increasing(buffer')
      /\ timer' \in {"none", "sleeping", "behind", "due"} /\ byTimer' \in BOOLEAN
      /\ \/ buffer' = kept /\ batch' = <<>>
         \/ buffer' = <<>> /\ batch' = kept
  BY <1>1, <1>2, PartsNow, EventSeqs DEF TakeBatch, AggregatorTypeOK
<1>5. AggregatorTypeOK'
  BY <1>1, <1>2, <1>3, <1>4, PartsNow DEF AggregatorTypeOK
<1>6. /\ ManagerTypeOK' /\ StageTypeOK' /\ QueueTypeOK' /\ RetryTypeOK' /\ FateTypeOK'
      /\ RetryInv' /\ Apart(retryQueue')
  BY <1>1, PartsNow
  DEF ManagerTypeOK, StageTypeOK, Unlocked, QueueTypeOK, RetryTypeOK, FateTypeOK, RetryInv
<1>7. OldestFirst'
  <2>1. \A e \in dropped \cup Range(grown), x \in Range(line') : e < x
    BY <1>1, <1>2, <1>3 DEF OldestFirst
  <2>2. \A e \in dropped', x \in Range(kept) : e < x
    BY <1>1, <1>2, <1>3 DEF OldestFirst
  <2>3. \/ Range(buffer') = Range(kept) /\ Batch' = {}
        \/ Range(buffer') = {} /\ Batch' = Range(kept)
    BY <1>4, EventSeqs DEF Batch
  <2>4. dropped' \subseteq dropped \cup Range(grown)
    BY <1>1, <1>3
  <2>5. CASE Range(buffer') = Range(kept) /\ Batch' = {}
    BY <1>2, <2>1, <2>2, <2>4, <2>5 DEF OldestFirst
  <2>6. CASE Range(buffer') = {} /\ Batch' = Range(kept)
    BY <1>2, <2>1, <2>4, <2>6 DEF OldestFirst
  <2>7. QED
    BY <2>3, <2>5, <2>6
<1>8. OrderInv'
  BY <1>1, <1>2, <1>4, <1>7 DEF OrderInv
<1>9. Partition(Where', arrived')
  <2> DEFINE F == Move(Where, "line", "buffer", {first})
             G == Move(F, "buffer", "dropped", gone)
  <2>0. {"line", "buffer", "batch", "dropped"} \subseteq Places
    BY DEF Places, Holders
  <2>1. /\ Partition(F, arrived) /\ DOMAIN F = Places
        /\ F["line"] = Where["line"] \ {first} /\ F["buffer"] = Where["buffer"] \cup {first}
        /\ \A p \in Places \ {"line", "buffer"} : F[p] = Where[p]
    BY <1>2, <2>0, PartsNow, WhereNow, MoveOn
  <2> HIDE DEF F
  <2>2. F["buffer"] = Range(grown) /\ gone \subseteq F["buffer"]
    BY <1>2, <1>3, <2>1, WhereNow
  <2>3. /\ Partition(G, arrived) /\ DOMAIN G = Places
        /\ G["buffer"] = F["buffer"] \ gone /\ G["dropped"] = F["dropped"] \cup gone
        /\ \A p \in Places \ {"buffer", "dropped"} : G[p] = F[p]
    BY <2>0, <2>1, <2>2, MoveOn
  <2> HIDE DEF G
  <2>4. /\ G["line"] = Range(line') /\ G["buffer"] = Range(kept) /\ G["dropped"] = dropped'
        /\ G["batch"] = {}
        /\ \A p \in Places \ {"line", "buffer", "dropped"} : G[p] = Where[p]
    BY <1>1, <1>2, <1>3, <2>0, <2>1, <2>2, <2>3, WhereNow DEF Batch
  <2>5. \A p \in Places \ {"buffer", "batch"} : Where'[p] = G[p]
    BY <1>1, <2>4, WhereNow, WhereNext DEF Places, Holders
  <2>6. CASE buffer' = kept /\ batch' = <<>>
    <3>1. Where'["buffer"] = G["buffer"] /\ Where'["batch"] = G["batch"]
      BY <2>4, <2>6, WhereNext, EventSeqs
    <3>2. DOMAIN Where' = Places /\ \A p \in Places : Where'[p] = G[p]
      BY <2>5, <3>1, WhereNext
    <3>3. Partition(Where', arrived)
      BY <2>3, <3>2 DEF Partition
    <3>4. QED
      BY <1>1, <3>3
  <2>7. CASE buffer' = <<>> /\ batch' = kept
    <3>1. /\ Where'["buffer"] = G["buffer"] \ Range(kept)
          /\ Where'["batch"] = G["batch"] \cup Range(kept)
          /\ Range(kept) \subseteq G["buffer"]
      BY <2>4, <2>7, WhereNext, EventSeqs
    <3>2. DOMAIN Where' = Places /\ "buffer" # "batch"
      BY WhereNext
    <3>3. Partition(Where', arrived)
      BY <2>0, <2>3, <2>5, <3>1, <3>2, MoveFacts
    <3>4. QED
      BY <1>1, <3>3
  <2>8. QED
    BY <1>4, <2>6, <2>7
<1>10. QED
  BY <1>5, <1>6, <1>8, <1>9, PartsNext

(* The debounce task takes all that is in the buffer.                      *)
LEMMA DebounceKeeps ==
  ASSUME IInv, DebounceFlushes
  PROVE  IInv'
<1>1. /\ batch = <<>> /\ buffer # <<>> /\ batch' = buffer /\ buffer' = <<>>
      /\ byTimer' \in BOOLEAN /\ timer' = "none" /\ stage' = "governance"
      /\ UNCHANGED <<mode, line, dropped, arrived, phase, starts, retryQueue, retry, retried, fate>>
  BY DEF DebounceFlushes, TimerFlushes, TakeBatch, Unlocked, managerVars, retryVars
<1>2. AggregatorTypeOK'
  BY <1>1, PartsNow DEF AggregatorTypeOK
<1>3. /\ ManagerTypeOK' /\ StageTypeOK' /\ QueueTypeOK' /\ RetryTypeOK' /\ FateTypeOK'
      /\ RetryInv' /\ Apart(retryQueue')
  BY <1>1, PartsNow
  DEF ManagerTypeOK, StageTypeOK, Unlocked, QueueTypeOK, RetryTypeOK, FateTypeOK, RetryInv
<1>4. OrderInv'
  BY <1>1, PartsNow, EventSeqs DEF OrderInv, OldestFirst, Batch
<1>5. /\ "buffer" \in Places /\ "batch" \in Places /\ DOMAIN Where' = Places
      /\ Where'["buffer"] = Where["buffer"] \ Range(buffer)
      /\ Where'["batch"] = Where["batch"] \cup Range(buffer)
      /\ Range(buffer) \subseteq Where["buffer"]
      /\ \A p \in Places \ {"buffer", "batch"} : Where'[p] = Where[p]
  BY <1>1, WhereNow, WhereNext, EventSeqs DEF Places, Holders
<1>6. Partition(Where', arrived')
  <2>1. Partition(Where, arrived) /\ "buffer" # "batch"
    BY PartsNow
  <2>2. Partition(Where', arrived)
    BY <1>5, <2>1, MoveFacts
  <2>3. QED
    BY <1>1, <2>2
<1>7. QED
  BY <1>2, <1>3, <1>4, <1>6, PartsNext

(* The batch that the agent refused waits in the retry queue.              *)
LEMMA AgentRaisesKeeps ==
  ASSUME IInv, AgentRaises
  PROVE  IInv'
<1> DEFINE item == [events |-> batch, attempt |-> 0]
<1>1. /\ Enqueue(item) /\ batch' = <<>> /\ byTimer' \in BOOLEAN /\ stage' = "idle"
      /\ UNCHANGED <<mode, buffer, timer, dropped, line, arrived, phase, starts, retry, retried>>
  BY DEF AgentRaises, FlushEnds, managerVars
<1>2. item \in Items /\ item.events = batch
  BY PartsNow DEF AggregatorTypeOK, Items
<1> HIDE DEF item
<1>3. /\ Where["batch"] = Range(item.events) /\ Where'["batch"] = {}
      /\ Range(line') = Range(line) /\ Range(buffer') = Range(buffer)
      /\ \A p \in {"batch", "hand"} \ {"batch"} : Where'[p] = Where[p]
  BY <1>1, <1>2, WhereNow, WhereNext, EventSeqs
<1>4. /\ QueueTypeOK' /\ FateTypeOK' /\ Apart(retryQueue')
      /\ Partition(Where', arrived)
  BY <1>1, <1>2, <1>3, PartsNow, EnqueueFacts
<1>5. AggregatorTypeOK'
  BY <1>1, PartsNow DEF AggregatorTypeOK
<1>6. ManagerTypeOK' /\ StageTypeOK' /\ RetryTypeOK' /\ RetryInv'
  BY <1>1, PartsNow DEF ManagerTypeOK, StageTypeOK, Unlocked, RetryTypeOK, RetryInv
<1>7. OrderInv'
  BY <1>1, PartsNow, OrderKept
<1>8. QED
  BY <1>1, <1>4, <1>5, <1>6, <1>7, PartsNext

LEMMA RetryKeeps ==
  ASSUME IInv, RetryStep
  PROVE  IInv'
<1>1. CASE RetryTakes
  <2> DEFINE M == Range(Head(retryQueue).events)
  <2>1. /\ retry = "idle" /\ retryQueue # <<>> /\ retry' = "trigger"
        /\ retried' = Head(retryQueue) /\ retryQueue' = Tail(retryQueue)
        /\ UNCHANGED <<aggregatorVars, arrived, phase, starts, stage, fate>>
    BY <1>1 DEF RetryTakes, managerVars
  <2>2. /\ Head(retryQueue) \in Items /\ Tail(retryQueue) \in Seq(Items)
        /\ Len(Tail(retryQueue)) = Len(retryQueue) - 1
        /\ Apart(Tail(retryQueue)) /\ M \subseteq EventsOf(retryQueue)
        /\ EventsOf(Tail(retryQueue)) = EventsOf(retryQueue) \ M
    BY <2>1, PartsNow, QueueTail DEF QueueTypeOK
  <2>3. Range(retried.events) = {}
    BY <2>1, PartsNow, EventSeqs DEF RetryInv
  <2>4. /\ ManagerTypeOK' /\ RetryInv' /\ QueueTypeOK' /\ RetryTypeOK' /\ FateTypeOK'
        /\ Apart(retryQueue')
    BY <2>1, <2>2, PartsNow DEF ManagerTypeOK, RetryInv, QueueTypeOK, RetryTypeOK, FateTypeOK
  <2>5. UNCHANGED <<line, buffer, batch, dropped>>
    BY <2>1 DEF aggregatorVars
  <2>6. /\ "queue" \in Places /\ "hand" \in Places /\ DOMAIN Where' = Places
        /\ Where'["queue"] = Where["queue"] \ M /\ Where'["hand"] = Where["hand"] \cup M
        /\ M \subseteq Where["queue"]
        /\ \A p \in Places \ {"queue", "hand"} : Where'[p] = Where[p]
    BY <2>1, <2>2, <2>3, <2>5, WhereNow, WhereNext DEF Places, Holders
  <2> HIDE DEF M
  <2>7. Partition(Where', arrived)
    <3>1. Partition(Where, arrived) /\ "queue" # "hand"
      BY PartsNow
    <3>2. QED
      BY <2>6, <3>1, MoveFacts
  <2>8. QED
    BY <2>1, <2>4, <2>7, RetryMoves
<1>2. CASE RetryReturns
  <2>1. /\ retry = "trigger" /\ EndsAs("triggered", Range(retried.events))
        /\ retry' = "idle" /\ retried' = NoItem
        /\ UNCHANGED <<aggregatorVars, arrived, phase, starts, stage, retryQueue>>
    BY <1>2 DEF RetryReturns, RetryEnds, managerVars
  <2>2. ManagerTypeOK' /\ RetryInv' /\ RetryTypeOK' /\ "triggered" \in Fates
    BY <2>1, PartsNow, EventSeqs DEF ManagerTypeOK, RetryInv, RetryTypeOK, Fates
  <2>3. QED
    BY <2>1, <2>2, RetriedEnds
<1>3. CASE RetryRaises
  <2>1. retry = "trigger" /\ UNCHANGED <<aggregatorVars, arrived, phase, starts, stage, retryQueue>>
    BY <1>3 DEF RetryRaises, managerVars
  <2>2. CASE retried.attempt + 1 >= MaxAttempts
    <3>1. EndsAs("dead", Range(retried.events)) /\ retry' = "idle" /\ retried' = NoItem
      BY <1>3, <2>2 DEF RetryRaises, RetryEnds
    <3>2. ManagerTypeOK' /\ RetryInv' /\ RetryTypeOK' /\ "dead" \in Fates
      BY <2>1, <3>1, PartsNow, EventSeqs DEF ManagerTypeOK, RetryInv, RetryTypeOK, Fates
    <3>3. QED
      BY <2>1, <3>1, <3>2, RetriedEnds
  <2>3. CASE ~(retried.attempt + 1 >= MaxAttempts)
    <3>1. /\ retry' = "sleep" /\ retried' = [retried EXCEPT !.attempt = @ + 1]
          /\ UNCHANGED fate
      BY <1>3, <2>3 DEF RetryRaises
    <3>2. retried' \in Items /\ retried'.events = retried.events
      BY <2>3, <3>1, PartsNow DEF RetryTypeOK, Items
    <3>3. /\ ManagerTypeOK' /\ RetryInv' /\ RetryTypeOK' /\ QueueTypeOK' /\ FateTypeOK'
          /\ Apart(retryQueue')
      BY <2>1, <3>1, <3>2, PartsNow
      DEF ManagerTypeOK, RetryInv, RetryTypeOK, QueueTypeOK, FateTypeOK
    <3>4. UNCHANGED <<line, buffer, batch, dropped>>
      BY <2>1 DEF aggregatorVars
    <3>5. DOMAIN Where' = Places /\ \A p \in Places : Where'[p] = Where[p]
      BY <2>1, <3>1, <3>2, <3>4, WhereNow, WhereNext DEF Places, Holders
    <3>6. Partition(Where', arrived)
      BY <3>5, PartsNow DEF Partition
    <3>7. QED
      BY <2>1, <3>3, <3>6, RetryMoves
  <2>4. QED
    BY <2>2, <2>3
<1>4. CASE RetryWakes
  <2>1. /\ retry = "sleep" /\ Enqueue(retried) /\ retry' = "idle" /\ retried' = NoItem
        /\ UNCHANGED <<aggregatorVars, arrived, phase, starts, stage>>
    BY <1>4 DEF RetryWakes, RetryEnds, managerVars
  <2>2. UNCHANGED <<line, buffer, batch, dropped>>
    BY <2>1 DEF aggregatorVars
  <2>3. /\ Where["hand"] = Range(retried.events) /\ Where'["hand"] = {}
        /\ Range(line') = Range(line) /\ Range(buffer') = Range(buffer)
        /\ \A p \in {"batch", "hand"} \ {"hand"} : Where'[p] = Where[p]
    BY <2>1, <2>2, WhereNow, WhereNext, EventSeqs
  <2>4. retried \in Items
    BY PartsNow DEF RetryTypeOK
  <2>5. /\ QueueTypeOK' /\ FateTypeOK' /\ Apart(retryQueue')
        /\ Partition(Where', arrived)
    BY <2>1, <2>2, <2>3, <2>4, PartsNow, EnqueueFacts
  <2>6. ManagerTypeOK' /\ RetryInv' /\ RetryTypeOK'
    BY <2>1, PartsNow, EventSeqs DEF ManagerTypeOK, RetryInv, RetryTypeOK
  <2>7. QED
    BY <2>1, <2>5, <2>6, RetryMoves
<1>5. QED
  BY <1>1, <1>2, <1>3, <1>4 DEF RetryStep

LEMMA StopTasksKeeps ==
  ASSUME IInv, StopTasks
  PROVE  IInv'
<1> DEFINE flush == IF byTimer THEN {} ELSE Batch
           L == Range(line)
<1>1. /\ phase = "stopping" /\ phase' = "closing" /\ line' = <<>>
      /\ EndsAs("cancelled", L \cup flush)
      /\ timer' = (IF timer = "behind" THEN "due" ELSE timer)
      /\ \/ byTimer /\ UNCHANGED <<batch, stage>>
         \/ ~byTimer /\ batch' = <<>> /\ stage' = "idle"
      /\ UNCHANGED <<mode, buffer, byTimer, dropped, arrived, starts, retryQueue, retry, retried>>
  BY DEF StopTasks, retryVars
<1>2. flush \subseteq Batch /\ Batch' = Batch \ flush
  BY <1>1, EventSeqs DEF Batch
<1> HIDE DEF flush
<1>3. /\ {"line", "batch", "cancelled"} \subseteq Places /\ "cancelled" \in Fates
      /\ "line" \notin Fates /\ "batch" \notin Fates
  BY DEF Places, Holders, Fates
<1>4. L \cup flush \subseteq Events
  BY <1>2, <1>3, PartsNow, WhereNow DEF Batch
<1>5. /\ FateTypeOK' /\ fate'["cancelled"] = fate["cancelled"] \cup (L \cup flush)
      /\ \A g \in Fates \ {"cancelled"} : fate'[g] = fate[g]
  BY <1>1, <1>3, <1>4, PartsNow, EndsAsFacts
<1>6. AggregatorTypeOK'
  <2>1. timer' \in {"none", "sleeping", "behind", "due"}
    BY <1>1, PartsNow DEF AggregatorTypeOK
  <2>2. batch' \in Seq(Events) /\ Len(batch') <= MaxBuffer
    <3>1. batch \in Seq(Events) /\ Len(batch) <= MaxBuffer
      BY PartsNow DEF AggregatorTypeOK
    <3>2. <<>> \in Seq(Events) /\ Len(<<>>) <= MaxBuffer
      OBVIOUS
    <3>3. batch' = batch \/ batch' = <<>>
      BY <1>1
    <3>4. QED
      BY <3>1, <3>2, <3>3
  <2>3. line' \in Seq(Events)
    BY <1>1
  <2>4. QED
    BY <1>1, <2>1, <2>2, <2>3, PartsNow DEF AggregatorTypeOK
<1>7. ManagerTypeOK' /\ StageTypeOK' /\ QueueTypeOK' /\ RetryTypeOK' /\ RetryInv'
      /\ Apart(retryQueue')
  BY <1>1, PartsNow
  DEF ManagerTypeOK, StageTypeOK, Unlocked, QueueTypeOK, RetryTypeOK, RetryInv
<1>8. OrderInv'
  <2>1. Range(line') = {} /\ Increasing(line') /\ Range(buffer') = Range(buffer)
    BY <1>1, EventSeqs
  <2>2. OldestFirst'
    BY <1>1, <1>2, <2>1, PartsNow DEF OrderInv, OldestFirst
  <2>3. QED
    BY <1>1, <2>1, <2>2, PartsNow DEF OrderInv
<1>9. Partition(Where', arrived)
  <2> DEFINE F == Move(Where, "line", "cancelled", L)
  <2>1. Partition(Where, arrived) /\ "line" # "cancelled" /\ "batch" # "cancelled"
    BY PartsNow
  <2>2. /\ Partition(F, arrived) /\ DOMAIN F = Places
        /\ F["line"] = Where["line"] \ L /\ F["cancelled"] = Where["cancelled"] \cup L
        /\ \A p \in Places \ {"line", "cancelled"} : F[p] = Where[p]
    BY <1>3, <2>1, WhereNow, MoveOn
  <2> HIDE DEF F
  <2>3. /\ DOMAIN Where' = Places
        /\ Where'["batch"] = F["batch"] \ flush
        /\ Where'["cancelled"] = F["cancelled"] \cup flush
        /\ flush \subseteq F["batch"]
    BY <1>2, <1>3, <1>5, <2>2, WhereNow, WhereNext DEF Batch
  <2>4. \A p \in Places \ {"batch", "cancelled"} : Where'[p] = F[p]
    <3>1. Where'["line"] = F["line"]
      BY <1>1, <2>2, WhereNow, WhereNext, EventSeqs
    <3>2. \A p \in Places \ {"line", "batch", "cancelled"} : Where'[p] = Where[p]
      BY <1>1, <1>5, WhereNow, WhereNext DEF Places, Holders
    <3>3. QED
      BY <2>2, <3>1, <3>2
  <2>5. QED
    BY <1>3, <2>1, <2>2, <2>3, <2>4, MoveFacts
<1>10. QED
  BY <1>1, <1>5, <1>6, <1>7, <1>8, <1>9, PartsNext

LEMMA NextIInv == IInv /\ [Next]_vars => IInv'
<1> SUFFICES ASSUME IInv, [Next]_vars PROVE IInv'
  OBVIOUS
<1>1. CASE Notify
  BY <1>1, NotifyKeeps
<1>2. CASE PushNext
  BY <1>2, PushKeeps
<1>3. CASE DebounceWakes
  <2>1. /\ timer' \in {"behind", "due"}
        /\ UNCHANGED <<mode, line, buffer, batch, byTimer, dropped, managerVars, stage, retryVars, fate>>
    BY <1>3 DEF DebounceWakes, TimerWakes
  <2>2. UNCHANGED <<arrived, phase, starts, retryQueue, retry, retried>>
    BY <2>1 DEF managerVars, retryVars
  <2>3. AggregatorTypeOK' /\ OrderInv'
    BY <2>1, PartsNow, OrderKept DEF AggregatorTypeOK
  <2>4. /\ ManagerTypeOK' /\ StageTypeOK' /\ QueueTypeOK' /\ RetryTypeOK' /\ FateTypeOK'
        /\ RetryInv' /\ Apart(retryQueue')
    BY <2>1, <2>2, PartsNow
    DEF ManagerTypeOK, StageTypeOK, Unlocked, QueueTypeOK, RetryTypeOK, FateTypeOK, RetryInv
  <2>5. DOMAIN Where' = Places /\ \A p \in Places : Where'[p] = Where[p]
    BY <2>1, <2>2, WhereNow, WhereNext DEF Places, Holders
  <2>6. Partition(Where', arrived')
    BY <2>2, <2>5, PartsNow DEF Partition
  <2>7. QED
    BY <2>3, <2>4, <2>6, PartsNext
<1>4. CASE DebounceFlushes
  BY <1>4, DebounceKeeps
<1>5. CASE Block
  <2>1. Leave("blocked") /\ UNCHANGED <<line, managerVars, retryVars>> /\ "blocked" \in Fates
    BY <1>5 DEF Block, Fates
  <2>2. QED
    BY <2>1, LeaveKeeps
<1>6. CASE GovernanceRaises
  <2>1. Leave("error") /\ UNCHANGED <<line, managerVars, retryVars>> /\ "error" \in Fates
    BY <1>6 DEF GovernanceRaises, Fates
  <2>2. QED
    BY <2>1, LeaveKeeps
<1>7. CASE AgentReturns
  <2>1. Leave("triggered") /\ UNCHANGED <<line, managerVars, retryVars>> /\ "triggered" \in Fates
    BY <1>7 DEF AgentReturns, Fates
  <2>2. QED
    BY <2>1, LeaveKeeps
<1>8. CASE OwnCancelArrives
  <2>1. Leave("cancelled") /\ UNCHANGED <<line, managerVars, retryVars>> /\ "cancelled" \in Fates
    BY <1>8 DEF OwnCancelArrives, Fates
  <2>2. QED
    BY <2>1, LeaveKeeps
<1>9. CASE AgentRaises
  BY <1>9, AgentRaisesKeeps
<1>10. CASE RetryStep
  BY <1>10, RetryKeeps
<1>11. CASE StopRetries
  <2>1. /\ phase = "running" /\ phase' = "stopping" /\ retry' = "off" /\ retried' = NoItem
        /\ EndsAs("cancelled", Range(retried.events))
        /\ UNCHANGED <<aggregatorVars, arrived, starts, stage, retryQueue>>
    BY <1>11 DEF StopRetries
  <2>2. ManagerTypeOK' /\ RetryInv' /\ RetryTypeOK' /\ "cancelled" \in Fates
    BY <2>1, PartsNow, EventSeqs DEF ManagerTypeOK, RetryInv, RetryTypeOK, Fates
  <2>3. QED
    BY <2>1, <2>2, RetriedEnds
<1>12. CASE StopTasks
  BY <1>12, StopTasksKeeps
(* What is left moves no event.                                            *)
<1>13. ASSUME UNCHANGED <<aggregatorVars, arrived, retryQueue, retried, fate>>,
              ManagerTypeOK', StageTypeOK', RetryTypeOK', RetryInv'
       PROVE  IInv'
  <2>1. AggregatorTypeOK' /\ OrderInv'
    BY <1>13, AggregatorKept
  <2>2. UNCHANGED <<line, buffer, batch, dropped>>
    BY <1>13 DEF aggregatorVars
  <2>3. DOMAIN Where' = Places /\ \A p \in Places : Where'[p] = Where[p]
    BY <1>13, <2>2, WhereNow, WhereNext DEF Places, Holders
  <2>4. Partition(Where', arrived')
    BY <1>13, <2>3, PartsNow DEF Partition
  <2>5. QueueTypeOK' /\ FateTypeOK' /\ Apart(retryQueue')
    BY <1>13, PartsNow DEF QueueTypeOK, FateTypeOK
  <2>6. QED
    BY <1>13, <2>1, <2>4, <2>5, PartsNext
<1>14. CASE Allow
  <2>1. /\ stage = "governance" /\ stage' = "trigger" /\ UNCHANGED batch
        /\ UNCHANGED <<aggregatorVars, arrived, phase, starts, retryQueue, retry, retried, fate>>
    BY <1>14 DEF Allow, managerVars, retryVars, aggregatorVars
  <2>2. ManagerTypeOK' /\ StageTypeOK' /\ RetryTypeOK' /\ RetryInv'
    BY <2>1, PartsNow DEF ManagerTypeOK, StageTypeOK, Unlocked, RetryTypeOK, RetryInv
  <2>3. QED
    BY <1>13, <2>1, <2>2
<1>15. CASE Start
  <2>1. /\ phase = "stopped" /\ starts < MaxStarts /\ starts' = starts + 1
        /\ phase' = "running" /\ retry' = "idle" /\ UNCHANGED batch
        /\ UNCHANGED <<aggregatorVars, arrived, stage, retryQueue, retried, fate>>
    BY <1>15 DEF Start, aggregatorVars
  <2>2. ManagerTypeOK' /\ StageTypeOK' /\ RetryTypeOK' /\ RetryInv'
    BY <2>1, PartsNow DEF ManagerTypeOK, StageTypeOK, Unlocked, RetryTypeOK, RetryInv
  <2>3. QED
    BY <1>13, <2>1, <2>2
<1>16. CASE StopListening
  <2>1. /\ phase = "closing" /\ phase' = "stopped" /\ UNCHANGED batch
        /\ UNCHANGED <<aggregatorVars, arrived, starts, stage, retryQueue, retry, retried, fate>>
    BY <1>16 DEF StopListening, retryVars, aggregatorVars
  <2>2. ManagerTypeOK' /\ StageTypeOK' /\ RetryTypeOK' /\ RetryInv'
    BY <2>1, PartsNow DEF ManagerTypeOK, StageTypeOK, Unlocked, RetryTypeOK, RetryInv
  <2>3. QED
    BY <1>13, <2>1, <2>2
<1>17. CASE UNCHANGED vars
  <2>1. UNCHANGED <<aggregatorVars, arrived, phase, starts, stage, retryQueue, retry, retried, fate, batch>>
    BY <1>17 DEF vars, managerVars, retryVars, aggregatorVars
  <2>2. ManagerTypeOK' /\ StageTypeOK' /\ RetryTypeOK' /\ RetryInv'
    BY <2>1, PartsNow DEF ManagerTypeOK, StageTypeOK, Unlocked, RetryTypeOK, RetryInv
  <2>3. QED
    BY <1>13, <2>1, <2>2
<1>18. QED
  BY <1>1, <1>2, <1>3, <1>4, <1>5, <1>6, <1>7, <1>8, <1>9, <1>10, <1>11, <1>12, <1>14,
     <1>15, <1>16, <1>17
  DEF Next, FlushStep

LEMMA Invariance == Spec => []IInv
  BY InitIInv, NextIInv, PTL DEF Spec

-----------------------------------------------------------------------------
(* What it says                                                            *)

(* Buffer, batch and retry queue keep to their bounds, and nobody but the  *)
(* flush that took a batch has the lock.                                   *)
THEOREM DBChangeTypeOK == Spec => []TypeOK
<1>1. IInv => TypeOK
  BY DEF IInv
<1>2. QED
  BY Invariance, <1>1, PTL

(* The agent is first asked about events in the order they came, whatever  *)
(* the mode, and it is the oldest that a full buffer gives up.             *)
THEOREM DBChangeOldestFirst == Spec => []OldestFirst
<1>1. IInv => OldestFirst
  BY DEF IInv, OrderInv
<1>2. QED
  BY Invariance, <1>1, PTL

(* Every event is accounted for, and exactly once.                         *)
LEMMA OnceByPlaces ==
  ASSUME IInv
  PROVE  EveryEventOnce
<1>1. /\ \A p \in Places : Where[p] \subseteq 1..arrived
      /\ \A p, q \in Places : p # q => Where[p] \cap Where[q] = {}
      /\ \A e \in 1..arrived : \E p \in Places : e \in Where[p]
      /\ Apart(retryQueue)
  BY DEF IInv, Partition
<1>2. /\ DOMAIN Held = {"line", "buffer", "batch", "queue", "hand"}
      /\ \A h \in DOMAIN Held : h \in Places /\ h \notin Fates /\ h # "dropped" /\ Held[h] = Where[h]
  BY WhereNow DEF Held, Batch, Places, Holders, Fates
<1>3. /\ "dropped" \in Places /\ "dropped" \notin Fates /\ Where["dropped"] = dropped
      /\ \A f \in Fates : f \in Places /\ Where[f] = fate[f]
      /\ \A p \in Places : p \in DOMAIN Held \/ p = "dropped" \/ p \in Fates
  BY <1>2, WhereNow DEF Places, Holders, Fates
<1>4. \A e : e \in Settled <=> e \in dropped \/ \E f \in Fates : e \in fate[f]
  <2> DEFINE U == {fate[f] : f \in Fates}
  <2>1. Settled = dropped \cup UNION U
    BY DEF Settled
  <2>2. \A f \in Fates : fate[f] \in U
    OBVIOUS
  <2>3. \A S \in U : \E f \in Fates : S = fate[f]
    OBVIOUS
  <2> HIDE DEF U
  <2>4. \A e : e \in UNION U <=> \E f \in Fates : e \in fate[f]
    BY <2>2, <2>3
  <2>5. QED
    BY <2>1, <2>4
<1>5. NoEventVanishes
  <2> SUFFICES ASSUME NEW e \in 1..arrived
               PROVE  e \in Settled \/ \E h \in DOMAIN Held : e \in Held[h]
    BY DEF NoEventVanishes
  <2>1. PICK p \in Places : e \in Where[p]
    BY <1>1
  <2>2. CASE p \in DOMAIN Held
    BY <1>2, <2>1, <2>2
  <2>3. CASE p \notin DOMAIN Held
    <3>1. e \in dropped \/ \E f \in Fates : e \in fate[f]
      BY <1>3, <2>1, <2>3
    <3>2. QED
      BY <1>4, <3>1
  <2>4. QED
    BY <2>2, <2>3
<1>6. \A h, g \in DOMAIN Held : h # g => Held[h] \cap Held[g] = {}
  BY <1>1, <1>2
<1>7. \A h \in DOMAIN Held : Held[h] \cap Settled = {}
  <2> SUFFICES ASSUME NEW h \in DOMAIN Held, NEW e, e \in Held[h], e \in Settled
               PROVE  FALSE
    OBVIOUS
  <2>1. PICK p \in Fates \cup {"dropped"} : e \in Where[p]
    BY <1>3, <1>4
  <2>2. p \in Places /\ h # p /\ e \in Where[h]
    BY <1>2, <1>3
  <2>3. QED
    BY <1>1, <1>2, <2>1, <2>2
<1>8. \A f, g \in Fates : f # g => fate[f] \cap fate[g] = {}
  BY <1>1, <1>3
<1>9. \A f \in Fates : fate[f] \cap dropped = {}
  BY <1>1, <1>3
<1>10. QED
  BY <1>1, <1>5, <1>6, <1>7, <1>8, <1>9 DEF EveryEventOnce, OnePlace, Apart

(* None of the ways an event can take, through pushes, flushes, timers,    *)
(* retries, shedding and stops, loses it or leaves it in two places.       *)
THEOREM DBChangeEveryEventOnce == Spec => []EveryEventOnce
<1>1. IInv => EveryEventOnce
  BY OnceByPlaces
<1>2. QED
  BY Invariance, <1>1, PTL
=============================================================================
