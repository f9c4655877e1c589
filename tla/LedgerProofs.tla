---------------------------- MODULE LedgerProofs ----------------------------
(***************************************************************************)
(* Proofs about Ledger for every queue size, batch size, retry limit and   *)
(* number of records: its types, that no record is lost silently, that a   *)
(* record has one fate, that it keeps the promise of AuditLog, and that it *)
(* does nothing LedgerView does not show to those who query it.            *)
(***************************************************************************)
EXTENDS Ledger, SequenceTheorems, TLAPS

-----------------------------------------------------------------------------
(* Sequences                                                               *)

(* The numbers in s grow from each place to the next.                      *)
Increasing(s) == \A i, j \in 1..Len(s) : i < j => s[i] < s[j]

(* Appending adds one element.                                             *)
LEMMA RangeAppend ==
  ASSUME NEW S, NEW s \in Seq(S), NEW e \in S
  PROVE  Range(Append(s, e)) = Range(s) \cup {e}
<1>1. Append(s, e) = s \o <<e>>
  BY AppendIsConcat
<1>2. Range(s \o <<e>>) = Range(s) \cup Range(<<e>>)
  BY RangeConcatenation
<1>3. Range(<<e>>) = {e}
  BY DEF Range
<1>4. QED
  BY <1>1, <1>2, <1>3

(* Taking off the head: the two parts of the split after one element.      *)
LEMMA HeadTail ==
  ASSUME NEW S, NEW s \in Seq(S), s # <<>>
  PROVE  /\ Head(s) \in S
         /\ Tail(s) \in Seq(S) /\ Len(Tail(s)) = Len(s) - 1
         /\ Range(s) = {Head(s)} \cup Range(Tail(s))
<1>1. /\ Head(s) \in S
      /\ Tail(s) \in Seq(S) /\ Len(Tail(s)) = Len(s) - 1
  BY HeadTailProperties
<1>2. s = <<Head(s)>> \o Tail(s)
  OBVIOUS
<1>3. Range(<<Head(s)>> \o Tail(s)) = Range(<<Head(s)>>) \cup Range(Tail(s))
  <2>1. <<Head(s)>> \in Seq(S) /\ Tail(s) \in Seq(S)
    BY <1>1
  <2> DEFINE h == <<Head(s)>>
             t == Tail(s)
  <2> HIDE DEF h, t
  <2>2. h \in Seq(S) /\ t \in Seq(S)
    BY <2>1 DEF h, t
  <2>3. Range(h \o t) = Range(h) \cup Range(t)
    BY <2>2, RangeConcatenation
  <2>4. QED
    BY <2>3 DEF h, t
<1>4. Range(<<Head(s)>>) = {Head(s)}
  BY DEF Range
<1>5. QED
  BY <1>1, <1>2, <1>3, <1>4

(* The two parts of a sequence hold its elements between them.             *)
LEMMA SplitFacts ==
  ASSUME NEW S, NEW s \in Seq(S), NEW k \in 0..Len(s)
  PROVE  LET front == SubSeq(s, 1, k)
             back  == SubSeq(s, k + 1, Len(s))
         IN  /\ front \in Seq(S) /\ Len(front) = k
             /\ back \in Seq(S) /\ Len(back) = Len(s) - k
             /\ \A i \in 1..k : front[i] = s[i]
             /\ \A i \in 1..(Len(s) - k) : back[i] = s[k + i]
             /\ Range(s) = Range(front) \cup Range(back)
<1> DEFINE front == SubSeq(s, 1, k)
           back  == SubSeq(s, k + 1, Len(s))
<1>1. /\ front \in Seq(S) /\ Len(front) = k
      /\ \A i \in 1..k : front[i] = s[i]
  OBVIOUS
<1>2. /\ back \in Seq(S) /\ Len(back) = Len(s) - k
      /\ \A i \in 1..(Len(s) - k) : back[i] = s[k + i]
  OBVIOUS
<1>3. front \o back = s
  <2>1. /\ Len(s) \in Nat /\ 1 \in 1..(Len(s) + 1)
        /\ k \in (1 - 1)..Len(s) /\ Len(s) \in k..Len(s)
    OBVIOUS
  <2>2. front \o back = SubSeq(s, 1, Len(s))
    BY <2>1, ConcatAdjacentSubSeq
  <2>3. QED
    BY <2>2, SubSeqFull
<1> HIDE DEF front, back
<1>4. Range(s) = Range(front) \cup Range(back)
  <2>1. front \in Seq(S) /\ back \in Seq(S)
    BY <1>1, <1>2
  <2>2. Range(front \o back) = Range(front) \cup Range(back)
    BY <2>1, RangeConcatenation
  <2>3. QED
    BY <1>3, <2>2
<1>5. QED
  BY <1>1, <1>2, <1>4 DEF front, back

(* An increasing sequence stays so when a larger number is appended.       *)
LEMMA IncreasingAppend ==
  ASSUME NEW s \in Seq(Nat), NEW e \in Nat, Increasing(s),
         \A x \in Range(s) : x < e
  PROVE  Increasing(Append(s, e))
<1>1. SUFFICES ASSUME NEW i \in 1..(Len(s) + 1), NEW j \in 1..(Len(s) + 1), i < j
               PROVE  Append(s, e)[i] < Append(s, e)[j]
  <2>1. Len(Append(s, e)) = Len(s) + 1
    OBVIOUS
  <2>2. QED
    BY <2>1 DEF Increasing
<1>2. i \in 1..Len(s) /\ Append(s, e)[i] = s[i]
  BY <1>1
<1>3. CASE j <= Len(s)
  BY <1>1, <1>2, <1>3 DEF Increasing
<1>4. CASE j = Len(s) + 1
  BY <1>2, <1>4 DEF Range
<1>5. QED
  BY <1>3, <1>4

(* The head of an increasing sequence is below its tail, which increases.  *)
LEMMA IncreasingTail ==
  ASSUME NEW s \in Seq(Nat), s # <<>>, Increasing(s)
  PROVE  /\ Increasing(Tail(s))
         /\ \A x \in Range(Tail(s)) : Head(s) < x
<1>1. /\ Head(s) = s[1] /\ 1 \in 1..Len(s)
      /\ Tail(s) \in Seq(Nat) /\ Len(Tail(s)) = Len(s) - 1
      /\ \A i \in 1..Len(Tail(s)) : Tail(s)[i] = s[i + 1] /\ i + 1 \in 1..Len(s)
  OBVIOUS
<1>2. QED
  BY <1>1 DEF Increasing, Range

(* When the sequence is increasing so are its parts, the first below the   *)
(* second.                                                                 *)
LEMMA IncreasingSplit ==
  ASSUME NEW s \in Seq(Nat), NEW k \in 0..Len(s), Increasing(s)
  PROVE  LET front == SubSeq(s, 1, k)
             back  == SubSeq(s, k + 1, Len(s))
         IN  /\ Increasing(front)
             /\ Increasing(back)
             /\ \A x \in Range(front), y \in Range(back) : x < y
<1> DEFINE front == SubSeq(s, 1, k)
           back  == SubSeq(s, k + 1, Len(s))
<1>1. /\ front \in Seq(Nat) /\ Len(front) = k
      /\ back \in Seq(Nat) /\ Len(back) = Len(s) - k
      /\ \A i \in 1..k : front[i] = s[i]
      /\ \A i \in 1..(Len(s) - k) : back[i] = s[k + i]
  BY SplitFacts
<1> HIDE DEF front, back
<1>2. ASSUME NEW i \in 1..Len(front), NEW j \in 1..Len(front), i < j
      PROVE  front[i] < front[j]
  <2>1. /\ i \in 1..Len(s) /\ j \in 1..Len(s)
        /\ front[i] = s[i] /\ front[j] = s[j]
    BY <1>1
  <2>2. QED
    BY <1>2, <2>1 DEF Increasing
<1>3. ASSUME NEW i \in 1..Len(back), NEW j \in 1..Len(back), i < j
      PROVE  back[i] < back[j]
  <2>1. /\ i \in 1..(Len(s) - k) /\ j \in 1..(Len(s) - k)
        /\ k + i \in 1..Len(s) /\ k + j \in 1..Len(s) /\ k + i < k + j
    <3>1. Len(back) = Len(s) - k
      BY <1>1
    <3>2. QED
      BY <1>3, <3>1
  <2>2. back[i] = s[k + i] /\ back[j] = s[k + j]
    BY <1>1, <2>1
  <2>3. QED
    BY <2>1, <2>2 DEF Increasing
<1>4. ASSUME NEW i \in 1..Len(front), NEW j \in 1..Len(back)
      PROVE  front[i] < back[j]
  <2>1. /\ i \in 1..k /\ j \in 1..(Len(s) - k)
        /\ i \in 1..Len(s) /\ k + j \in 1..Len(s) /\ i < k + j
    <3>1. Len(front) = k /\ Len(back) = Len(s) - k
      BY <1>1
    <3>2. QED
      BY <3>1
  <2>2. front[i] = s[i] /\ back[j] = s[k + j]
    BY <1>1, <2>1
  <2>3. QED
    BY <2>1, <2>2 DEF Increasing
<1>5. \A x \in Range(front), y \in Range(back) : x < y
  BY <1>1, <1>4 DEF Range
<1>6. QED
  BY <1>2, <1>3, <1>5 DEF Increasing, front, back

(* Two increasing sequences, the first below the second, join to one.      *)
LEMMA IncreasingConcat ==
  ASSUME NEW s \in Seq(Nat), NEW t \in Seq(Nat),
         Increasing(s), Increasing(t),
         \A x \in Range(s), y \in Range(t) : x < y
  PROVE  Increasing(s \o t)
<1>1. SUFFICES ASSUME NEW i \in 1..Len(s \o t), NEW j \in 1..Len(s \o t), i < j
               PROVE  (s \o t)[i] < (s \o t)[j]
  BY DEF Increasing
<1>a. i \in Nat /\ j \in Nat /\ Len(s) \in Nat
  OBVIOUS
<1>2. CASE j <= Len(s)
  BY <1>1, <1>2 DEF Increasing
<1>3. CASE i > Len(s)
  <2>1. /\ i - Len(s) \in 1..Len(t) /\ j - Len(s) \in 1..Len(t)
        /\ i - Len(s) < j - Len(s)
        /\ (s \o t)[i] = t[i - Len(s)] /\ (s \o t)[j] = t[j - Len(s)]
    BY <1>1, <1>3
  <2>2. QED
    BY <2>1 DEF Increasing
<1>4. CASE i <= Len(s) /\ j > Len(s)
  <2>1. i \in DOMAIN s /\ j - Len(s) \in DOMAIN t
    BY <1>1, <1>4
  <2>2. (s \o t)[i] = s[i]
    BY <2>1
  <2>3. (s \o t)[j] = t[j - Len(s)]
    BY <1>4
  <2>4. s[i] \in Range(s) /\ t[j - Len(s)] \in Range(t)
    BY <2>1 DEF Range
  <2>5. QED
    BY <2>2, <2>3, <2>4
<1>5. j <= Len(s) \/ i > Len(s) \/ (i <= Len(s) /\ j > Len(s))
  BY <1>a
<1>6. QED
  BY <1>2, <1>3, <1>4, <1>5

-----------------------------------------------------------------------------

USE LedgerAssumption

(* What the writer holds in each of its states.                            *)
WriterInv ==
  /\ writer = "stopped" => batch = <<>>
  /\ writer = "waiting" => Len(batch) < BatchSize /\ Range(batch) \cap db = {}
  /\ writer \in {"committing", "backoff"} => batch # <<>>
  /\ writer = "backoff" => attempt < MaxRetries

(* Batch and queue hold records in the order of the calls, everything that *)
(* left them is older than what the queue holds, and the writer's batch is *)
(* newer than what it settled, or already stored by an unanswered commit.  *)
OrderInv ==
  /\ Increasing(batch) /\ Increasing(queue)
  /\ \A r \in Range(batch), s \in Range(queue) : r < s
  /\ InHand \cup Settled \subseteq 1..accepted
  /\ \A r \in Settled, s \in Range(queue) : r < s
  /\ \A r \in fallback \cup unwritable \cup abandoned, s \in Range(batch) : r < s
  /\ shed \cap Range(batch) = {}
  /\ \/ Range(batch) \subseteq db \cap ambiguous
     \/ \A r \in db, s \in Range(batch) : r < s

IInv == TypeOK /\ WriterInv /\ OrderInv /\ NoSilentLoss /\ SettledOnce

LEMMA RangeEmpty == Range(<<>>) = {}
  BY DEF Range

LEMMA IncreasingEmpty == Increasing(<<>>)
  BY DEF Increasing

LEMMA InitIInv == Init => IInv
<1> SUFFICES ASSUME Init PROVE IInv
  OBVIOUS
<1>1. TypeOK
  <2>1. /\ queue \in Seq(Records) /\ Len(queue) <= QueueMax
        /\ batch \in Seq(Records) /\ Len(batch) <= BatchSize
    BY DEF Init
  <2>2. attempt \in 1..MaxRetries /\ accepted \in 0..MaxRecords /\ stops \in 0..MaxStops
    BY DEF Init
  <2>3. QED
    BY <2>1, <2>2 DEF Init, TypeOK, WriterStates, FlushCauses
<1>2. Range(queue) = {} /\ Range(batch) = {}
  BY RangeEmpty DEF Init
<1>3. WriterInv
  BY <1>2 DEF Init, WriterInv
<1>4. OrderInv
  BY <1>2, IncreasingEmpty DEF Init, OrderInv, InHand, Settled, GivenUp
<1>5. NoSilentLoss /\ SettledOnce
  BY <1>2 DEF Init, NoSilentLoss, SettledOnce, InHand, Settled, GivenUp
<1>6. QED
  BY <1>1, <1>3, <1>4, <1>5 DEF IInv

(* One round of get and drain moves the head of the queue to the batch:    *)
(* what is in hand and its order stay the same.                            *)
LEMMA ReceiveFacts ==
  ASSUME IInv, Receive
  PROVE  /\ queue' \in Seq(Records) /\ Len(queue') <= QueueMax
         /\ batch' \in Seq(Records) /\ Len(batch') = Len(batch) + Drained
         /\ Len(batch') \in 1..BatchSize /\ batch' # <<>>
         /\ Range(batch) \subseteq Range(batch')
         /\ Range(batch') \subseteq Range(batch) \cup Range(queue)
         /\ Range(queue') \subseteq Range(queue)
         /\ InHand' = InHand
         /\ Increasing(batch') /\ Increasing(queue')
         /\ \A r \in Range(batch'), s \in Range(queue') : r < s
<1> DEFINE front == SubSeq(queue, 1, Drained)
           back  == SubSeq(queue, Drained + 1, Len(queue))
<1>1. /\ queue \in Seq(Records) /\ batch \in Seq(Records)
      /\ Len(queue) <= QueueMax /\ Len(batch) < BatchSize
      /\ queue # <<>>
      /\ Increasing(queue) /\ Increasing(batch)
      /\ \A r \in Range(batch), s \in Range(queue) : r < s
  BY DEF IInv, TypeOK, WriterInv, OrderInv, Receive
<1>2. Drained \in 1..Len(queue) /\ Len(batch) + Drained <= BatchSize
  BY <1>1 DEF Drained
<1>3. batch' = batch \o front /\ queue' = back
  BY DEF Receive
<1>4. /\ front \in Seq(Records) /\ Len(front) = Drained
      /\ back \in Seq(Records) /\ Len(back) = Len(queue) - Drained
      /\ Range(queue) = Range(front) \cup Range(back)
  BY <1>1, <1>2, SplitFacts
<1>5. queue \in Seq(Nat) /\ batch \in Seq(Nat) /\ front \in Seq(Nat)
  <2>1. ASSUME NEW s \in Seq(Records) PROVE s \in Seq(Nat)
    BY DEF Records
  <2>2. QED
    BY <1>1, <1>4, <2>1
<1>6. /\ Increasing(front) /\ Increasing(back)
      /\ \A x \in Range(front), y \in Range(back) : x < y
  BY <1>1, <1>2, <1>5, IncreasingSplit
<1> HIDE DEF front, back
<1>7. Range(batch') = Range(batch) \cup Range(front)
  BY <1>1, <1>3, <1>4, RangeConcatenation
<1>8. Increasing(batch')
  BY <1>1, <1>3, <1>4, <1>5, <1>6, IncreasingConcat
<1>9. /\ batch' \in Seq(Records) /\ Len(batch') = Len(batch) + Drained
      /\ Len(batch') \in 1..BatchSize /\ batch' # <<>>
  <2>1. batch \o front \in Seq(Records) /\ Len(batch \o front) = Len(batch) + Len(front)
    BY <1>1, <1>4, ConcatProperties
  <2>2. Len(batch) \in Nat /\ Len(queue) \in Nat
    BY <1>1
  <2>3. Len(batch') \in 1..BatchSize
    BY <1>2, <1>3, <1>4, <2>1, <2>2
  <2>4. QED
    BY <1>3, <1>4, <2>1, <2>3
<1>10. /\ queue' \in Seq(Records) /\ Len(queue') <= QueueMax
  BY <1>1, <1>2, <1>3, <1>4
<1>11. InHand' = InHand
  BY <1>3, <1>4, <1>7 DEF InHand
<1>12. \A r \in Range(batch'), s \in Range(queue') : r < s
  BY <1>1, <1>3, <1>4, <1>6, <1>7
<1>13. QED
  BY <1>3, <1>4, <1>6, <1>7, <1>8, <1>9, <1>10, <1>11, <1>12

(* A record is accepted: it is newer than all there is, and a full queue   *)
(* gives up its head.                                                      *)
LEMMA RecordFacts ==
  ASSUME IInv, RecordExecution
  PROVE  /\ accepted' = accepted + 1 /\ accepted' \in Records
         /\ queue' \in Seq(Records) /\ Len(queue') <= QueueMax
         /\ Increasing(queue')
         /\ \E D \in SUBSET Range(queue) :
              /\ shed' = shed \cup D
              /\ Range(queue') = (Range(queue) \ D) \cup {accepted'}
              /\ \A r \in D, s \in Range(queue') : r < s
<1>1. /\ queue \in Seq(Records) /\ queue \in Seq(Nat) /\ Increasing(queue)
      /\ accepted \in Nat /\ Len(queue) <= QueueMax
      /\ \A r \in Range(queue) : r <= accepted
  BY DEF IInv, TypeOK, OrderInv, InHand, Records
<1>2. accepted' = accepted + 1 /\ accepted' \in Records /\ accepted' \in Nat
  BY <1>1 DEF RecordExecution, Records
<1>3. \A x \in Range(queue) : x \in Nat /\ x < accepted'
  <2>1. Range(queue) \subseteq Records
    BY <1>1 DEF Range
  <2>2. QED
    BY <1>1, <1>2, <2>1 DEF Records
<1>4. CASE Len(queue) < QueueMax /\ queue' = Append(queue, accepted') /\ UNCHANGED shed
  <2>1. Range(queue') = Range(queue) \cup {accepted'}
    BY <1>1, <1>2, <1>4, RangeAppend
  <2>2. Increasing(Append(queue, accepted'))
    BY <1>1, <1>2, <1>3, IncreasingAppend
  <2>3. queue' \in Seq(Records) /\ Len(queue') <= QueueMax
    BY <1>1, <1>2, <1>4
  <2>4. \E D \in SUBSET Range(queue) :
          /\ shed' = shed \cup D
          /\ Range(queue') = (Range(queue) \ D) \cup {accepted'}
          /\ \A r \in D, s \in Range(queue') : r < s
    <3>1. WITNESS {} \in SUBSET Range(queue)
    <3>2. QED
      BY <1>4, <2>1
  <2>5. QED
    BY <1>2, <1>4, <2>2, <2>3, <2>4
<1>5. CASE /\ Len(queue) = QueueMax
           /\ queue' = Append(Tail(queue), accepted')
           /\ shed' = shed \cup {Head(queue)}
  <2>1. queue # <<>>
    BY <1>1, <1>5
  <2>2. /\ Head(queue) \in Records
        /\ Tail(queue) \in Seq(Records) /\ Len(Tail(queue)) = Len(queue) - 1
        /\ Range(queue) = {Head(queue)} \cup Range(Tail(queue))
    BY <1>1, <2>1, HeadTail
  <2>3. /\ Increasing(Tail(queue)) /\ Tail(queue) \in Seq(Nat)
        /\ \A x \in Range(Tail(queue)) : Head(queue) < x
    BY <1>1, <2>1, <2>2, IncreasingTail DEF Records
  <2>4. Range(Append(Tail(queue), accepted')) = Range(Tail(queue)) \cup {accepted'}
    <3> DEFINE t == Tail(queue)
    <3>1. t \in Seq(Records) /\ accepted' \in Records
      BY <1>2, <2>2
    <3> HIDE DEF t
    <3>2. Range(Append(t, accepted')) = Range(t) \cup {accepted'}
      BY <3>1, RangeAppend
    <3>3. QED
      BY <3>2 DEF t
  <2>5. Increasing(Append(Tail(queue), accepted'))
    <3>1. \A x \in Range(Tail(queue)) : x < accepted'
      BY <1>3, <2>2
    <3>2. QED
      BY <1>2, <2>3, <3>1, IncreasingAppend
  <2>6. queue' \in Seq(Records) /\ Len(queue') <= QueueMax
    BY <1>2, <1>5, <2>2
  <2>7. Head(queue) \notin Range(Tail(queue)) /\ Head(queue) < accepted'
    <3>1. Head(queue) \in Range(queue)
      BY <2>2
    <3>2. Head(queue) \in Nat /\ ~(Head(queue) < Head(queue))
      BY <2>2 DEF Records
    <3>3. QED
      BY <1>3, <2>3, <3>1, <3>2
  <2>8. \E D \in SUBSET Range(queue) :
          /\ shed' = shed \cup D
          /\ Range(queue') = (Range(queue) \ D) \cup {accepted'}
          /\ \A r \in D, s \in Range(queue') : r < s
    <3>1. {Head(queue)} \in SUBSET Range(queue)
      BY <2>2
    <3>2. WITNESS {Head(queue)} \in SUBSET Range(queue)
    <3>3. QED
      BY <1>5, <2>2, <2>3, <2>4, <2>7
  <2>9. QED
    BY <1>2, <1>5, <2>5, <2>6, <2>8
<1>6. QED
  BY <1>4, <1>5 DEF RecordExecution
(* Whatever is in hand or settled is a number below accepted.              *)
LEMMA Numbers ==
  ASSUME IInv
  PROVE  /\ accepted \in Nat
         /\ Range(queue) \subseteq Records /\ Range(batch) \subseteq Records
         /\ Range(queue) \subseteq Nat /\ Range(batch) \subseteq Nat
         /\ Settled \subseteq Nat /\ db \cup GivenUp \subseteq Nat
         /\ \A r \in InHand \cup Settled : r <= accepted
<1>1. accepted \in 0..MaxRecords
  BY DEF IInv, TypeOK
<1>2. InHand \cup Settled \subseteq 1..accepted
  BY DEF IInv, OrderInv
<1>3. 1..accepted \subseteq Records /\ 1..accepted \subseteq Nat
  BY <1>1 DEF Records
<1>4. \A r \in 1..accepted : r <= accepted
  OBVIOUS
<1>5. QED
  BY <1>1, <1>2, <1>3, <1>4 DEF InHand, Settled

-----------------------------------------------------------------------------
(* What each action preserves. The batch is either kept or emptied.        *)
LEMMA RecordExecutionIInv ==
  ASSUME IInv, RecordExecution
  PROVE  IInv'
<1>1. /\ accepted' = accepted + 1 /\ accepted' \in Records
      /\ queue' \in Seq(Records) /\ Len(queue') <= QueueMax
      /\ Increasing(queue')
  BY RecordFacts
<1>2. PICK D \in SUBSET Range(queue) :
        /\ shed' = shed \cup D
        /\ Range(queue') = (Range(queue) \ D) \cup {accepted'}
        /\ \A r \in D, s \in Range(queue') : r < s
  BY RecordFacts
<1>3. UNCHANGED <<writer, batch, attempt, cause, stopping, stops, swallows,
                  db, batchEnds, fallback, unwritable, abandoned, ambiguous>>
  BY DEF RecordExecution
<1>4. /\ accepted \in Nat /\ Range(queue) \subseteq Nat /\ Range(batch) \subseteq Nat
      /\ Range(queue) \subseteq Records
      /\ db \cup GivenUp \subseteq Nat
  BY Numbers
<1>5. TypeOK'
  <2>1. accepted' \in 0..MaxRecords
    BY <1>1 DEF Records
  <2>2. shed' \in SUBSET Records
    BY <1>2, <1>4 DEF IInv, TypeOK
  <2>3. QED
    BY <1>1, <1>3, <2>1, <2>2 DEF IInv, TypeOK
<1>6. WriterInv'
  BY <1>3 DEF IInv, WriterInv
<1>7. OrderInv'
  <2>1. \A r \in InHand \cup Settled : r \in Nat /\ r < accepted'
    BY <1>1, <1>4 DEF IInv, OrderInv, InHand, Settled
  <2>2. InHand' \cup Settled' = InHand \cup Settled \cup {accepted'}
    BY <1>2, <1>3 DEF InHand, Settled, GivenUp
  <2>3. (InHand \cup Settled \subseteq 1..accepted)'
    BY <1>1, <1>4, <2>1, <2>2 DEF IInv, OrderInv
  <2>4. \A r \in Range(batch), s \in Range(queue') : r < s
    BY <1>2, <2>1 DEF IInv, OrderInv, InHand
  <2>5. \A r \in Settled', s \in Range(queue') : r < s
    BY <1>2, <1>3, <2>1 DEF IInv, OrderInv, Settled, GivenUp
  <2>6. shed' \cap Range(batch) = {}
    <3>1. \A r \in Range(batch), s \in D : r < s /\ s \in Nat
      BY <1>4 DEF IInv, OrderInv
    <3>2. QED
      BY <1>2, <1>4, <3>1 DEF IInv, OrderInv
  <2>7. QED
    BY <1>1, <1>3, <2>3, <2>4, <2>5, <2>6 DEF IInv, OrderInv
<1>8. NoSilentLoss'
  BY <1>1, <1>2, <1>3, <1>4 DEF IInv, NoSilentLoss, InHand, Settled, GivenUp
<1>9. SettledOnce'
  <2>1. \A r \in D : r \in Nat /\ \A s \in Settled : s < r
    BY <1>4 DEF IInv, OrderInv
  <2>2. \A s \in Settled : s \in Nat /\ s < accepted'
    BY <1>1, <1>4 DEF IInv, OrderInv, Settled
  <2>3. D \cap Settled = {} /\ accepted' \notin Settled
    BY <1>4, <2>1, <2>2 DEF Settled
  <2>4. QED
    BY <1>2, <1>3, <2>3 DEF IInv, SettledOnce, Settled, GivenUp
<1>10. QED
  BY <1>5, <1>6, <1>7, <1>8, <1>9 DEF IInv

(* A receive moves records from the queue to the batch, whoever asks for it*)
LEMMA ReceiveIInv ==
  ASSUME IInv, Receive, stopping' \in BOOLEAN, stops' \in 0..MaxStops,
         UNCHANGED <<accepted, swallows, sinks>>
  PROVE  IInv'
<1>1. /\ queue' \in Seq(Records) /\ Len(queue') <= QueueMax
      /\ batch' \in Seq(Records) /\ Len(batch') = Len(batch) + Drained
      /\ Len(batch') \in 1..BatchSize /\ batch' # <<>>
      /\ Range(batch) \subseteq Range(batch')
      /\ Range(batch') \subseteq Range(batch) \cup Range(queue)
      /\ Range(queue') \subseteq Range(queue)
      /\ InHand' = InHand
      /\ Increasing(batch') /\ Increasing(queue')
      /\ \A r \in Range(batch'), s \in Range(queue') : r < s
  BY ReceiveFacts
<1>2. UNCHANGED <<accepted, swallows, db, batchEnds, fallback, shed, unwritable, abandoned,
                  ambiguous>>
  BY DEF sinks
<1>3. /\ Range(queue) \subseteq Nat /\ Range(batch) \subseteq Nat
      /\ Settled \subseteq Nat
  BY Numbers
<1>4. writer = "waiting" /\ Len(batch) < BatchSize /\ Range(batch) \cap db = {}
  BY DEF Receive, IInv, WriterInv
<1>5. \/ writer' = "committing" /\ attempt' = 1 /\ cause' = "full"
      \/ UNCHANGED <<writer, attempt, cause>> /\ Len(batch') # BatchSize
  BY <1>1 DEF Receive, BeginFlush
<1>6. TypeOK'
  BY <1>1, <1>2, <1>5 DEF IInv, TypeOK, WriterStates, FlushCauses
<1>7. \A r \in Settled : r \notin Range(queue)
  BY <1>3 DEF IInv, OrderInv
<1>8. WriterInv'
  <2>1. Range(batch') \cap db' = {}
    BY <1>1, <1>2, <1>4, <1>7 DEF Settled
  <2>2. writer' = "waiting" => Len(batch') < BatchSize
    BY <1>1, <1>5
  <2>3. QED
    BY <1>1, <1>4, <1>5, <2>1, <2>2 DEF WriterInv
<1>9. OrderInv'
  <2>1. Settled' = Settled
    BY <1>2 DEF Settled, GivenUp
  <2>2. \A r \in fallback \cup unwritable \cup abandoned, s \in Range(batch') : r < s
    BY <1>1 DEF IInv, OrderInv, Settled, GivenUp
  <2>3. shed \cap Range(batch') = {}
    BY <1>1, <1>7 DEF IInv, OrderInv, Settled, GivenUp
  <2>4. \A r \in db, s \in Range(batch) : r < s
    BY <1>4 DEF IInv, OrderInv
  <2>5. \A r \in db, s \in Range(batch') : r < s
    BY <1>1, <2>4 DEF IInv, OrderInv, Settled
  <2>6. \A r \in Settled, s \in Range(queue') : r < s
    BY <1>1 DEF IInv, OrderInv
  <2>7. InHand' \cup Settled' \subseteq 1..accepted'
    BY <1>1, <1>2, <2>1 DEF IInv, OrderInv
  <2>8. QED
    BY <1>1, <1>2, <2>1, <2>2, <2>3, <2>5, <2>6, <2>7 DEF OrderInv
<1>10. NoSilentLoss'
  BY <1>1, <1>2 DEF IInv, NoSilentLoss, Settled, GivenUp
<1>11. SettledOnce'
  BY <1>1, <1>2 DEF IInv, SettledOnce, GivenUp
<1>12. QED
  BY <1>6, <1>8, <1>9, <1>10, <1>11 DEF IInv

(* What a commit stores: the batch, behind its last record.                *)
LEMMA StoreFacts ==
  ASSUME IInv, writer = "committing", StoreBatch
  PROVE  /\ Range(batch) \cap db = {}
         /\ db' = db \cup Range(batch)
         /\ batchEnds' = batchEnds \cup {batch[Len(batch)]}
         /\ batch # <<>> /\ batch[Len(batch)] \in Range(batch)
         /\ db' \in SUBSET Records /\ batchEnds' \in SUBSET Records
<1>1. /\ Range(batch) \cap db = {}
      /\ db' = db \cup Range(batch)
      /\ batchEnds' = batchEnds \cup {batch[Len(batch)]}
  BY DEF StoreBatch
<1>2. batch # <<>> /\ batch \in Seq(Records)
  BY DEF IInv, WriterInv, TypeOK
<1>3. batch[Len(batch)] \in Range(batch)
  BY <1>2 DEF Range
<1>4. Range(batch) \subseteq Records
  BY Numbers
<1>5. db \in SUBSET Records /\ batchEnds \in SUBSET Records
  BY DEF IInv, TypeOK
<1>6. QED
  BY <1>1, <1>2, <1>3, <1>4, <1>5

(* What the steps that end or continue a flush have in common: the queue   *)
(* stays, the batch stays or is emptied, its records may become stored or  *)
(* given up, and whatever leaves the batch does become one of the two.     *)
FlushStep ==
  /\ UNCHANGED <<accepted, queue, shed>>
  /\ batch' \in {batch, <<>>}
  /\ \/ UNCHANGED <<db, batchEnds, ambiguous>>
     \/ /\ writer = "committing" /\ StoreBatch
        /\ ambiguous' = ambiguous \cup Range(batch)
     \/ /\ writer = "committing" /\ StoreBatch
        /\ UNCHANGED <<ambiguous, fallback, unwritable, abandoned>>
        /\ batch' = <<>>
  /\ \/ UNCHANGED <<fallback, unwritable, abandoned>>
     \/ /\ WriteToFallbackLog
        /\ UNCHANGED abandoned
        /\ batch' = <<>>
     \/ /\ abandoned' = abandoned \cup (Range(batch) \ db')
        /\ UNCHANGED <<fallback, unwritable>>
        /\ batch' = <<>>
  /\ batch' = <<>> =>
       Range(batch) \subseteq db' \cup fallback' \cup unwritable' \cup abandoned'

(* What it does to the database and the other places.                      *)
LEMMA FlushSinks ==
  ASSUME IInv, FlushStep
  PROVE  /\ \/ UNCHANGED <<db, ambiguous>>
            \/ /\ db' = db \cup Range(batch) /\ Range(batch) \cap db = {}
               /\ ambiguous' = ambiguous \cup Range(batch)
            \/ /\ db' = db \cup Range(batch) /\ Range(batch) \cap db = {}
               /\ UNCHANGED <<ambiguous, fallback, unwritable, abandoned>>
               /\ batch' = <<>>
         /\ GivenUp \subseteq GivenUp' /\ GivenUp' \subseteq GivenUp \cup Range(batch)
<1>1. GivenUp \subseteq GivenUp' /\ GivenUp' \subseteq GivenUp \cup Range(batch)
  <2>1. /\ \/ UNCHANGED <<fallback, unwritable, abandoned>>
           \/ WriteToFallbackLog /\ UNCHANGED abandoned
           \/ /\ abandoned' = abandoned \cup (Range(batch) \ db')
              /\ UNCHANGED <<fallback, unwritable>>
        /\ UNCHANGED shed
    BY DEF FlushStep
  <2>2. QED
    BY <2>1 DEF GivenUp, WriteToFallbackLog
<1>2. CASE writer = "committing" /\ StoreBatch
  <2>1. db' = db \cup Range(batch) /\ Range(batch) \cap db = {}
    BY <1>2, StoreFacts
  <2>2. \/ ambiguous' = ambiguous \cup Range(batch)
        \/ UNCHANGED <<db, ambiguous>>
        \/ UNCHANGED <<ambiguous, fallback, unwritable, abandoned>> /\ batch' = <<>>
    BY DEF FlushStep
  <2>3. QED
    BY <1>1, <2>1, <2>2
<1>3. CASE UNCHANGED <<db, batchEnds, ambiguous>>
  BY <1>1, <1>3
<1>4. QED
  BY <1>2, <1>3 DEF FlushStep

LEMMA FlushStepIInv ==
  ASSUME IInv, FlushStep
  PROVE  OrderInv' /\ NoSilentLoss' /\ SettledOnce'
<1>1. /\ Range(queue) \subseteq Nat /\ Range(batch) \subseteq Nat
      /\ Settled \subseteq Nat
  BY Numbers
<1>2. /\ Range(batch') \subseteq Range(batch)
      /\ batch' = batch \/ Range(batch') = {}
      /\ Increasing(batch')
  BY RangeEmpty, IncreasingEmpty DEF IInv, OrderInv, FlushStep
<1>3. /\ db \subseteq db' /\ db' \subseteq db \cup Range(batch)
      /\ GivenUp \subseteq GivenUp' /\ GivenUp' \subseteq GivenUp \cup Range(batch)
  BY FlushSinks
<1>4. /\ Settled \subseteq Settled' /\ Settled' \subseteq Settled \cup Range(batch)
      /\ InHand' \subseteq InHand
  BY <1>2, <1>3 DEF Settled, InHand, FlushStep
<1>5. OrderInv'
  <2>1. (InHand \cup Settled \subseteq 1..accepted)'
    BY <1>4 DEF IInv, OrderInv, InHand, FlushStep
  <2>2. \A r \in Settled', s \in Range(queue') : r < s
    BY <1>4 DEF IInv, OrderInv, FlushStep
  <2>3. \A r \in (fallback \cup unwritable \cup abandoned)', s \in Range(batch') : r < s
    BY <1>2, RangeEmpty DEF IInv, OrderInv, FlushStep, WriteToFallbackLog
  <2>4. \/ Range(batch') \subseteq db' \cap ambiguous'
        \/ \A r \in db', s \in Range(batch') : r < s
    BY <1>2, RangeEmpty, FlushSinks DEF IInv, OrderInv
  <2>5. QED
    BY <1>2, <2>1, <2>2, <2>3, <2>4 DEF IInv, OrderInv, FlushStep
<1>6. NoSilentLoss'
  <2>1. Range(batch) \subseteq Range(batch') \cup Settled'
    BY <1>2 DEF FlushStep, Settled, GivenUp
  <2>2. InHand \subseteq InHand' \cup Settled'
    BY <2>1 DEF InHand, FlushStep
  <2>3. QED
    BY <1>4, <2>2 DEF IInv, NoSilentLoss, FlushStep
<1>7. SettledOnce'
  <2>1. Range(batch) \cap (Range(queue) \cup shed \cup GivenUp) = {}
    BY <1>1 DEF IInv, OrderInv, Settled, GivenUp
  <2>2. Range(batch) \cap db = {} \/ Range(batch) \subseteq db \cap ambiguous
    BY <1>1 DEF IInv, OrderInv, Settled
  <2>3. \/ UNCHANGED <<fallback, unwritable, abandoned>>
        \/ WriteToFallbackLog /\ UNCHANGED abandoned /\ batch' = <<>>
        \/ /\ abandoned' = abandoned \cup (Range(batch) \ db')
           /\ UNCHANGED <<fallback, unwritable>> /\ batch' = <<>>
    BY DEF FlushStep
  <2>4. UNCHANGED <<queue, shed>>
    BY DEF FlushStep
  <2>5. QED
    BY <2>1, <2>2, <2>3, <2>4, FlushSinks DEF IInv, SettledOnce, WriteToFallbackLog, GivenUp
<1>8. QED
  BY <1>5, <1>6, <1>7

(* What a failed attempt does: back off, or settle the batch and return.   *)
LEMMA AttemptFacts ==
  ASSUME IInv, AttemptFails
  PROVE  /\ \/ UNCHANGED <<batch, attempt, cause, stopping, fallback, unwritable>>
               /\ writer' = "backoff" /\ attempt < MaxRetries
            \/ /\ WriteToFallbackLog
               /\ batch' = <<>> /\ attempt' = 1 /\ UNCHANGED cause
               /\ stopping' \in BOOLEAN
               /\ writer' \in {"stopped", "waiting"}
         /\ fallback' \in SUBSET Records /\ unwritable' \in SUBSET Records
<1>1. Range(batch) \subseteq Records
  BY Numbers
<1>2. stopping \in BOOLEAN /\ attempt \in 1..MaxRetries
      /\ fallback \in SUBSET Records /\ unwritable \in SUBSET Records
  BY DEF IInv, TypeOK
<1>3. QED
  BY <1>1, <1>2 DEF AttemptFails, FlushReturns, WriterEnds, WriteToFallbackLog

(* Every step accepts a record, receives, or is a flush step.              *)
LEMMA StepKinds ==
  ASSUME IInv, Next
  PROVE  \/ RecordExecution
         \/ TakeRecords
         \/ StopSwallowed
         \/ FlushStep
<1>1. CASE Start
  BY <1>1, RangeEmpty DEF Start, FlushStep, IInv, WriterInv, sinks
<1>2. CASE FlushInterval
  BY <1>2 DEF FlushInterval, FlushStep, IInv, WriterInv, sinks
<1>3. CASE BackoffEnds
  BY <1>3 DEF BackoffEnds, FlushStep, IInv, WriterInv, sinks
<1>4. CASE CommitSucceeds
  <2>1. /\ writer = "committing" /\ StoreBatch /\ batch' = <<>>
        /\ UNCHANGED <<accepted, queue, fallback, shed, unwritable, abandoned, ambiguous>>
    BY <1>4 DEF CommitSucceeds, FlushReturns, WriterEnds
  <2>2. Range(batch) \subseteq db'
    BY <2>1 DEF StoreBatch
  <2>3. QED
    BY <2>1, <2>2 DEF FlushStep
<1>5. CASE CommitFails
  <2>1. batch # <<>> /\ AttemptFails
        /\ UNCHANGED <<accepted, queue, db, batchEnds, shed, abandoned, ambiguous>>
    BY <1>5 DEF CommitFails, IInv, WriterInv
  <2>2. QED
    BY <2>1, AttemptFacts DEF FlushStep, WriteToFallbackLog
<1>6. CASE CommitAnswerLost
  <2>1. batch # <<>> /\ AttemptFails
        /\ writer = "committing" /\ StoreBatch
        /\ ambiguous' = ambiguous \cup Range(batch)
        /\ UNCHANGED <<accepted, queue, shed, abandoned>>
    BY <1>6 DEF CommitAnswerLost, IInv, WriterInv
  <2>2. QED
    BY <2>1, AttemptFacts DEF FlushStep, WriteToFallbackLog
<1>7. CASE StopInTry
  <2>1. UNCHANGED <<accepted, queue, fallback, shed, unwritable, abandoned>> /\ CommitInFlight
    BY <1>7 DEF StopInTry
  <2>2. batch' = batch
    BY <1>7 DEF StopInTry, WriterEnds
  <2>3. QED
    BY <2>1, <2>2, RangeEmpty DEF FlushStep, CommitInFlight
<1>8. CASE StopInHandler
  <2>1. /\ UNCHANGED <<accepted, queue, fallback, shed, unwritable>>
        /\ CommitInFlight
        /\ abandoned' = abandoned \cup (Range(batch) \ db')
        /\ batch' = <<>>
    BY <1>8 DEF StopInHandler, WriterEnds
  <2>2. QED
    BY <2>1 DEF FlushStep, CommitInFlight
<1>9. QED
  BY <1>1, <1>2, <1>3, <1>4, <1>5, <1>6, <1>7, <1>8 DEF Next

LEMMA NextIInv == IInv /\ [Next]_vars => IInv'
<1> SUFFICES ASSUME IInv, [Next]_vars PROVE IInv'
  OBVIOUS
<1>1. Range(batch) \subseteq Records
  BY Numbers
<1>2. /\ <<>> \in Seq(Records) /\ Len(<<>>) <= BatchSize /\ Len(<<>>) < BatchSize
      /\ 1 \in 1..MaxRetries
  OBVIOUS
<1>3. CASE RecordExecution
  BY <1>3, RecordExecutionIInv
<1>4. CASE TakeRecords
  BY <1>4, ReceiveIInv DEF TakeRecords, IInv, TypeOK
<1>5. CASE StopSwallowed
  <2>1. stops' \in 0..MaxStops
    BY <1>5 DEF StopSwallowed, Stop, IInv, TypeOK
  <2>2. QED
    BY <1>5, <2>1, ReceiveIInv DEF StopSwallowed
<1>6. ASSUME Next, ~RecordExecution, ~TakeRecords, ~StopSwallowed, TypeOK', WriterInv'
      PROVE  IInv'
  BY <1>6, StepKinds, FlushStepIInv DEF IInv
<1>7. CASE Start
  <2>1. TypeOK'
    BY <1>2, <1>7 DEF Start, IInv, TypeOK, WriterStates, sinks
  <2>2. WriterInv'
    BY <1>2, <1>7, RangeEmpty DEF Start, WriterInv
  <2>3. QED
    BY <1>3, <1>4, <1>5, <1>6, <1>7, <2>1, <2>2 DEF Next
<1>8. CASE FlushInterval
  <2>1. TypeOK'
    BY <1>2, <1>8 DEF FlushInterval, BeginFlush, IInv, TypeOK, WriterStates, FlushCauses, sinks
  <2>2. WriterInv'
    BY <1>8 DEF FlushInterval, BeginFlush, WriterInv
  <2>3. QED
    BY <1>3, <1>4, <1>5, <1>6, <1>8, <2>1, <2>2 DEF Next
<1>9. CASE BackoffEnds
  <2>1. attempt' \in 1..MaxRetries
    BY <1>9 DEF BackoffEnds, IInv, TypeOK, WriterInv
  <2>2. TypeOK'
    BY <1>9, <2>1 DEF BackoffEnds, IInv, TypeOK, WriterStates, sinks
  <2>3. WriterInv'
    BY <1>9 DEF BackoffEnds, IInv, WriterInv
  <2>4. QED
    BY <1>3, <1>4, <1>5, <1>6, <1>9, <2>2, <2>3 DEF Next
<1>10. CASE CommitSucceeds
  <2>1. TypeOK'
    BY <1>1, <1>2, <1>10, StoreFacts DEF CommitSucceeds, FlushReturns, WriterEnds, IInv, TypeOK, WriterStates
  <2>2. WriterInv'
    BY <1>2, <1>10, RangeEmpty DEF CommitSucceeds, FlushReturns, WriterEnds, WriterInv
  <2>3. QED
    BY <1>3, <1>4, <1>5, <1>6, <1>10, <2>1, <2>2 DEF Next
<1>11. CASE CommitFails
  <2>1. writer = "committing" /\ batch # <<>> /\ AttemptFails
        /\ UNCHANGED <<accepted, queue, stops, swallows, db, batchEnds, shed, abandoned,
                       ambiguous>>
    BY <1>11 DEF CommitFails, IInv, WriterInv
  <2>2. TypeOK'
    BY <1>2, <2>1, AttemptFacts DEF IInv, TypeOK, WriterStates
  <2>3. WriterInv'
    BY <1>2, <2>1, AttemptFacts, RangeEmpty DEF WriterInv
  <2>4. QED
    BY <1>3, <1>4, <1>5, <1>6, <1>11, <2>2, <2>3 DEF Next
<1>12. CASE CommitAnswerLost
  <2>1. writer = "committing" /\ batch # <<>> /\ AttemptFails
        /\ StoreBatch /\ ambiguous' = ambiguous \cup Range(batch)
        /\ UNCHANGED <<accepted, queue, stops, swallows, shed, abandoned>>
    BY <1>12 DEF CommitAnswerLost, IInv, WriterInv
  <2>2. TypeOK'
    BY <1>1, <1>2, <2>1, AttemptFacts, StoreFacts DEF IInv, TypeOK, WriterStates
  <2>3. WriterInv'
    BY <1>2, <2>1, AttemptFacts, RangeEmpty DEF WriterInv
  <2>4. QED
    BY <1>3, <1>4, <1>5, <1>6, <1>12, <2>2, <2>3 DEF Next
<1>13. CASE StopInTry
  <2>1. /\ UNCHANGED <<accepted, queue, swallows, fallback, shed, unwritable, abandoned>>
        /\ CommitInFlight /\ stops' \in 0..MaxStops
    BY <1>13 DEF StopInTry, Stop, IInv, TypeOK
  <2>2. \/ /\ batch = <<>> /\ batch' = <<>> /\ writer' = "stopped"
           /\ attempt' = 1 /\ stopping' = FALSE /\ cause' = cause
        \/ /\ batch # <<>> /\ batch' = batch /\ writer' = "committing"
           /\ attempt' = 1 /\ stopping' = TRUE /\ cause' = "cancel"
    BY <1>13 DEF StopInTry, WriterEnds, BeginFlush
  <2>3. TypeOK'
    BY <1>1, <1>2, <2>1, <2>2, StoreFacts DEF IInv, TypeOK, WriterStates, FlushCauses, CommitInFlight
  <2>4. WriterInv'
    BY <2>2 DEF WriterInv
  <2>5. QED
    BY <1>3, <1>4, <1>5, <1>6, <1>13, <2>3, <2>4 DEF Next
<1>14. CASE StopInHandler
  <2>1. /\ UNCHANGED <<accepted, queue, swallows, fallback, shed, unwritable>>
        /\ CommitInFlight /\ stops' \in 0..MaxStops
        /\ abandoned' = abandoned \cup (Range(batch) \ db')
        /\ batch' = <<>> /\ writer' = "stopped"
        /\ attempt' = 1 /\ stopping' = FALSE /\ cause' = cause
    BY <1>14 DEF StopInHandler, Stop, WriterEnds, IInv, TypeOK
  <2>2. TypeOK'
    BY <1>1, <1>2, <2>1, StoreFacts
       DEF IInv, TypeOK, WriterStates, FlushCauses, CommitInFlight
  <2>3. WriterInv'
    BY <2>1 DEF WriterInv
  <2>4. QED
    BY <1>3, <1>4, <1>5, <1>6, <1>14, <2>2, <2>3 DEF Next
<1>15. CASE UNCHANGED vars
  BY <1>15 DEF vars, sinks, IInv, TypeOK, WriterInv, OrderInv, NoSilentLoss,
               SettledOnce, InHand, Settled, GivenUp
<1>16. QED
  BY <1>3, <1>4, <1>5, <1>7, <1>8, <1>9, <1>10, <1>11, <1>12, <1>13, <1>14,
     <1>15 DEF Next

-----------------------------------------------------------------------------
LEMMA Invariance == Spec => []IInv
  BY InitIInv, NextIInv, PTL DEF Spec

(* The types of the ledger's state, for every size of queue and batch.     *)
THEOREM LedgerTypeOK == Spec => []TypeOK
<1>1. IInv => TypeOK
  BY DEF IInv
<1>2. QED
  BY <1>1, Invariance, PTL

(* No accepted record disappears without the code reporting it.            *)
THEOREM LedgerNoSilentLoss == Spec => []NoSilentLoss
<1>1. IInv => NoSilentLoss
  BY DEF IInv
<1>2. QED
  BY <1>1, Invariance, PTL

(* A record has one fate, but for commits whose answer was lost.           *)
THEOREM LedgerSettledOnce == Spec => []SettledOnce
<1>1. IInv => SettledOnce
  BY DEF IInv
<1>2. QED
  BY <1>1, Invariance, PTL

-----------------------------------------------------------------------------
(* The ledger implements AuditLog: every step accepts, stores or gives up  *)
(* records as the promise allows, or changes nothing the promise speaks of.*)
LEMMA InitRefines == Init => Promise!Init
  BY RangeEmpty DEF Init, Promise!Init, InHand, GivenUp

LEMMA FlushStepRefines ==
  ASSUME IInv, FlushStep
  PROVE  Promise!Store \/ Promise!GiveUp \/ UNCHANGED Promise!logVars
<1> DEFINE B == Range(batch)
<1>1. /\ B \subseteq Nat /\ Range(queue) \subseteq Nat /\ Settled \subseteq Nat
  BY Numbers
<1>2. B \cap (Range(queue) \cup GivenUp) = {}
  BY <1>1 DEF IInv, OrderInv, Settled, GivenUp
<1>3. accepted' = accepted /\ queue' = queue
  BY DEF FlushStep
<1>4. InHand' = InHand \/ InHand' = InHand \ B
  BY <1>2, RangeEmpty DEF FlushStep, InHand
<1>5. GivenUp \subseteq GivenUp' /\ GivenUp' \subseteq GivenUp \cup B
  BY DEF FlushStep, GivenUp, WriteToFallbackLog
<1>6. B \in SUBSET InHand
  BY DEF InHand
<1>7. CASE db' = db \cup B /\ B \cap db = {}
  <2>1. \A r \in B, s \in db : s < r
    BY <1>7 DEF IInv, OrderInv
  <2>2. GivenUp' \ db' = GivenUp \ db
    BY <1>2, <1>5, <1>7
  <2>3. QED
    BY <1>3, <1>4, <1>6, <1>7, <2>1, <2>2 DEF Promise!Store, Promise!InOrder
<1>8. CASE db' = db /\ batch' = batch /\ UNCHANGED <<fallback, unwritable, abandoned>>
  <2>1. InHand' = InHand /\ GivenUp' \ db' = GivenUp \ db
    BY <1>3, <1>8 DEF InHand, GivenUp, FlushStep
  <2>2. QED
    BY <1>3, <1>8, <2>1 DEF Promise!logVars
<1>9. CASE db' = db /\ batch' = <<>>
  <2>1. InHand' = InHand \ B
    BY <1>2, <1>3, <1>9, RangeEmpty DEF InHand
  <2>2. B \subseteq db' \cup GivenUp'
    BY <1>9 DEF FlushStep, GivenUp
  <2>3. GivenUp' \ db' = (GivenUp \ db) \cup (B \ db)
    BY <1>5, <1>9, <2>2
  <2>4. QED
    BY <1>3, <1>6, <1>9, <2>1, <2>3 DEF Promise!GiveUp
<1>10. QED
  BY <1>7, <1>8, <1>9, FlushSinks DEF FlushStep

LEMMA RecordRefines ==
  ASSUME IInv, RecordExecution
  PROVE  Promise!Accept
<1>1. accepted' = accepted + 1 /\ accepted' \in Records
  BY RecordFacts
<1>2. PICK D \in SUBSET Range(queue) :
        /\ shed' = shed \cup D
        /\ Range(queue') = (Range(queue) \ D) \cup {accepted'}
        /\ \A r \in D, s \in Range(queue') : r < s
  BY RecordFacts
<1>3. UNCHANGED <<batch, db, fallback, unwritable, abandoned>>
  BY DEF RecordExecution
<1>4. accepted < MaxRecords
  BY DEF RecordExecution
<1>5. D \cap (Range(batch) \cup db) = {}
  BY Numbers, <1>2 DEF IInv, OrderInv, Settled
<1>6. InHand' = (InHand \ D) \cup {accepted'}
  BY <1>2, <1>3, <1>5 DEF InHand
<1>7. GivenUp' \ db' = (GivenUp \ db) \cup D
  BY <1>2, <1>3, <1>5 DEF GivenUp
<1>8. D \in SUBSET InHand
  BY DEF InHand
<1>9. QED
  BY <1>1, <1>3, <1>4, <1>6, <1>7, <1>8 DEF Promise!Accept

LEMMA NextRefines ==
  ASSUME IInv, [Next]_vars
  PROVE  [Promise!Next]_(Promise!logVars)
<1>1. CASE RecordExecution
  BY <1>1, RecordRefines DEF Promise!Next
<1>2. CASE TakeRecords \/ StopSwallowed
  <2>1. Receive /\ UNCHANGED <<accepted, sinks>>
    BY <1>2 DEF TakeRecords, StopSwallowed
  <2>2. InHand' = InHand
    BY <2>1, ReceiveFacts
  <2>3. accepted' = accepted /\ db' = db /\ GivenUp' = GivenUp
    BY <2>1 DEF sinks, GivenUp
  <2>4. QED
    BY <2>2, <2>3 DEF Promise!logVars
<1>3. CASE FlushStep
  BY <1>3, FlushStepRefines DEF Promise!Next
<1>4. CASE UNCHANGED vars
  <2>1. InHand' = InHand /\ GivenUp' = GivenUp /\ db' = db /\ accepted' = accepted
    BY <1>4 DEF vars, sinks, InHand, GivenUp
  <2>2. QED
    BY <2>1 DEF Promise!logVars
<1>5. QED
  BY <1>1, <1>2, <1>3, <1>4, StepKinds

(* What the ledger promises holds for every size of queue and batch and    *)
(* every number of retries: in order, and nothing just vanishes.           *)
THEOREM LedgerImplementsAuditLog == Spec => ImplementsAuditLog
<1>1. IInv /\ [Next]_vars => [Promise!Next]_(Promise!logVars)
  BY NextRefines
<1>2. QED
  BY <1>1, Invariance, InitRefines, PTL DEF Spec, Promise!Spec, ImplementsAuditLog

-----------------------------------------------------------------------------
(* The ledger implements LedgerView: the modules that are composed over it *)
(* see what the writer can really show them.                               *)
LEMMA ViewInit == Init => View!LedgerInit
<1> SUFFICES ASSUME Init PROVE View!LedgerInit
  OBVIOUS
<1>1. accepted = 0 /\ db = {} /\ batchEnds = {}
  BY DEF Init
<1>2. [r \in 1..accepted |-> r] = <<>>
  BY <1>1
<1>3. [r \in Records |-> IF r \in db THEN 1 ELSE 0] = [r \in 1..MaxRecords |-> 0]
  BY <1>1 DEF Records
<1>4. QED
  BY <1>1, <1>2, <1>3 DEF View!LedgerInit

(* What the view calls stored is what is in the database.                  *)
LEMMA ViewStored ==
  ASSUME IInv
  PROVE  View!accepted = accepted /\ View!stored = db
<1>1. accepted \in 0..MaxRecords /\ db \subseteq 1..accepted
  BY DEF IInv, TypeOK, OrderInv, Settled
<1>2. View!accepted = accepted
  BY <1>1 DEF View!accepted
<1>3. 1..accepted \subseteq Records
  BY <1>1 DEF Records
<1>4. View!stored = {r \in 1..accepted : r \in db}
  BY <1>2, <1>3 DEF View!stored
<1>5. QED
  BY <1>1, <1>2, <1>4

LEMMA ViewRecord ==
  ASSUME IInv, RecordExecution
  PROVE  View!LedgerNext(Records, {1})
<1>1. accepted \in Nat /\ accepted' = accepted + 1 /\ accepted' \in Records
  BY RecordFacts, Numbers
<1>2. accepted < MaxRecords /\ UNCHANGED <<db, batchEnds>>
  BY DEF RecordExecution
<1>3. [r \in 1..accepted' |-> r] = Append([r \in 1..accepted |-> r], accepted')
  BY <1>1
<1>4. ASSUME NEW record \in Records, record = accepted'
      PROVE  View!RecordExecution(record)
  BY <1>2, <1>3, <1>4, ViewStored DEF View!RecordExecution
<1>5. \E record \in Records : record = accepted'
  BY <1>1
<1>6. \E record \in Records : View!RecordExecution(record)
  BY <1>4, <1>5, Zenon
<1>7. QED
  BY <1>6 DEF View!LedgerNext

(* A batch that is committed is newer than all that is stored, and its     *)
(* last record is the newest of it.                                        *)
LEMMA ViewStore ==
  ASSUME IInv, writer = "committing", StoreBatch, accepted' = accepted
  PROVE  View!LedgerNext(Records, {1})
<1> DEFINE B == Range(batch)
           last == batch[Len(batch)]
<1>1. /\ B \cap db = {} /\ db' = db \cup B
      /\ batchEnds' = batchEnds \cup {last}
  BY DEF StoreBatch
<1>2. batch \in Seq(Records) /\ batch # <<>> /\ Increasing(batch)
  BY DEF IInv, TypeOK, WriterInv, OrderInv
<1>3. /\ accepted \in Nat /\ B \subseteq 1..accepted /\ B \subseteq Records
  BY Numbers DEF IInv, OrderInv, InHand
<1>4. Len(batch) \in 1..Len(batch) /\ last \in B
  BY <1>2 DEF Range
<1>5. \A r \in db, s \in B : r < s
  BY <1>1, <1>4 DEF IInv, OrderInv
<1>6. B \in SUBSET View!Storable /\ B # {}
  BY <1>3, <1>4, <1>5, ViewStored DEF View!Storable
<1>7. \A s \in B : s <= last
  <2>1. SUFFICES ASSUME NEW i \in 1..Len(batch) PROVE batch[i] <= last
    BY DEF Range
  <2>2. batch[i] \in Nat /\ Len(batch) \in Nat
    BY <1>2 DEF Records
  <2>3. CASE i = Len(batch)
    BY <2>2, <2>3
  <2>4. CASE i < Len(batch)
    <3>1. batch[i] < last
      BY <1>2, <1>4, <2>4 DEF Increasing
    <3>2. last \in Nat
      BY <1>3, <1>4
    <3>3. QED
      BY <2>2, <3>1, <3>2
  <2>5. QED
    BY <2>2, <2>3, <2>4
<1>8. {last} = {r \in B : \A s \in B : s <= r}
  BY <1>3, <1>4, <1>7
<1> HIDE DEF B, last
<1>9. [r \in Records |-> IF r \in db' THEN 1 ELSE 0]
        = [r \in 1..MaxRecords |->
             IF r \in B THEN 1
             ELSE [x \in Records |-> IF x \in db THEN 1 ELSE 0][r]]
  BY <1>1 DEF Records
<1>10. View!StoreBatch(1)
  BY <1>1, <1>6, <1>8, <1>9 DEF View!StoreBatch
<1>11. QED
  BY <1>10 DEF View!LedgerNext

LEMMA ViewNext ==
  ASSUME IInv, [Next]_vars
  PROVE  [View!LedgerNext(Records, {1})]_(View!ledgerVars)
<1>1. CASE UNCHANGED <<accepted, db, batchEnds>>
  BY <1>1 DEF View!ledgerVars
<1>2. CASE RecordExecution
  BY <1>2, ViewRecord
<1>3. CASE TakeRecords \/ StopSwallowed \/ UNCHANGED vars
  BY <1>1, <1>3 DEF TakeRecords, StopSwallowed, vars, sinks
<1>4. CASE FlushStep
  BY <1>1, <1>4, ViewStore DEF FlushStep
<1>5. QED
  BY <1>2, <1>3, <1>4, StepKinds

(* What the modules over the ledger assume of it is what its writer does,  *)
(* for every size of queue and batch, through shedding, retries, lost      *)
(* answers and stops: records appear in the database in their order, a     *)
(* batch at a time, after any delay or never.                              *)
THEOREM LedgerImplementsView == Spec => ImplementsView
<1>1. IInv /\ [Next]_vars => [View!LedgerNext(Records, {1})]_(View!ledgerVars)
  BY ViewNext
<1>2. QED
  BY <1>1, Invariance, ViewInit, PTL DEF Spec, ImplementsView
=============================================================================
