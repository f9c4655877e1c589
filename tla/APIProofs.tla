----------------------------- MODULE APIProofs -----------------------------
(***************************************************************************)
(* Proofs about APITrigger for any number of runs and clients and any size *)
(* of the table: its types and how far the table may outgrow its bound,    *)
(* that stop settles the runs it found, and that a client sees a run go    *)
(* forward.                                                                *)
(***************************************************************************)
EXTENDS APITrigger, FiniteSetTheorems, SequenceTheorems, TLAPS

-----------------------------------------------------------------------------
(* Sequences                                                               *)

(* The two parts of a sequence hold its elements between them.             *)
LEMMA SplitFacts ==
  ASSUME NEW S, NEW s \in Seq(S), NEW k \in 0..Len(s)
  PROVE  LET front == SubSeq(s, 1, k)
             back  == SubSeq(s, k + 1, Len(s))
         IN  /\ front \in Seq(S) /\ Len(front) = k
             /\ back \in Seq(S) /\ Len(back) = Len(s) - k
             /\ \A i \in 1..k : front[i] = s[i]
             /\ \A i \in 1..(Len(s) - k) : back[i] = s[k + i]
             /\ Range(s) = Range(front) \cup Range(back)
<1> DEFINE front == SubSeq(s, 1, k)
           back  == SubSeq(s, k + 1, Len(s))
<1>1. /\ front \in Seq(S) /\ Len(front) = k
      /\ \A i \in 1..k : front[i] = s[i]
  OBVIOUS
<1>2. /\ back \in Seq(S) /\ Len(back) = Len(s) - k
      /\ \A i \in 1..(Len(s) - k) : back[i] = s[k + i]
  OBVIOUS
<1>3. front \o back = s
  <2>1. /\ Len(s) \in Nat /\ 1 \in 1..(Len(s) + 1)
        /\ k \in (1 - 1)..Len(s) /\ Len(s) \in k..Len(s)
    OBVIOUS
  <2>2. front \o back = SubSeq(s, 1, Len(s))
    BY <2>1, ConcatAdjacentSubSeq
  <2>3. QED
    BY <2>2, SubSeqFull
<1> HIDE DEF front, back
<1>4. Range(s) = Range(front) \cup Range(back)
  <2>1. front \in Seq(S) /\ back \in Seq(S)
    BY <1>1, <1>2
  <2>2. Range(front \o back) = Range(front) \cup Range(back)
    BY <2>1, RangeConcatenation
  <2>3. QED
    BY <1>3, <2>2
<1>5. QED
  BY <1>1, <1>2, <1>4 DEF front, back

(* Without the element at i, the others keep their order.                  *)
LEMMA RemoveFacts ==
  ASSUME NEW S, NEW s \in Seq(S), NEW i \in 1..Len(s)
  PROVE  LET rest == SubSeq(s, 1, i - 1) \o SubSeq(s, i + 1, Len(s))
         IN  /\ rest \in Seq(S) /\ Len(rest) = Len(s) - 1
             /\ \A j \in 1..(Len(s) - 1) : rest[j] = IF j < i THEN s[j] ELSE s[j + 1]
<1> DEFINE front == SubSeq(s, 1, i - 1)
           back  == SubSeq(s, i + 1, Len(s))
<1>1. /\ front \in Seq(S) /\ Len(front) = i - 1
      /\ \A j \in 1..(i - 1) : front[j] = s[j]
  OBVIOUS
<1>2. /\ back \in Seq(S) /\ Len(back) = Len(s) - i
      /\ \A j \in 1..(Len(s) - i) : back[j] = s[i + j]
  OBVIOUS
<1> HIDE DEF front, back
<1>3. front \o back \in Seq(S) /\ Len(front \o back) = Len(s) - 1
  BY <1>1, <1>2
<1>4. ASSUME NEW j \in 1..(Len(s) - 1)
      PROVE  (front \o back)[j] = IF j < i THEN s[j] ELSE s[j + 1]
  <2>1. CASE j < i
    BY <2>1, <1>1, <1>2
  <2>2. CASE j >= i
    <3>1. j - (i - 1) \in 1..(Len(s) - i) /\ i + (j - (i - 1)) = j + 1
      BY <2>2
    <3>2. (front \o back)[j] = back[j - (i - 1)]
      BY <2>2, <1>1, <1>2
    <3>3. QED
      BY <2>2, <3>1, <3>2, <1>2
  <2>3. j < i \/ j >= i
    OBVIOUS
  <2>4. QED
    BY <2>1, <2>2, <2>3
<1>5. QED
  BY <1>3, <1>4 DEF front, back

-----------------------------------------------------------------------------

USE APIAssumption

Wholes(t) == {i \in DOMAIN t : t[i].whole}
OnceEach(t) == \A i, j \in DOMAIN t : t[i].run = t[j].run => i = j

(* TypeOK in two parts. An id stands in the table once, and what was put   *)
(* there at acceptance stays within the bound.                             *)
TableOK ==
  /\ table \in Seq(Entry)
  /\ OnceEach(table)
  /\ \A i \in DOMAIN table : table[i].run \in Accepted
  /\ Cardinality(Wholes(table)) <= MaxTable

StateOK ==
  /\ task \in [Runs -> {"none", "created", "calling", "over", "never"}]
  /\ tracked \subseteq {r \in Runs : Alive(r)}
  /\ doomed \subseteq {r \in Runs : Alive(r)} /\ late \subseteq Accepted
  /\ server \in {"down", "up", "cancelling", "closing"}
  /\ ask \in [Clients -> Entry \cup {NoAsk}]
  /\ told \in [Clients -> [run : 0..MaxRuns, answer : Outcomes \cup {"pending", "gone"}]]

(* A task that is alive is known to the server, or to the stop that is     *)
(* under way, unless its run came late.                                    *)
TrackInv ==
  \A r \in Accepted \ late :
    Alive(r) => \/ server = "up" /\ r \in tracked
                \/ server = "cancelling" /\ r \in doomed

(* A run has an outcome exactly when its task has reported it. What a      *)
(* question has read is not contradicted by the table.                     *)
OutcomeInv ==
  /\ \A i \in DOMAIN table : table[i].status # "pending" <=> task[table[i].run] = "over"
  /\ \A r \in Runs, c \in Clients : ask[c].run = r /\ ask[c].status # "pending" =>
       /\ task[r] = "over"
       /\ \A i \in DOMAIN table : table[i].run = r => table[i].status = ask[c].status

(* Nor is what a client has been told, by the table or by the question it  *)
(* has asked since.                                                        *)
ToldInv ==
  \A c \in Clients, r \in Runs : told[c].run = r =>
    /\ told[c].answer \in Outcomes =>
         /\ task[r] = "over"
         /\ \A i \in DOMAIN table : table[i].run = r => table[i].status = told[c].answer
         /\ ask[c].run = r => ask[c].status = told[c].answer
    /\ told[c].answer = "gone" =>
         /\ r \in Accepted
         /\ \A i \in DOMAIN table : table[i].run = r => table[i].status # "pending"
         /\ ask[c].run = r => ask[c].status # "pending"

IInv == TableOK /\ StateOK /\ TrackInv /\ OutcomeInv /\ ToldInv

-----------------------------------------------------------------------------
(* How the table changes                                                   *)

(* t holds entries of s, each at most once.                                *)
Drawn(t, s) ==
  \E f \in [DOMAIN t -> DOMAIN s] :
    /\ \A i, j \in DOMAIN t : f[i] = f[j] => i = j
    /\ \A j \in DOMAIN t : t[j] = s[f[j]]

(* What is drawn from a table keeps what TableOK says of it.               *)
LEMMA DrawnFacts ==
  ASSUME NEW s \in Seq(Entry), NEW t \in Seq(Entry), Drawn(t, s), OnceEach(s)
  PROVE  /\ OnceEach(t)
         /\ Cardinality(Wholes(t)) <= Cardinality(Wholes(s))
         /\ \A j \in DOMAIN t : \E i \in DOMAIN s : t[j] = s[i]
<1>1. PICK f \in [DOMAIN t -> DOMAIN s] :
        /\ \A i, j \in DOMAIN t : f[i] = f[j] => i = j
        /\ \A j \in DOMAIN t : t[j] = s[f[j]]
  BY DEF Drawn
<1>2. OnceEach(t)
  BY <1>1 DEF OnceEach
<1>3. Cardinality(Wholes(t)) <= Cardinality(Wholes(s))
  <2> DEFINE g == [j \in Wholes(t) |-> f[j]]
  <2>1. g \in Injection(Wholes(t), Wholes(s))
    BY <1>1 DEF Injection, IsInjective, Wholes
  <2>2. IsFiniteSet(Wholes(s))
    <3>1. Wholes(s) \in SUBSET (1..Len(s)) /\ 1 \in Int /\ Len(s) \in Int
      BY DEF Wholes
    <3>2. IsFiniteSet(1..Len(s))
      BY <3>1, FS_Interval
    <3>3. QED
      BY <3>1, <3>2, FS_Subset
  <2>3. QED
    BY <2>1, <2>2, FS_Injection
<1>4. QED
  BY <1>1, <1>2, <1>3

(* Accept: the newest entries, with room for one more.                     *)
LEMMA MakeRoomFacts ==
  ASSUME table \in Seq(Entry)
  PROVE  /\ MakeRoom \in Seq(Entry) /\ Len(MakeRoom) < MaxTable
         /\ Drawn(MakeRoom, table)
<1>1. CASE Len(table) < MaxTable
  <2>1. MakeRoom = table
    BY <1>1 DEF MakeRoom
  <2> DEFINE f == [j \in DOMAIN table |-> j]
  <2>2. f \in [DOMAIN table -> DOMAIN table] /\ \A j \in DOMAIN table : f[j] = j
    OBVIOUS
  <2>3. Drawn(table, table)
    BY <2>2 DEF Drawn
  <2>4. QED
    BY <1>1, <2>1, <2>3
<1>2. CASE ~(Len(table) < MaxTable)
  <2> DEFINE k == Len(table) - MaxTable + 1
             f == [j \in DOMAIN MakeRoom |-> k + j]
  <2>1. /\ k \in 0..Len(table) /\ Len(table) - k = MaxTable - 1
        /\ MakeRoom = SubSeq(table, k + 1, Len(table))
    BY <1>2 DEF MakeRoom
  <2> HIDE DEF k
  <2>2. /\ MakeRoom \in Seq(Entry) /\ Len(MakeRoom) = MaxTable - 1
        /\ DOMAIN MakeRoom = 1..(MaxTable - 1)
        /\ \A j \in 1..(MaxTable - 1) : MakeRoom[j] = table[k + j] /\ k + j \in DOMAIN table
    BY <2>1, SplitFacts
  <2>3. /\ f \in [DOMAIN MakeRoom -> DOMAIN table]
        /\ \A j \in DOMAIN MakeRoom : f[j] = k + j
    BY <2>2
  <2>4. \A i, j \in DOMAIN MakeRoom : k + i = k + j => i = j
    BY <2>1, <2>2
  <2> HIDE DEF f
  <2>5. Drawn(MakeRoom, table)
    <3>1. \A i, j \in DOMAIN MakeRoom : f[i] = f[j] => i = j
      BY <2>3, <2>4
    <3>2. \A j \in DOMAIN MakeRoom : MakeRoom[j] = table[f[j]]
      BY <2>2, <2>3
    <3> HIDE DEF MakeRoom
    <3>3. QED
      BY <2>3, <3>1, <3>2 DEF Drawn
  <2>6. QED
    BY <2>2, <2>5
<1>3. QED
  BY <1>1, <1>2

(* Touch: the same entries, one of them moved to the end.                  *)
LEMMA TouchFacts ==
  ASSUME table \in Seq(Entry), NEW entry, At(entry.run) # {}, Touch(entry)
  PROVE  table' \in Seq(Entry) /\ Drawn(table', table)
<1> DEFINE i == Place(entry.run)
           n == Len(table)
           f == [j \in 1..n |-> IF j = n THEN i ELSE IF j < i THEN j ELSE j + 1]
<1>1. i \in 1..n /\ n \in Nat
  BY DEF Place, At
<1>2. table' = Append(RemoveAt(table, i), table[i])
  BY DEF Touch
<1> HIDE DEF i, n
<1>3. /\ RemoveAt(table, i) \in Seq(Entry) /\ Len(RemoveAt(table, i)) = n - 1
      /\ \A j \in 1..(n - 1) :
           RemoveAt(table, i)[j] = IF j < i THEN table[j] ELSE table[j + 1]
  BY <1>1, RemoveFacts DEF RemoveAt, n
<1>4. table[i] \in Entry
  BY <1>1 DEF n
<1>5. /\ table' \in Seq(Entry) /\ Len(table') = n
      /\ table'[n] = table[i]
      /\ \A j \in 1..(n - 1) : table'[j] = RemoveAt(table, i)[j]
  BY <1>1, <1>2, <1>3, <1>4
<1>6. /\ f \in [1..n -> 1..n]
      /\ \A j \in 1..n : f[j] = IF j = n THEN i ELSE IF j < i THEN j ELSE j + 1
  BY <1>1
<1> HIDE DEF f
<1>7. ASSUME NEW j \in 1..n, NEW k \in 1..n, f[j] = f[k]
      PROVE  j = k
  <2>1. n \in Int /\ i \in Int /\ j \in Int /\ k \in Int /\ j <= n /\ k <= n
    BY <1>1
  <2>2. \/ j = n /\ f[j] = i
        \/ j < n /\ j < i /\ f[j] = j
        \/ j < n /\ j >= i /\ f[j] = j + 1
    BY <1>6, <2>1
  <2>3. \/ k = n /\ f[k] = i
        \/ k < n /\ k < i /\ f[k] = k
        \/ k < n /\ k >= i /\ f[k] = k + 1
    BY <1>6, <2>1
  <2>4. QED
    BY <1>7, <2>1, <2>2, <2>3
<1>8. \A j \in 1..n : table'[j] = table[f[j]]
  <2> TAKE j \in 1..n
  <2>1. CASE j = n
    BY <2>1, <1>5, <1>6
  <2>2. CASE j # n
    <3>1. j \in 1..(n - 1)
      BY <2>2, <1>1
    <3>2. QED
      BY <2>2, <3>1, <1>3, <1>5, <1>6
  <2>3. QED
    BY <2>1, <2>2
<1>9. DOMAIN table = 1..n /\ DOMAIN table' = 1..n
  BY <1>5 DEF n
<1>10. /\ f \in [DOMAIN table' -> DOMAIN table]
       /\ \A j, k \in DOMAIN table' : f[j] = f[k] => j = k
       /\ \A j \in DOMAIN table' : table'[j] = table[f[j]]
  BY <1>6, <1>7, <1>8, <1>9
<1>11. QED
  BY <1>5, <1>10 DEF Drawn

(* Report: the entry of the run gets its outcome, the others stay.         *)
LEMMA ReportFacts ==
  ASSUME TableOK, NEW r \in Accepted, NEW status \in Outcomes, Report(r, status),
         Accepted \subseteq Accepted'
  PROVE  /\ TableOK'
         /\ \A j \in DOMAIN table' :
              \/ table'[j].run = r /\ table'[j].status = status
              \/ \E i \in DOMAIN table : table'[j] = table[i] /\ table[i].run # r
<1> DEFINE new == [run |-> r, status |-> status, whole |-> FALSE]
<1>0. r \in Runs /\ table \in Seq(Entry) /\ OnceEach(table)
  BY DEF Accepted, TableOK
<1>1. CASE At(r) = {}
  <2>1. table' = Append(table, new) /\ new \in Entry
    BY <1>0, <1>1 DEF Report, Entry
  <2>2. new.run = r /\ new.status = status /\ ~new.whole
    OBVIOUS
  <2> HIDE DEF new
  <2>3. /\ table' \in Seq(Entry) /\ DOMAIN table' = 1..(Len(table) + 1)
        /\ \A j \in DOMAIN table : table'[j] = table[j] /\ table[j].run # r
        /\ table'[Len(table) + 1] = new
        /\ DOMAIN table = 1..Len(table) /\ Len(table) \in Nat
    BY <1>0, <1>1, <2>1 DEF At
  <2>4. \A j \in DOMAIN table' : j \in DOMAIN table \/ j = Len(table) + 1
    BY <2>3
  <2>5. OnceEach(table')
    BY <1>0, <2>2, <2>3, <2>4 DEF OnceEach
  <2>6. Wholes(table') = Wholes(table)
    <3>1. DOMAIN table \subseteq DOMAIN table'
      BY <2>3
    <3>2. QED
      BY <2>2, <2>3, <2>4, <3>1 DEF Wholes
  <2>7. TableOK'
    BY <2>2, <2>3, <2>4, <2>5, <2>6 DEF TableOK
  <2>8. QED
    BY <2>2, <2>3, <2>4, <2>7
<1>2. CASE At(r) # {}
  <2>1. /\ table' = [i \in DOMAIN table |->
                       IF i \in At(r) THEN [table[i] EXCEPT !.status = status] ELSE table[i]]
        /\ DOMAIN table' = DOMAIN table
    BY <1>2 DEF Report
  <2>2. ASSUME NEW j \in DOMAIN table
        PROVE  /\ table'[j] \in Entry
               /\ table'[j].run = table[j].run /\ table'[j].whole = table[j].whole
               /\ table[j].run = r => table'[j].status = status
               /\ table[j].run # r => table'[j] = table[j]
    <3>1. table[j] \in Entry
      BY <1>0
    <3>2. CASE table[j].run = r
      BY <2>1, <3>1, <3>2 DEF At, Entry
    <3>3. CASE table[j].run # r
      BY <2>1, <3>1, <3>3 DEF At
    <3>4. QED
      BY <3>2, <3>3
  <2>3. table' \in Seq(Entry)
    BY <1>0, <2>1, <2>2
  <2>4. OnceEach(table') /\ Wholes(table') = Wholes(table)
    BY <1>0, <2>1, <2>2 DEF OnceEach, Wholes
  <2>5. TableOK'
    BY <2>1, <2>2, <2>3, <2>4 DEF TableOK
  <2>6. QED
    BY <2>1, <2>2, <2>5
<1>3. QED
  BY <1>1, <1>2

(* Accept: the new entry and some of those that were there.                *)
LEMMA AcceptFacts ==
  ASSUME TableOK, StateOK, NEW r \in Runs, Accept(r)
  PROVE  /\ TableOK'
         /\ \A j \in DOMAIN table' :
              \/ table'[j].run = r /\ table'[j].status = "pending"
              \/ \E i \in DOMAIN table : table'[j] = table[i]
<1> DEFINE new == [run |-> r, status |-> "pending", whole |-> TRUE]
           n   == Len(MakeRoom)
<1>1. table \in Seq(Entry) /\ OnceEach(table) /\ r \notin Accepted
  BY DEF Accept, TableOK, Accepted
<1>2. /\ MakeRoom \in Seq(Entry) /\ n < MaxTable /\ OnceEach(MakeRoom)
      /\ \A j \in DOMAIN MakeRoom : \E i \in DOMAIN table : MakeRoom[j] = table[i]
  BY <1>1, MakeRoomFacts, DrawnFacts
<1>3. table' = Append(MakeRoom, new) /\ new \in Entry
  BY DEF Accept, Entry
<1>4. new.run = r /\ new.status = "pending"
  OBVIOUS
<1> HIDE DEF new
<1>5. /\ table' \in Seq(Entry) /\ DOMAIN table' = 1..(n + 1) /\ n \in Nat
      /\ DOMAIN MakeRoom = 1..n
      /\ \A j \in 1..n : table'[j] = MakeRoom[j]
      /\ table'[n + 1] = new
  BY <1>2, <1>3
<1> HIDE DEF n
<1>6. \A j \in DOMAIN table' : j \in 1..n \/ j = n + 1
  BY <1>5
<1>7. \A j \in 1..n : \E i \in DOMAIN table : table'[j] = table[i] /\ table[i].run # r
  BY <1>1, <1>2, <1>5 DEF TableOK
<1>8. OnceEach(table')
  BY <1>2, <1>4, <1>5, <1>6, <1>7 DEF OnceEach
<1>9. Accepted \subseteq Accepted' /\ r \in Accepted'
  BY DEF Accept, StateOK, Accepted
<1>10. \A j \in DOMAIN table' : table'[j].run \in Accepted'
  BY <1>4, <1>5, <1>6, <1>7, <1>9 DEF TableOK
<1>11. Cardinality(Wholes(table')) <= MaxTable
  <2>1. Wholes(table') \in SUBSET (1..(n + 1)) /\ 1 \in Int /\ n + 1 \in Int /\ n + 1 <= MaxTable
    BY <1>2, <1>5 DEF Wholes, n
  <2>2. /\ IsFiniteSet(1..(n + 1)) /\ Cardinality(1..(n + 1)) = n + 1
    BY <1>5, <2>1, FS_Interval
  <2>3. IsFiniteSet(Wholes(table')) /\ Cardinality(Wholes(table')) <= n + 1
    BY <2>1, <2>2, FS_Subset
  <2>4. Cardinality(Wholes(table')) \in Nat
    BY <2>3, FS_CardinalityType
  <2>5. QED
    BY <2>1, <2>3, <2>4
<1>12. TableOK'
  BY <1>5, <1>8, <1>10, <1>11 DEF TableOK
<1>13. QED
  BY <1>4, <1>5, <1>6, <1>7, <1>12

(* A question that is answered leaves the same entries.                    *)
LEMMA AnswerFacts ==
  ASSUME TableOK, NEW entry, UNCHANGED task,
         UNCHANGED table \/ (At(entry.run) # {} /\ Touch(entry))
  PROVE  /\ TableOK'
         /\ \A j \in DOMAIN table' : \E i \in DOMAIN table : table'[j] = table[i]
<1>1. Accepted' = Accepted
  BY DEF Accepted
<1>2. CASE UNCHANGED table
  BY <1>1, <1>2 DEF TableOK
<1>3. CASE At(entry.run) # {} /\ Touch(entry)
  <2>1. /\ table' \in Seq(Entry) /\ OnceEach(table')
        /\ Cardinality(Wholes(table')) <= Cardinality(Wholes(table))
        /\ \A j \in DOMAIN table' : \E i \in DOMAIN table : table'[j] = table[i]
    BY <1>3, TouchFacts, DrawnFacts DEF TableOK
  <2>2. \A S : S \in {Wholes(table), Wholes(table')} => Cardinality(S) \in Nat
    <3>1. /\ Wholes(table) \in SUBSET (1..Len(table)) /\ Len(table) \in Int
          /\ Wholes(table') \in SUBSET (1..Len(table')) /\ Len(table') \in Int /\ 1 \in Int
      <4>1. table \in Seq(Entry) /\ table' \in Seq(Entry)
        BY <2>1 DEF TableOK
      <4>2. \A t \in Seq(Entry) : Wholes(t) \in SUBSET (1..Len(t)) /\ Len(t) \in Int
        BY DEF Wholes
      <4>3. QED
        BY <4>1, <4>2
    <3>2. IsFiniteSet(1..Len(table)) /\ IsFiniteSet(1..Len(table'))
      BY <3>1, FS_Interval
    <3>3. IsFiniteSet(Wholes(table)) /\ IsFiniteSet(Wholes(table'))
      BY <3>1, <3>2, FS_Subset
    <3>4. QED
      BY <3>3, FS_CardinalityType
  <2>3. Cardinality(Wholes(table')) <= MaxTable
    BY <2>1, <2>2 DEF TableOK
  <2>4. QED
    BY <1>1, <2>1, <2>3 DEF TableOK
<1>4. QED
  BY <1>2, <1>3

-----------------------------------------------------------------------------
(* The invariant is kept                                                   *)

(* The steps of runs, and the others.                                      *)
Ends(r, how) ==
  /\ Alive(r) /\ TaskEnds(r, how) /\ UNCHANGED <<server, late, askVars>>
  /\ \/ how = "over" /\ task[r] = "calling" /\ \E status \in Outcomes : Report(r, status)
     \/ how = "never" /\ task[r] = "created" /\ UNCHANGED table

ServerStep == Start \/ StopBegins \/ StopForgetsTasks \/ ServerCloses

(* What every step is, for the proofs below.                               *)
LEMMA Steps ==
  ASSUME StateOK, [Next]_vars
  PROVE  \/ \E r \in Runs : Accept(r) \/ TaskBegins(r) \/ Ends(r, "over") \/ Ends(r, "never")
         \/ ServerStep
         \/ \E c \in Clients : AnswerResult(c) \/ \E r \in Runs : AskResult(c, r)
         \/ UNCHANGED vars
<1>1. ASSUME NEW r \in Runs, TaskReports(r)
      PROVE  Ends(r, "over")
  <2>1. \E status \in Outcomes : Report(r, status)
    BY <1>1 DEF TaskReports, Outcomes
  <2>2. QED
    BY <1>1, <2>1 DEF TaskReports, Ends, Alive
<1>2. ASSUME NEW r \in Runs, CancelArrives(r)
      PROVE  Ends(r, "over") \/ Ends(r, "never")
  <2>1. Alive(r)
    BY <1>2 DEF CancelArrives, StateOK
  <2>2. CASE task[r] = "created"
    BY <1>2, <2>1, <2>2 DEF CancelArrives, Ends
  <2>3. CASE task[r] # "created"
    <3>1. task[r] = "calling"
      BY <2>1, <2>3 DEF Alive
    <3>2. TaskEnds(r, "over") /\ Report(r, "cancelled") /\ UNCHANGED <<server, late, askVars>>
      BY <1>2, <2>3 DEF CancelArrives
    <3>3. \E status \in Outcomes : Report(r, status)
      BY <3>2 DEF Outcomes
    <3>4. QED
      BY <2>1, <3>1, <3>2, <3>3 DEF Ends
  <2>4. QED
    BY <2>2, <2>3
<1>3. QED
  BY <1>1, <1>2 DEF Next, ServerStep

(* A step of a client leaves the runs and the server alone.                *)
LEMMA ClientQuiet ==
  ASSUME NEW c \in Clients, AnswerResult(c) \/ \E r \in Runs : AskResult(c, r)
  PROVE  UNCHANGED <<task, tracked, doomed, server, late>>
  BY DEF AnswerResult, AskResult

LEMMA ServerQuiet ==
  ASSUME ServerStep
  PROVE  UNCHANGED <<table, task, late, askVars>>
  BY DEF ServerStep, Start, StopBegins, StopForgetsTasks, ServerCloses, runVars

(* What is asked and told are entries of the table and words of answers.   *)
LEMMA ClientTypes ==
  ASSUME TableOK, StateOK, NEW c \in Clients,
         AnswerResult(c) \/ \E r \in Runs : AskResult(c, r)
  PROVE  /\ ask' \in [Clients -> Entry \cup {NoAsk}]
         /\ told' \in [Clients -> [run : 0..MaxRuns, answer : Outcomes \cup {"pending", "gone"}]]
<1> DEFINE Told == [run : 0..MaxRuns, answer : Outcomes \cup {"pending", "gone"}]
<1>0. ask \in [Clients -> Entry \cup {NoAsk}] /\ told \in [Clients -> Told]
  BY DEF StateOK
<1>1. ASSUME NEW r \in Runs, NEW answer \in Outcomes \cup {"pending", "gone"}, Tell(c, r, answer)
      PROVE  told' \in [Clients -> Told]
  <2>1. [run |-> r, answer |-> answer] \in Told
    BY DEF Runs
  <2> HIDE DEF Told
  <2>2. QED
    BY <1>0, <1>1, <2>1 DEF Tell
<1>2. CASE AnswerResult(c)
  <2>1. ask[c] \in Entry
    BY <1>0, <1>2 DEF AnswerResult
  <2>2. ask[c].run \in Runs /\ ask[c].status \in Outcomes \cup {"pending", "gone"}
    BY <2>1 DEF Entry
  <2>3. told' \in [Clients -> Told]
    <3>1. CASE Tell(c, ask[c].run, ask[c].status)
      BY <1>1, <2>2, <3>1
    <3>2. CASE UNCHANGED told
      BY <1>0, <3>2
    <3>3. QED
      BY <1>2, <3>1, <3>2 DEF AnswerResult
  <2>4. ask' = [ask EXCEPT ![c] = NoAsk]
    BY <1>2 DEF AnswerResult
  <2>5. QED
    BY <1>0, <2>3, <2>4
<1>3. ASSUME NEW r \in Runs, AskResult(c, r)
      PROVE  /\ ask' \in [Clients -> Entry \cup {NoAsk}]
             /\ told' \in [Clients -> Told]
  <2>1. CASE At(r) = {}
    BY <1>0, <1>1, <1>3, <2>1 DEF AskResult
  <2>2. CASE At(r) # {}
    <3>1. Place(r) \in DOMAIN table
      BY <2>2 DEF Place, At
    <3>2. table[Place(r)] \in Entry
      BY <3>1 DEF TableOK
    <3>3. table[Place(r)].status \in Outcomes \cup {"pending", "gone"}
      BY <3>2 DEF Entry
    <3>4. \/ Tell(c, r, table[Place(r)].status) /\ UNCHANGED ask
          \/ ask' = [ask EXCEPT ![c] = table[Place(r)]] /\ UNCHANGED told
      BY <1>3, <2>2 DEF AskResult
    <3>5. QED
      BY <1>0, <1>1, <3>2, <3>3, <3>4
  <2>3. QED
    BY <2>1, <2>2
<1>4. QED
  BY <1>2, <1>3

LEMMA StateStep ==
  ASSUME TableOK, StateOK, [Next]_vars
  PROVE  StateOK'
<1>1. ASSUME NEW r \in Runs, Accept(r) \/ TaskBegins(r)
      PROVE  StateOK'
  BY <1>1 DEF Accept, TaskBegins, StateOK, Alive, Accepted, askVars, Stopping
<1>2. ASSUME NEW r \in Runs, NEW how \in {"over", "never"}, Ends(r, how)
      PROVE  StateOK'
  BY <1>2 DEF Ends, TaskEnds, StateOK, Alive, Accepted, askVars
<1>3. CASE ServerStep
  BY <1>3 DEF ServerStep, Start, StopBegins, StopForgetsTasks, ServerCloses, runVars,
              StateOK, Alive, Accepted, askVars
<1>4. ASSUME NEW c \in Clients, AnswerResult(c) \/ \E r \in Runs : AskResult(c, r)
      PROVE  StateOK'
  BY <1>4, ClientQuiet, ClientTypes DEF StateOK, Alive, Accepted
<1>5. CASE UNCHANGED vars
  BY <1>5 DEF vars, runVars, askVars, StateOK, Alive, Accepted
<1>6. QED
  BY <1>1, <1>2, <1>3, <1>4, <1>5, Steps

LEMMA TrackStep ==
  ASSUME StateOK, TrackInv, [Next]_vars
  PROVE  TrackInv'
<1>1. ASSUME NEW r \in Runs, Accept(r) \/ TaskBegins(r)
      PROVE  TrackInv'
  BY <1>1 DEF Accept, TaskBegins, StateOK, TrackInv, Alive, Accepted, askVars, Serving, Stopping
<1>2. ASSUME NEW r \in Runs, NEW how \in {"over", "never"}, Ends(r, how)
      PROVE  TrackInv'
  BY <1>2 DEF Ends, TaskEnds, StateOK, TrackInv, Alive, Accepted, askVars
<1>3. CASE ServerStep
  BY <1>3 DEF ServerStep, Start, StopBegins, StopForgetsTasks, ServerCloses, runVars, TasksEnded,
              StateOK, TrackInv, Alive, Accepted, askVars
<1>4. ASSUME NEW c \in Clients, AnswerResult(c) \/ \E r \in Runs : AskResult(c, r)
      PROVE  TrackInv'
  BY <1>4, ClientQuiet DEF TrackInv, Alive, Accepted
<1>5. CASE UNCHANGED vars
  BY <1>5 DEF vars, runVars, askVars, TrackInv, Alive, Accepted
<1>6. QED
  BY <1>1, <1>2, <1>3, <1>4, <1>5, Steps

-----------------------------------------------------------------------------
(* What a client does: it asks and has to wait, learns nothing, is told the*)
(* status it reads or has read, or is told that the run is unknown.        *)
Waits(c) ==
  /\ ask[c] = NoAsk /\ told'[c] = told[c]
  /\ \E i \in DOMAIN table : ask'[c] = table[i]

Learns(c, r, answer) ==
  /\ ask'[c] = NoAsk /\ told'[c].run = r /\ told'[c].answer = answer
  /\ \/ ask[c] = NoAsk /\ \E i \in DOMAIN table : table[i].run = r /\ table[i].status = answer
     \/ ask[c].run = r /\ ask[c].status = answer

FindsNone(c, r) ==
  /\ ask'[c] = NoAsk /\ told'[c].run = r /\ told'[c].answer = "gone"
  /\ At(r) = {} /\ r \in Accepted
  /\ told[c].run = r => told[c].answer \notin Outcomes

LEMMA ClientSteps ==
  ASSUME TableOK, StateOK, NEW c \in Clients,
         AnswerResult(c) \/ \E r \in Runs : AskResult(c, r)
  PROVE  /\ TableOK'
         /\ \A j \in DOMAIN table' : \E i \in DOMAIN table : table'[j] = table[i]
         /\ \A d \in Clients : d # c => ask'[d] = ask[d] /\ told'[d] = told[d]
         /\ \/ Waits(c)
            \/ ask'[c] = NoAsk /\ told'[c] = told[c]
            \/ \E r \in Runs : FindsNone(c, r)
            \/ \E r \in Runs : \E answer \in Outcomes \cup {"pending"} : Learns(c, r, answer)
<1> DEFINE Told == [run : 0..MaxRuns, answer : Outcomes \cup {"pending", "gone"}]
<1>0. ask \in [Clients -> Entry \cup {NoAsk}] /\ told \in [Clients -> Told]
  BY DEF StateOK
<1>1. ASSUME NEW r \in Runs, NEW answer, Tell(c, r, answer)
      PROVE  /\ \A d \in Clients : d # c => told'[d] = told[d]
             /\ \/ told'[c].run = r /\ told'[c].answer = answer
                \/ answer = "gone" /\ told'[c] = told[c]
             /\ told'[c] # told[c] /\ answer = "gone" /\ told[c].run = r =>
                  told[c].answer \notin Outcomes
  BY <1>0, <1>1 DEF Tell
<1>2. ASSUME AnswerResult(c)
      PROVE  /\ UNCHANGED table \/ (At(ask[c].run) # {} /\ Touch(ask[c]))
             /\ \A d \in Clients : d # c => ask'[d] = ask[d] /\ told'[d] = told[d]
             /\ \/ ask'[c] = NoAsk /\ told'[c] = told[c]
                \/ \E r \in Runs : \E answer \in Outcomes \cup {"pending"} : Learns(c, r, answer)
  <2>1. ask[c] \in Entry
    BY <1>0, <1>2 DEF AnswerResult
  <2>2. ask[c].run \in Runs /\ ask[c].status \in Outcomes \cup {"pending"}
    BY <2>1 DEF Entry
  <2>3. /\ ask'[c] = NoAsk
        /\ \A d \in Clients : d # c => ask'[d] = ask[d]
    BY <1>0, <1>2 DEF AnswerResult
  <2>4. CASE At(ask[c].run) # {} /\ Tell(c, ask[c].run, ask[c].status) /\ Touch(ask[c])
    <3>1. /\ \A d \in Clients : d # c => told'[d] = told[d]
          /\ told'[c].run = ask[c].run /\ told'[c].answer = ask[c].status
      BY <1>1, <2>2, <2>4 DEF Outcomes
    <3>2. Learns(c, ask[c].run, ask[c].status)
      BY <2>3, <3>1 DEF Learns
    <3>3. QED
      BY <2>2, <2>3, <2>4, <3>1, <3>2
  <2>5. CASE UNCHANGED <<told, table>>
    BY <2>3, <2>5
  <2>6. QED
    BY <1>2, <2>4, <2>5 DEF AnswerResult
<1>3. ASSUME NEW r \in Runs, AskResult(c, r)
      PROVE  /\ \/ UNCHANGED table
                \/ \E entry \in Entry : At(entry.run) # {} /\ Touch(entry)
             /\ \A d \in Clients : d # c => ask'[d] = ask[d] /\ told'[d] = told[d]
             /\ \/ Waits(c)
                \/ ask'[c] = NoAsk /\ told'[c] = told[c]
                \/ FindsNone(c, r)
                \/ \E answer \in Outcomes \cup {"pending"} : Learns(c, r, answer)
  <2>0. ask[c] = NoAsk /\ r \in Accepted
    BY <1>3 DEF AskResult
  <2>1. CASE At(r) = {}
    <3>1. Tell(c, r, "gone") /\ UNCHANGED <<ask, table>>
      BY <1>3, <2>1 DEF AskResult
    <3>2. /\ \A d \in Clients : d # c => ask'[d] = ask[d] /\ told'[d] = told[d]
          /\ told'[c] = told[c] \/ (told'[c].run = r /\ told'[c].answer = "gone")
          /\ told'[c] # told[c] /\ told[c].run = r => told[c].answer \notin Outcomes
      BY <1>1, <3>1
    <3>3. told'[c] # told[c] => FindsNone(c, r)
      BY <2>0, <2>1, <3>1, <3>2 DEF FindsNone
    <3>4. QED
      BY <2>0, <3>1, <3>2, <3>3
  <2>2. CASE At(r) # {}
    <3> DEFINE entry == table[Place(r)]
    <3>1. Place(r) \in DOMAIN table /\ entry.run = r
      BY <2>2 DEF Place, At
    <3>2. entry \in Entry
      BY <3>1 DEF TableOK
    <3>3. entry.status \in Outcomes \cup {"pending"}
      BY <3>2 DEF Entry
    <3>4. \/ Tell(c, r, entry.status) /\ Touch(entry) /\ UNCHANGED ask
          \/ ask' = [ask EXCEPT ![c] = entry] /\ UNCHANGED <<told, table>>
      BY <1>3, <2>2 DEF AskResult
    <3>5. \E i \in DOMAIN table : table[i] = entry
      BY <3>1
    <3> HIDE DEF entry
    <3>6. CASE Tell(c, r, entry.status) /\ Touch(entry) /\ UNCHANGED ask
      <4>1. /\ \A d \in Clients : d # c => told'[d] = told[d]
            /\ told'[c].run = r /\ told'[c].answer = entry.status
        BY <1>1, <3>3, <3>6 DEF Outcomes
      <4>2. Learns(c, r, entry.status)
        BY <2>0, <3>1, <3>5, <3>6, <4>1 DEF Learns
      <4>3. QED
        BY <2>2, <3>1, <3>2, <3>3, <3>6, <4>1, <4>2
    <3>7. CASE ask' = [ask EXCEPT ![c] = entry] /\ UNCHANGED <<told, table>>
      <4>1. ask'[c] = entry /\ \A d \in Clients : d # c => ask'[d] = ask[d]
        BY <1>0, <3>7
      <4>2. Waits(c)
        BY <2>0, <3>5, <3>7, <4>1 DEF Waits
      <4>3. QED
        BY <3>7, <4>1, <4>2
    <3>8. QED
      BY <3>4, <3>6, <3>7
  <2>3. QED
    BY <2>1, <2>2
<1>4. \E entry : UNCHANGED table \/ (At(entry.run) # {} /\ Touch(entry))
  BY <1>2, <1>3
<1>5. UNCHANGED task
  BY ClientQuiet
<1>6. /\ TableOK'
      /\ \A j \in DOMAIN table' : \E i \in DOMAIN table : table'[j] = table[i]
  BY <1>4, <1>5, AnswerFacts
<1>7. QED
  BY <1>2, <1>3, <1>6

(* Every step keeps the table well formed.                                 *)
LEMMA TableStep ==
  ASSUME TableOK, StateOK, [Next]_vars
  PROVE  TableOK'
<1>1. ASSUME NEW r \in Runs, TaskBegins(r) \/ Ends(r, "never")
      PROVE  TableOK'
  BY <1>1 DEF TaskBegins, Ends, TaskEnds, StateOK, TableOK, Accepted, Alive
<1>2. ASSUME NEW r \in Runs, Ends(r, "over")
      PROVE  TableOK'
  <2>1. r \in Accepted /\ Accepted \subseteq Accepted'
    BY <1>2 DEF Ends, TaskEnds, StateOK, Accepted, Alive
  <2>2. PICK status \in Outcomes : Report(r, status)
    BY <1>2 DEF Ends
  <2>3. QED
    BY <2>1, <2>2, ReportFacts
<1>3. CASE ServerStep
  BY <1>3, ServerQuiet DEF TableOK, Accepted
<1>4. CASE UNCHANGED vars
  BY <1>4 DEF vars, runVars, TableOK, Accepted
<1>5. QED
  BY <1>1, <1>2, <1>3, <1>4, Steps, AcceptFacts, ClientSteps

(* The steps that leave entries, questions and outcomes alone.             *)
LEMMA QuietOutcomes ==
  ASSUME OutcomeInv, ToldInv, UNCHANGED <<table, askVars>>,
         \A r \in Runs : task'[r] = "over" <=> task[r] = "over",
         Accepted \subseteq Accepted', \A i \in DOMAIN table : table[i].run \in Runs
  PROVE  OutcomeInv' /\ ToldInv'
  BY DEF OutcomeInv, ToldInv, askVars

(* A new run is one nobody has asked about.                                *)
LEMMA AcceptOutcomes ==
  ASSUME TableOK, StateOK, OutcomeInv, ToldInv, NEW r \in Runs, Accept(r)
  PROVE  OutcomeInv' /\ ToldInv'
<1>1. /\ UNCHANGED <<ask, told>>
      /\ task[r] = "none" /\ task'[r] = "created"
      /\ \A q \in Runs : q # r => task'[q] = task[q]
  BY DEF Accept, StateOK, askVars
<1>2. \A j \in DOMAIN table' :
        \/ table'[j].run = r /\ table'[j].status = "pending"
        \/ \E i \in DOMAIN table : table'[j] = table[i]
  BY AcceptFacts
<1>3. \A i \in DOMAIN table : table[i].run \in Runs /\ table[i].run # r
  BY <1>1 DEF TableOK, Accepted
<1>4. \A q \in Runs : task'[q] = "over" <=> task[q] = "over"
  BY <1>1
<1>5. Accepted \subseteq Accepted' /\ r \notin Accepted
  BY <1>1 DEF Accepted
<1>6. OutcomeInv'
  <2>1. \A j \in DOMAIN table' : table'[j].status # "pending" <=> task'[table'[j].run] = "over"
    BY <1>1, <1>2, <1>3 DEF OutcomeInv
  <2>2. ASSUME NEW q \in Runs, NEW c \in Clients, ask'[c].run = q, ask'[c].status # "pending"
        PROVE  /\ task'[q] = "over"
               /\ \A j \in DOMAIN table' : table'[j].run = q => table'[j].status = ask'[c].status
    <3>1. task[q] = "over" /\ q # r
      BY <1>1, <2>2 DEF OutcomeInv
    <3>2. QED
      BY <1>1, <1>2, <2>2, <3>1 DEF OutcomeInv
  <2>3. QED
    BY <2>1, <2>2 DEF OutcomeInv
<1>7. ToldInv'
  <2> SUFFICES ASSUME NEW c \in Clients, NEW q \in Runs, told[c].run = q
               PROVE  /\ told[c].answer \in Outcomes =>
                           /\ task'[q] = "over"
                           /\ \A j \in DOMAIN table' :
                                table'[j].run = q => table'[j].status = told[c].answer
                           /\ ask[c].run = q => ask[c].status = told[c].answer
                      /\ told[c].answer = "gone" =>
                           /\ q \in Accepted'
                           /\ \A j \in DOMAIN table' :
                                table'[j].run = q => table'[j].status # "pending"
                           /\ ask[c].run = q => ask[c].status # "pending"
    BY <1>1 DEF ToldInv
  <2>1. told[c].answer \in Outcomes => q # r
    BY <1>1 DEF ToldInv
  <2>2. told[c].answer = "gone" => q # r
    BY <1>5 DEF ToldInv
  <2>3. QED
    BY <1>1, <1>2, <1>4, <1>5, <2>1, <2>2 DEF ToldInv
<1>8. QED
  BY <1>6, <1>7

(* A run that reports had no outcome before.                               *)
LEMMA ReportOutcomes ==
  ASSUME TableOK, StateOK, OutcomeInv, ToldInv, NEW r \in Runs, Ends(r, "over")
  PROVE  OutcomeInv' /\ ToldInv'
<1>1. /\ UNCHANGED <<ask, told>>
      /\ task[r] = "calling" /\ task'[r] = "over"
      /\ \A q \in Runs : q # r => task'[q] = task[q]
  BY DEF Ends, TaskEnds, StateOK, askVars
<1>2. Accepted' = Accepted /\ r \in Accepted
  BY <1>1 DEF Accepted
<1>3. PICK status \in Outcomes : Report(r, status)
  BY DEF Ends
<1>4. \A j \in DOMAIN table' :
        \/ table'[j].run = r /\ table'[j].status = status
        \/ \E i \in DOMAIN table : table'[j] = table[i] /\ table[i].run # r
  BY <1>2, <1>3, ReportFacts
<1>5. status # "pending"
  BY DEF Outcomes
<1>6. \A i \in DOMAIN table : table[i].run \in Runs
  BY DEF TableOK, Accepted
<1>7. OutcomeInv'
  <2>1. \A j \in DOMAIN table' : table'[j].status # "pending" <=> task'[table'[j].run] = "over"
    BY <1>1, <1>4, <1>5, <1>6 DEF OutcomeInv
  <2>2. ASSUME NEW q \in Runs, NEW c \in Clients, ask'[c].run = q, ask'[c].status # "pending"
        PROVE  /\ task'[q] = "over"
               /\ \A j \in DOMAIN table' : table'[j].run = q => table'[j].status = ask'[c].status
    <3>1. task[q] = "over" /\ q # r
      BY <1>1, <2>2 DEF OutcomeInv
    <3>2. QED
      BY <1>1, <1>4, <2>2, <3>1 DEF OutcomeInv
  <2>3. QED
    BY <2>1, <2>2 DEF OutcomeInv
<1>8. ToldInv'
  <2> SUFFICES ASSUME NEW c \in Clients, NEW q \in Runs, told[c].run = q
               PROVE  /\ told[c].answer \in Outcomes =>
                           /\ task'[q] = "over"
                           /\ \A j \in DOMAIN table' :
                                table'[j].run = q => table'[j].status = told[c].answer
                           /\ ask[c].run = q => ask[c].status = told[c].answer
                      /\ told[c].answer = "gone" =>
                           /\ q \in Accepted'
                           /\ \A j \in DOMAIN table' :
                                table'[j].run = q => table'[j].status # "pending"
                           /\ ask[c].run = q => ask[c].status # "pending"
    BY <1>1 DEF ToldInv
  <2>1. told[c].answer \in Outcomes => q # r
    BY <1>1 DEF ToldInv
  <2>2. told[c].answer \in Outcomes =>
           /\ task'[q] = "over"
           /\ \A j \in DOMAIN table' : table'[j].run = q => table'[j].status = told[c].answer
           /\ ask[c].run = q => ask[c].status = told[c].answer
    BY <1>1, <1>4, <2>1 DEF ToldInv
  <2>3. told[c].answer = "gone" =>
           /\ q \in Accepted'
           /\ \A j \in DOMAIN table' : table'[j].run = q => table'[j].status # "pending"
           /\ ask[c].run = q => ask[c].status # "pending"
    BY <1>2, <1>4, <1>5 DEF ToldInv
  <2>4. QED
    BY <2>2, <2>3
<1>9. QED
  BY <1>7, <1>8

(* A client is told what agrees with the table, and with what it was told. *)
LEMMA ClientOutcomes ==
  ASSUME TableOK, StateOK, OutcomeInv, ToldInv, NEW c \in Clients,
         AnswerResult(c) \/ \E r \in Runs : AskResult(c, r)
  PROVE  OutcomeInv' /\ ToldInv'
<1>1. /\ UNCHANGED task /\ Accepted' = Accepted
      /\ \A j \in DOMAIN table' : \E i \in DOMAIN table : table'[j] = table[i]
      /\ \A d \in Clients : d # c => ask'[d] = ask[d] /\ told'[d] = told[d]
  BY ClientQuiet, ClientSteps DEF Accepted
<1>2. \A i \in DOMAIN table : table[i].run \in Runs
  BY DEF TableOK, Accepted
<1>3. OnceEach(table)
  BY DEF TableOK
<1>4. \A r \in Runs : NoAsk.run # r
  BY DEF NoAsk, Runs
<1>5. \A i, j \in DOMAIN table : table[i].run = table[j].run => table[i].status = table[j].status
  BY <1>3 DEF OnceEach
<1>6. \/ ask'[c] = NoAsk
      \/ \E i \in DOMAIN table : ask'[c] = table[i]
  BY ClientSteps DEF Waits, FindsNone, Learns
<1>7. OutcomeInv'
  <2>1. \A j \in DOMAIN table' : table'[j].status # "pending" <=> task'[table'[j].run] = "over"
    BY <1>1 DEF OutcomeInv
  <2>2. ASSUME NEW r \in Runs, NEW d \in Clients, ask'[d].run = r, ask'[d].status # "pending"
        PROVE  /\ task'[r] = "over"
               /\ \A j \in DOMAIN table' : table'[j].run = r => table'[j].status = ask'[d].status
    <3>1. CASE d # c
      BY <1>1, <2>2, <3>1 DEF OutcomeInv
    <3>2. CASE d = c
      <4>1. PICK i \in DOMAIN table : ask'[c] = table[i]
        BY <1>4, <1>6, <2>2, <3>2
      <4>2. task[r] = "over" /\ table[i].run = r
        BY <2>2, <3>2, <4>1 DEF OutcomeInv
      <4>3. QED
        BY <1>1, <1>5, <3>2, <4>1, <4>2
    <3>3. QED
      BY <3>1, <3>2
  <2>3. QED
    BY <2>1, <2>2 DEF OutcomeInv
<1>8. ASSUME NEW d \in Clients, NEW r \in Runs, told'[d].run = r
      PROVE  /\ told'[d].answer \in Outcomes =>
                  /\ task[r] = "over"
                  /\ \A i \in DOMAIN table : table[i].run = r => table[i].status = told'[d].answer
                  /\ ask'[d].run = r => ask'[d].status = told'[d].answer
             /\ told'[d].answer = "gone" =>
                  /\ r \in Accepted
                  /\ \A i \in DOMAIN table : table[i].run = r => table[i].status # "pending"
                  /\ ask'[d].run = r => ask'[d].status # "pending"
  <2>1. CASE d # c
    BY <1>1, <1>8, <2>1 DEF ToldInv
  <2>2. CASE d = c /\ Waits(c)
    <3>1. told[c].run = r /\ told'[c] = told[c]
      BY <1>8, <2>2 DEF Waits
    <3>2. PICK i \in DOMAIN table : ask'[c] = table[i]
      BY <2>2 DEF Waits
    <3>3. QED
      BY <2>2, <3>1, <3>2 DEF ToldInv
  <2>3. CASE d = c /\ ask'[c] = NoAsk /\ told'[c] = told[c]
    BY <1>4, <1>8, <2>3 DEF ToldInv
  <2>4. CASE d = c /\ FindsNone(c, r)
    <3>1. told'[c].answer = "gone" /\ ask'[c] = NoAsk /\ r \in Accepted /\ At(r) = {}
      BY <2>4 DEF FindsNone
    <3>2. \A i \in DOMAIN table : table[i].run # r
      BY <3>1 DEF At
    <3>3. told'[c].answer \notin Outcomes
      BY <3>1 DEF Outcomes
    <3>4. QED
      BY <1>4, <2>4, <3>1, <3>2, <3>3
  <2>5. ASSUME d = c, NEW answer \in Outcomes \cup {"pending"}, Learns(c, r, answer)
        PROVE  /\ told'[c].answer = answer /\ ask'[c] = NoAsk
               /\ answer \in Outcomes =>
                    /\ task[r] = "over"
                    /\ \A i \in DOMAIN table : table[i].run = r => table[i].status = answer
    <3>1. told'[c].answer = answer /\ ask'[c] = NoAsk
      BY <2>5 DEF Learns
    <3>2. CASE \E i \in DOMAIN table : table[i].run = r /\ table[i].status = answer
      <4>1. PICK i \in DOMAIN table : table[i].run = r /\ table[i].status = answer
        BY <3>2
      <4>2. answer \in Outcomes => task[r] = "over"
        BY <4>1 DEF OutcomeInv, Outcomes
      <4>3. QED
        BY <1>5, <3>1, <4>1, <4>2
    <3>3. CASE ask[c].run = r /\ ask[c].status = answer
      BY <3>1, <3>3 DEF OutcomeInv, Outcomes
    <3>4. QED
      BY <2>5, <3>1, <3>2, <3>3 DEF Learns
  <2>6. d = c => \/ Waits(c)
                 \/ ask'[c] = NoAsk /\ told'[c] = told[c]
                 \/ FindsNone(c, r)
                 \/ \E answer \in Outcomes \cup {"pending"} : Learns(c, r, answer)
    BY <1>8, ClientSteps DEF FindsNone, Learns
  <2>7. "gone" \notin Outcomes \cup {"pending"}
    BY DEF Outcomes
  <2>8. QED
    BY <1>4, <2>1, <2>2, <2>3, <2>4, <2>5, <2>6, <2>7
<1>9. ToldInv'
  <2>1. \A d \in Clients, r \in Runs : told'[d].run = r =>
           /\ told'[d].answer \in Outcomes =>
                /\ task'[r] = "over"
                /\ \A j \in DOMAIN table' : table'[j].run = r => table'[j].status = told'[d].answer
                /\ ask'[d].run = r => ask'[d].status = told'[d].answer
           /\ told'[d].answer = "gone" =>
                /\ r \in Accepted'
                /\ \A j \in DOMAIN table' : table'[j].run = r => table'[j].status # "pending"
                /\ ask'[d].run = r => ask'[d].status # "pending"
    BY <1>1, <1>8
  <2>2. QED
    BY <2>1 DEF ToldInv
<1>10. QED
  BY <1>7, <1>9

LEMMA OutcomeStep ==
  ASSUME TableOK, StateOK, OutcomeInv, ToldInv, [Next]_vars
  PROVE  OutcomeInv' /\ ToldInv'
<1>0. \A i \in DOMAIN table : table[i].run \in Runs
  BY DEF TableOK, Accepted
<1>1. ASSUME NEW r \in Runs, TaskBegins(r) \/ Ends(r, "never")
      PROVE  OutcomeInv' /\ ToldInv'
  <2>1. /\ UNCHANGED <<table, askVars>> /\ Accepted \subseteq Accepted'
        /\ \A q \in Runs : task'[q] = "over" <=> task[q] = "over"
    BY <1>1 DEF TaskBegins, Ends, TaskEnds, StateOK, Accepted, Alive
  <2>2. QED
    BY <1>0, <2>1, QuietOutcomes
<1>2. CASE ServerStep \/ UNCHANGED vars
  <2>1. UNCHANGED <<table, askVars, task>> /\ Accepted' = Accepted
    BY <1>2, ServerQuiet DEF vars, runVars, Accepted
  <2>2. QED
    BY <1>0, <2>1, QuietOutcomes
<1>3. QED
  BY <1>1, <1>2, Steps, AcceptOutcomes, ReportOutcomes, ClientOutcomes

-----------------------------------------------------------------------------
(* Theorems                                                                *)

LEMMA InitIInv ==
  ASSUME Init
  PROVE  IInv
<1>1. /\ table = <<>> /\ task = [r \in Runs |-> "none"]
      /\ tracked = {} /\ doomed = {} /\ server = "down" /\ late = {}
      /\ \A c \in Clients : ask[c] = NoAsk /\ told[c] = [run |-> 0, answer |-> "pending"]
  BY DEF Init
<1>2. Accepted = {}
  BY <1>1 DEF Accepted
<1>3. TableOK
  <2>1. table \in Seq(Entry) /\ DOMAIN table = {} /\ Wholes(table) = {}
    BY <1>1 DEF Wholes
  <2>2. QED
    BY <2>1, FS_EmptySet DEF TableOK, OnceEach
<1>4. StateOK
  <2>1. [run |-> 0, answer |-> "pending"]
           \in [run : 0..MaxRuns, answer : Outcomes \cup {"pending", "gone"}]
    OBVIOUS
  <2>2. QED
    BY <1>1, <1>2, <2>1 DEF Init, StateOK
<1>5. TrackInv
  BY <1>2 DEF TrackInv
<1>6. OutcomeInv /\ ToldInv
  <2>1. \A r \in Runs : r # 0
    BY DEF Runs
  <2>2. QED
    BY <1>1, <2>1 DEF OutcomeInv, ToldInv, NoAsk
<1>7. QED
  BY <1>3, <1>4, <1>5, <1>6 DEF IInv

(* What the table holds and who is known to the server, for any number of  *)
(* runs, clients and entries.                                              *)
THEOREM APIInvariance == Spec => []IInv
<1>1. IInv /\ [Next]_vars => IInv'
  BY TableStep, StateStep, TrackStep, OutcomeStep DEF IInv
<1>2. QED
  BY InitIInv, <1>1, PTL DEF Spec

(* The table exceeds its bound only by entries written again after they    *)
(* had been evicted, and an id stands in it once.                          *)
THEOREM APITypeOK == Spec => []TypeOK
<1>1. ASSUME IInv PROVE TypeOK
  <2>1. TableOK /\ StateOK
    BY <1>1 DEF IInv
  <2>2. ASSUME NEW r \in Runs
        PROVE  Cardinality(At(r)) <= 1 /\ (At(r) # {} => r \in Accepted)
    <3>1. At(r) = {} \/ \E i : At(r) = {i}
      <4>1. \A i, j \in At(r) : i = j
        BY <2>1 DEF At, TableOK, OnceEach
      <4>2. QED
        BY <4>1
    <3>2. Cardinality(At(r)) <= 1
      <4>1. CASE At(r) = {}
        BY <4>1, FS_EmptySet
      <4>2. ASSUME NEW i, At(r) = {i} PROVE Cardinality(At(r)) = 1
        BY <4>2, FS_Singleton
      <4>3. QED
        BY <3>1, <4>1, <4>2
    <3>3. QED
      BY <2>1, <3>2 DEF At, TableOK
  <2>3. QED
    BY <2>1, <2>2 DEF TypeOK, TableOK, StateOK, Wholes
<1>2. QED
  BY APIInvariance, <1>1, PTL

(* When stop has returned, the runs it found are over and have an outcome, *)
(* whatever was accepted, evicted and written again meanwhile.             *)
THEOREM APIStopSettlesRuns == Spec => []StopSettlesRuns
<1>1. IInv => StopSettlesRuns
  <2> SUFFICES ASSUME IInv, server = "down", NEW r \in Accepted \ late
               PROVE  /\ ~Alive(r)
                      /\ task[r] = "over" => \A i \in At(r) : table[i].status # "pending"
    BY DEF StopSettlesRuns
  <2>1. ~Alive(r)
    BY DEF IInv, TrackInv
  <2>2. task[r] = "over" => \A i \in At(r) : table[i].status # "pending"
    BY DEF IInv, OutcomeInv, At
  <2>3. QED
    BY <2>1, <2>2
<1>2. QED
  BY APIInvariance, <1>1, PTL

(* A client that was told an outcome is told no other, and one that was    *)
(* told that a run is unknown is not told later that it is pending.        *)
THEOREM APIAnswersGoForward == Spec => AnswersGoForward
<1> DEFINE Forward(c) ==
      told'[c].run = told[c].run =>
        /\ told[c].answer \in Outcomes => told'[c].answer = told[c].answer
        /\ told[c].answer = "gone" => told'[c].answer # "pending"
<1>1. ASSUME IInv, [Next]_vars, NEW c \in Clients
      PROVE  Forward(c)
  <2>0. TableOK /\ StateOK /\ OutcomeInv /\ ToldInv
    BY <1>1 DEF IInv
  <2>1. CASE told'[c] = told[c]
    BY <2>1
  <2>2. ASSUME NEW d \in Clients, AnswerResult(d) \/ \E r \in Runs : AskResult(d, r), d # c
        PROVE  told'[c] = told[c]
    BY <2>0, <2>2, ClientSteps
  <2>3. ASSUME AnswerResult(c) \/ \E r \in Runs : AskResult(c, r), told'[c] # told[c],
               told'[c].run = told[c].run
        PROVE  Forward(c)
    <3>1. CASE \E r \in Runs : FindsNone(c, r)
      BY <2>3, <3>1 DEF FindsNone
    <3>2. ASSUME NEW r \in Runs, NEW answer \in Outcomes \cup {"pending"}, Learns(c, r, answer)
          PROVE  Forward(c)
      <4>1. told[c].run = r /\ told'[c].answer = answer
        BY <2>3, <3>2 DEF Learns
      <4>2. CASE \E i \in DOMAIN table : table[i].run = r /\ table[i].status = answer
        BY <2>0, <4>1, <4>2 DEF ToldInv
      <4>3. CASE ask[c].run = r /\ ask[c].status = answer
        BY <2>0, <4>1, <4>3 DEF ToldInv
      <4>4. QED
        BY <3>2, <4>2, <4>3 DEF Learns
    <3>3. QED
      BY <2>0, <2>3, <3>1, <3>2, ClientSteps DEF Waits
  <2>4. (\A r \in Runs : Accept(r) \/ TaskBegins(r) \/ Ends(r, "over") \/ Ends(r, "never")
            => told' = told)
        /\ (ServerStep \/ UNCHANGED vars => told' = told)
    BY ServerQuiet DEF Accept, TaskBegins, Ends, askVars, vars
  <2>5. QED
    BY <1>1, <2>0, <2>1, <2>2, <2>3, <2>4, Steps
<1>2. IInv /\ [Next]_vars => [\A c \in Clients : Forward(c)]_vars
  BY <1>1
<1>3. QED
  BY APIInvariance, <1>2, PTL DEF Spec, AnswersGoForward
=============================================================================
