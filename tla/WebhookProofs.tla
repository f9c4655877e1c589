--------------------------- MODULE WebhookProofs ----------------------------
(***************************************************************************)
(* Proofs about WebhookExecution for every number of requests, keys, cache *)
(* entries and attempts: its types, among them that a new lock can be made *)
(* whenever one is needed, and that requests of one key run the agent one  *)
(* at a time and no more often than one of them may.                       *)
(***************************************************************************)
EXTENDS WebhookExecution, FiniteSetTheorems, TLAPS

Runs(r, k) == Running(r) /\ key[r] = k
Distinct(s) == \A i, j \in DOMAIN s : s[i] = s[j] => i = j

Types ==
  /\ cache \in Seq(Keys) /\ Len(cache) <= MaxEntries
  /\ expired \subseteq Range(cache)
  /\ table \in [Keys -> Locks \cup {None}]
  /\ holder \in [Locks -> Requests \cup {None}]
  /\ waiters \in [Locks -> Seq(Requests)]
  /\ key \in [Requests -> Keys \cup {None}]
  /\ lockOf \in [Requests -> Locks \cup {None}]
  /\ stage \in [Requests -> {"idle", "waiting", "running"}]
  /\ attempt \in [Requests -> 0..MaxAttempts]
  /\ tries \in [Keys -> Nat]
  /\ lost \subseteq Keys

(* A locked lock is held by the running request that took it.              *)
HolderInv ==
  /\ \A l \in Locks : holder[l] # None => Running(holder[l]) /\ lockOf[holder[l]] = l
  /\ \A r \in Requests : Running(r) => lockOf[r] \in Locks /\ holder[lockOf[r]] = r

(* A request is queued once, at the lock it waits for and nowhere else.    *)
WaiterInv ==
  /\ \A l \in Locks : Distinct(waiters[l])
  /\ \A l \in Locks : \A r \in Range(waiters[l]) : stage[r] = "waiting" /\ lockOf[r] = l
  /\ \A r \in Requests : stage[r] = "waiting" =>
       lockOf[r] \in Locks /\ r \in Range(waiters[lockOf[r]])

(* An idle request has no lock, and the others have a key.                 *)
BusyInv ==
  /\ \A r \in Requests : stage[r] = "idle" => lockOf[r] = None
  /\ \A r \in Requests : stage[r] # "idle" => key[r] \in Keys

(* Every request of a key whose lock was not lost has the lock that is in  *)
(* the table.                                                              *)
TableInv == \A k \in Keys \ lost : \A r \in Requests :
  stage[r] # "idle" /\ key[r] = k => lockOf[r] = table[k]

(* The runs of a key are counted by the attempts of the request that runs  *)
(* it. Without such a request and without an entry it was never run.       *)
TriesInv == \A k \in Keys \ lost :
  /\ \A r \in Requests : Runs(r, k) => k \notin Range(cache) /\ tries[k] <= attempt[r]
  /\ (\A r \in Requests : ~Runs(r, k)) /\ k \notin Range(cache) => tries[k] = 0
  /\ tries[k] <= MaxAttempts

LockInv == HolderInv /\ WaiterInv /\ BusyInv

IInv == Types /\ LockInv /\ TableInv /\ Distinct(cache) /\ TriesInv

-----------------------------------------------------------------------------
(* Sequences and locks                                                     *)

(* What is left has the elements it should, none twice that was there once.*)
LEMMA WithoutFacts ==
  ASSUME NEW S, NEW s \in Seq(S), NEW D
  PROVE  LET t == Without(s, D)
         IN  /\ t \in Seq(S) /\ Len(t) <= Len(s)
             /\ Range(t) = Range(s) \ D
             /\ Distinct(s) => Distinct(t)
<1> DEFINE left == {i \in DOMAIN s : s[i] \notin D}
           upto(i) == {h \in left : h <= i}
           n == Cardinality(left)
           pick(j) == CHOOSE i \in left : Cardinality(upto(i)) = j
           t == Without(s, D)
<1>1. /\ left \subseteq DOMAIN s /\ left \subseteq 1..Len(s) /\ left \subseteq Nat
      /\ IsFiniteSet(left) /\ n \in Nat /\ n <= Len(s)
  <2>1. left \subseteq DOMAIN s /\ left \subseteq 1..Len(s) /\ left \subseteq Nat
    OBVIOUS
  <2>2. IsFiniteSet(1..Len(s)) /\ Cardinality(1..Len(s)) = Len(s)
    <3>1. /\ 1 \in Int /\ Len(s) \in Int
          /\ (1 > Len(s) <=> Len(s) = 0) /\ Len(s) - 1 + 1 = Len(s)
      OBVIOUS
    <3>2. QED
      BY <3>1, FS_Interval
  <2>3. IsFiniteSet(left) /\ n <= Len(s)
    BY <2>1, <2>2, FS_Subset
  <2>4. QED
    BY <2>1, <2>3, FS_CardinalityType
<1>2. t = [j \in 1..n |-> s[pick(j)]]
  BY DEF Without
<1>3. \A i \in left : s[i] \notin D
  OBVIOUS
<1>4. \A i \in DOMAIN s : s[i] \notin D => i \in left
  OBVIOUS
<1> HIDE DEF left, n, t
<1>5. ASSUME NEW i \in left
      PROVE  /\ upto(i) \in SUBSET left /\ i \in upto(i) /\ IsFiniteSet(upto(i))
             /\ Cardinality(upto(i)) \in 1..n
  <2>1. upto(i) \in SUBSET left /\ i \in upto(i)
    BY <1>1
  <2>2. IsFiniteSet(upto(i)) /\ Cardinality(upto(i)) <= n
    BY <1>1, <2>1, FS_Subset DEF n
  <2>3. Cardinality(upto(i)) \in Nat /\ Cardinality(upto(i)) # 0
    BY <2>1, <2>2, FS_CardinalityType, FS_EmptySet
  <2>4. QED
    BY <1>1, <2>1, <2>2, <2>3
<1>6. ASSUME NEW i \in left, NEW j \in left, i < j
      PROVE  Cardinality(upto(i)) # Cardinality(upto(j))
  <2>1. upto(i) \in SUBSET upto(j) /\ j \notin upto(i) /\ j \in upto(j)
    BY <1>1, <1>6
  <2>2. IsFiniteSet(upto(j))
    BY <1>5
  <2>3. QED
    BY <2>1, <2>2, FS_Subset
<1>7. ASSUME NEW i \in left, NEW j \in left, Cardinality(upto(i)) = Cardinality(upto(j))
      PROVE  i = j
  <2>1. i \in Nat /\ j \in Nat
    BY <1>1
  <2>2. ~(i < j) /\ ~(j < i)
    BY <1>6, <1>7
  <2>3. QED
    BY <2>1, <2>2
<1>8. ASSUME NEW j \in 1..n
      PROVE  \E i \in left : Cardinality(upto(i)) = j
  <2> SUFFICES ASSUME \A i \in left : Cardinality(upto(i)) # j
               PROVE  FALSE
    OBVIOUS
  <2> DEFINE place == [i \in left |-> Cardinality(upto(i))]
             others == (1..n) \ {j}
  <2>1. place \in [left -> others]
    BY <1>5
  <2>2. IsFiniteSet(1..n) /\ Cardinality(1..n) = n
    <3>1. 1 \in Int /\ n \in Int /\ (1 > n <=> n = 0) /\ n - 1 + 1 = n
      BY <1>1
    <3>2. QED
      BY <3>1, FS_Interval
  <2>3. IsFiniteSet(others) /\ Cardinality(others) = n - 1
    BY <2>2, FS_RemoveElement
  <2>4. Cardinality(others) < Cardinality(left)
    BY <1>1, <2>3 DEF n
  <2> HIDE DEF others
  <2>5. PICK h \in left, i \in left : h # i /\ place[h] = place[i]
    <3> HIDE DEF place
    <3>1. QED
      BY <1>1, <2>1, <2>3, <2>4, FS_PigeonHole
  <2>6. QED
    BY <1>7, <2>5
<1>9. ASSUME NEW j \in 1..n
      PROVE  pick(j) \in left /\ Cardinality(upto(pick(j))) = j
  BY <1>8
<1> HIDE DEF pick, upto
<1>10. t \in Seq(S) /\ Len(t) = n /\ DOMAIN t = 1..n /\ \A j \in 1..n : t[j] = s[pick(j)]
  <2>1. \A j \in 1..n : s[pick(j)] \in S
    BY <1>1, <1>9
  <2>2. QED
    BY <1>1, <1>2, <2>1
<1>11. Range(t) \subseteq Range(s) \ D
  <2> SUFFICES ASSUME NEW j \in 1..n PROVE t[j] \in Range(s) /\ t[j] \notin D
    BY <1>10 DEF Range
  <2>1. pick(j) \in left /\ t[j] = s[pick(j)]
    BY <1>9, <1>10
  <2>2. QED
    BY <1>1, <1>3, <2>1 DEF Range
<1>12. ASSUME NEW i \in DOMAIN s, s[i] \notin D
       PROVE  s[i] \in Range(t)
  <2>1. i \in left
    BY <1>4, <1>12
  <2> DEFINE j == Cardinality(upto(i))
  <2>2. j \in 1..n
    BY <1>5, <2>1
  <2>3. pick(j) = i
    BY <1>7, <1>9, <2>1, <2>2
  <2>4. t[j] = s[i]
    BY <1>10, <2>2, <2>3
  <2>5. QED
    BY <1>10, <2>2, <2>4 DEF Range
<1>13. Range(s) \ D \subseteq Range(t)
  BY <1>12 DEF Range
<1>14. ASSUME Distinct(s), NEW j \in 1..n, NEW k \in 1..n, t[j] = t[k]
       PROVE  j = k
  <2>1. /\ pick(j) \in DOMAIN s /\ pick(k) \in DOMAIN s
        /\ s[pick(j)] = s[pick(k)]
    BY <1>1, <1>9, <1>10, <1>14
  <2>2. pick(j) = pick(k)
    BY <1>14, <2>1 DEF Distinct
  <2>3. QED
    BY <1>9, <2>2
<1>15. QED
  BY <1>1, <1>10, <1>11, <1>13, <1>14 DEF Distinct, t

(* There is a lock for a new request: fewer are in use than there are.     *)
LEMMA LockForFacts ==
  ASSUME Types, BusyInv, NEW r \in Requests, stage[r] = "idle", NEW k \in Keys
  PROVE  LockFor(k) \in Locks
<1> DEFINE T == {table[j] : j \in Keys \ {k}}
           L == {lockOf[q] : q \in Requests \ {r}}
<1>1. CASE table[k] # None
  BY <1>1 DEF LockFor, Types
<1>2. ASSUME table[k] = None PROVE \E l \in Locks : l \notin InUse
  <2> SUFFICES ASSUME Locks \subseteq InUse PROVE FALSE
    OBVIOUS
  <2>1. InUse \subseteq T \cup L \cup {None}
    BY <1>2 DEF InUse, BusyInv
  <2>2. Locks \subseteq T \cup L
    BY <2>1, WebhookAssumption DEF Locks, Requests
  <2>3. IsFiniteSet(Keys \ {k}) /\ Cardinality(Keys \ {k}) = Cardinality(Keys) - 1
    BY WebhookAssumption, FS_RemoveElement
  <2>4. IsFiniteSet(Requests) /\ Cardinality(Requests) = MaxRequests
    <3>1. /\ 1 \in Int /\ MaxRequests \in Int
          /\ (1 > MaxRequests <=> MaxRequests = 0) /\ MaxRequests - 1 + 1 = MaxRequests
      BY WebhookAssumption
    <3>2. QED
      BY <3>1, FS_Interval DEF Requests
  <2>5. IsFiniteSet(Requests \ {r}) /\ Cardinality(Requests \ {r}) = MaxRequests - 1
    BY <2>4, FS_RemoveElement
  <2>6. IsFiniteSet(T) /\ Cardinality(T) <= Cardinality(Keys \ {k})
    <3> DEFINE f == [j \in Keys \ {k} |-> table[j]]
    <3>1. f \in Surjection(Keys \ {k}, T)
      BY DEF Surjection
    <3> HIDE DEF f, T
    <3>2. QED
      BY <2>3, <3>1, FS_Surjection
  <2>7. IsFiniteSet(L) /\ Cardinality(L) <= Cardinality(Requests \ {r})
    <3> DEFINE f == [q \in Requests \ {r} |-> lockOf[q]]
    <3>1. f \in Surjection(Requests \ {r}, L)
      BY DEF Surjection
    <3> HIDE DEF f, L
    <3>2. QED
      BY <2>5, <3>1, FS_Surjection
  <2> HIDE DEF T, L
  <2>8. /\ IsFiniteSet(T \cup L)
        /\ Cardinality(T \cup L) <= Cardinality(T) + Cardinality(L)
    <3>1. IsFiniteSet(T \cap L)
      BY <2>6, FS_Intersection
    <3>2. /\ Cardinality(T) \in Nat /\ Cardinality(L) \in Nat
          /\ Cardinality(T \cap L) \in Nat
      BY <2>6, <2>7, <3>1, FS_CardinalityType
    <3>3. /\ IsFiniteSet(T \cup L)
          /\ Cardinality(T \cup L) = Cardinality(T) + Cardinality(L) - Cardinality(T \cap L)
      BY <2>6, <2>7, FS_Union
    <3>4. QED
      BY <3>2, <3>3
  <2>9. Cardinality(Locks) = Cardinality(Keys) + MaxRequests
    <3>1. Keys \cap Requests = {}
      BY WebhookAssumption DEF Requests
    <3>2. Cardinality(Keys) \in Nat
      BY WebhookAssumption, FS_CardinalityType
    <3>3. /\ Cardinality(Keys \cup Requests) =
               Cardinality(Keys) + Cardinality(Requests) - Cardinality(Keys \cap Requests)
          /\ Cardinality(Keys \cap Requests) = 0
      BY <2>4, <3>1, WebhookAssumption, FS_Union, FS_EmptySet
    <3>4. QED
      BY <2>4, <3>2, <3>3, WebhookAssumption DEF Locks
  <2>10. Cardinality(Locks) <= Cardinality(T \cup L)
    BY <2>2, <2>8, FS_Subset
  <2>11. /\ Cardinality(T) \in Nat /\ Cardinality(L) \in Nat
         /\ Cardinality(Keys) \in Nat /\ Cardinality(T \cup L) \in Nat
    BY <2>6, <2>7, <2>8, WebhookAssumption, FS_CardinalityType
  <2>12. QED
    BY <2>3, <2>5, <2>6, <2>7, <2>8, <2>9, <2>10, <2>11, WebhookAssumption
<1>3. CASE table[k] = None
  <2>1. PICK l \in Locks : l \notin InUse
    BY <1>2, <1>3
  <2>2. k \in Locks
    BY DEF Locks
  <2>3. NewLock(k) \in Locks
    BY <2>1, <2>2 DEF NewLock
  <2>4. QED
    BY <1>3, <2>3 DEF LockFor
<1>4. QED
  BY <1>1, <1>3

-----------------------------------------------------------------------------
(* What the actions do to the requests and to the queues                   *)

(* A step of request r leaves the others as they are.                      *)
Others(r) == \A q \in Requests \ {r} :
  stage'[q] = stage[q] /\ key'[q] = key[q] /\ lockOf'[q] = lockOf[q] /\ attempt'[q] = attempt[q]

RequestTypes ==
  /\ key \in [Requests -> Keys \cup {None}]
  /\ lockOf \in [Requests -> Locks \cup {None}]
  /\ stage \in [Requests -> {"idle", "waiting", "running"}]
  /\ attempt \in [Requests -> 0..MaxAttempts]

LEMMA LeaveFacts ==
  ASSUME Types, NEW r \in Requests, Leave(r)
  PROVE  RequestTypes' /\ Others(r) /\ stage'[r] = "idle" /\ lockOf'[r] = None
<1>1. key \in [Requests -> Keys \cup {None}] /\ stage \in [Requests -> {"idle", "waiting", "running"}]
      /\ lockOf \in [Requests -> Locks \cup {None}] /\ attempt \in [Requests -> 0..MaxAttempts]
  BY DEF Types
<1>2. 0 \in 0..MaxAttempts
  BY WebhookAssumption
<1>3. QED
  BY <1>1, <1>2 DEF Leave, RequestTypes, Others

(* Begin, when there is no answer: the request holds the lock and runs.    *)
Starts(r, k, l) ==
  /\ ~Answered(k)
  /\ holder' = [holder EXCEPT ![l] = r]
  /\ cache' = Without(cache, {k})
  /\ expired' = expired \ {k}
  /\ CountTry(k, IF k \in expired THEN 1 ELSE tries[k] + 1)
  /\ key' = [key EXCEPT ![r] = k]
  /\ lockOf' = [lockOf EXCEPT ![r] = l]
  /\ stage' = [stage EXCEPT ![r] = "running"]
  /\ attempt' = [attempt EXCEPT ![r] = 1]

(* Begin, when there is one: the request is over.                          *)
IsAnswered(r) == Leave(r) /\ UNCHANGED <<holder, cacheVars, tries>>

(* Arrive, when the lock is not free: the request waits for it.            *)
Queues(r, k, l) ==
  /\ waiters' = [waiters EXCEPT ![l] = Append(@, r)]
  /\ key' = [key EXCEPT ![r] = k]
  /\ lockOf' = [lockOf EXCEPT ![r] = l]
  /\ stage' = [stage EXCEPT ![r] = "waiting"]
  /\ UNCHANGED <<holder, cacheVars, attempt, tries>>

LEMMA BeginCases ==
  ASSUME NEW r, NEW k, NEW l, Begin(r, k, l)
  PROVE  IsAnswered(r) \/ Starts(r, k, l)
BY DEF Begin, IsAnswered, Starts

(* Request r, which did not run, is in no queue any more: it was in none,  *)
(* or it is taken out of the one of its lock.                              *)
Dequeued(r) ==
  \/ stage[r] = "idle" /\ waiters' = waiters
  \/ stage[r] = "waiting" /\ waiters' = [waiters EXCEPT ![lockOf[r]] = Without(@, {r})]

LEMMA DequeuedFacts ==
  ASSUME Types, WaiterInv, NEW r \in Requests, Dequeued(r)
  PROVE  /\ waiters' \in [Locks -> Seq(Requests)]
         /\ \A l \in Locks : Distinct(waiters'[l]) /\ Range(waiters'[l]) = Range(waiters[l]) \ {r}
<1>1. /\ waiters \in [Locks -> Seq(Requests)]
      /\ \A l \in Locks : Distinct(waiters[l])
      /\ \A l \in Locks : \A q \in Range(waiters[l]) : stage[q] = "waiting" /\ lockOf[q] = l
  BY DEF Types, WaiterInv
<1>2. CASE stage[r] = "idle" /\ waiters' = waiters
  BY <1>1, <1>2
<1>3. CASE stage[r] = "waiting" /\ waiters' = [waiters EXCEPT ![lockOf[r]] = Without(@, {r})]
  <2> DEFINE l == lockOf[r]
             rest == Without(waiters[l], {r})
  <2>1. l \in Locks
    BY <1>3 DEF WaiterInv
  <2>2. /\ rest \in Seq(Requests) /\ Distinct(rest)
        /\ Range(rest) = Range(waiters[l]) \ {r}
    BY <1>1, <2>1, WithoutFacts
  <2>3. waiters'[l] = rest /\ \A m \in Locks \ {l} : waiters'[m] = waiters[m]
    BY <1>1, <1>3, <2>1
  <2>4. waiters' \in [Locks -> Seq(Requests)]
    <3> HIDE DEF rest
    <3>1. waiters' = [waiters EXCEPT ![l] = rest]
      BY <1>3 DEF rest
    <3>2. QED
      BY <1>1, <2>1, <2>2, <3>1
  <2>5. \A m \in Locks \ {l} : r \notin Range(waiters[m])
    BY <1>1
  <2> HIDE DEF rest
  <2>6. QED
    BY <1>1, <2>1, <2>2, <2>3, <2>4, <2>5
<1>4. QED
  BY <1>2, <1>3 DEF Dequeued

(* A request of a key whose lock was not lost is the only one to run.      *)
LEMMA OneRuns ==
  ASSUME LockInv, TableInv, NEW k \in Keys \ lost, NEW q \in Requests, NEW r \in Requests,
         Runs(q, k), Runs(r, k)
  PROVE  q = r
<1>1. lockOf[q] = table[k] /\ lockOf[r] = table[k]
  BY DEF TableInv, Runs, Running
<1>2. holder[lockOf[q]] = q /\ holder[lockOf[r]] = r
  BY DEF LockInv, HolderInv, Runs
<1>3. QED
  BY <1>1, <1>2

-----------------------------------------------------------------------------
(* Who holds a lock and who waits for it                                   *)

(* Somebody who did not run goes away.                                     *)
LEMMA QuitFacts ==
  ASSUME Types, LockInv, NEW r \in Requests, Leave(r), Dequeued(r), holder' = holder
  PROVE  LockInv'
<1>1. Others(r) /\ stage'[r] = "idle" /\ lockOf'[r] = None
  BY LeaveFacts
<1>2. \A l \in Locks : Distinct(waiters'[l]) /\ Range(waiters'[l]) = Range(waiters[l]) \ {r}
  BY DequeuedFacts DEF LockInv
<1>3. ~Running(r)
  BY DEF Dequeued, Running
<1>4. \A l \in Locks : holder[l] \in Requests \cup {None} /\ Range(waiters[l]) \subseteq Requests
  BY DEF Types, Range
<1>5. HolderInv'
  <2>1. ASSUME NEW l \in Locks, holder'[l] # None
        PROVE  Running(holder[l])' /\ lockOf'[holder'[l]] = l
    <3>1. Running(holder[l]) /\ lockOf[holder[l]] = l /\ holder[l] \in Requests
      BY <1>4, <2>1 DEF LockInv, HolderInv
    <3>2. QED
      BY <1>1, <1>3, <3>1 DEF Others, Running
  <2>2. ASSUME NEW q \in Requests, Running(q)'
        PROVE  lockOf'[q] \in Locks /\ holder'[lockOf'[q]] = q
    <3>1. q # r /\ Running(q)
      BY <1>1, <2>2 DEF Others, Running
    <3>2. QED
      BY <1>1, <3>1 DEF Others, LockInv, HolderInv
  <2>3. QED
    BY <2>1, <2>2 DEF HolderInv
<1>6. WaiterInv'
  <2>1. ASSUME NEW l \in Locks, NEW q \in Range(waiters'[l])
        PROVE  stage'[q] = "waiting" /\ lockOf'[q] = l
    BY <1>1, <1>2, <1>4 DEF Others, LockInv, WaiterInv
  <2>2. ASSUME NEW q \in Requests, stage'[q] = "waiting"
        PROVE  lockOf'[q] \in Locks /\ q \in Range(waiters'[lockOf'[q]])
    BY <1>1, <1>2, <2>2 DEF Others, LockInv, WaiterInv
  <2>3. QED
    BY <1>2, <2>1, <2>2 DEF WaiterInv
<1>7. BusyInv'
  BY <1>1 DEF BusyInv, LockInv, Others
<1>8. QED
  BY <1>5, <1>6, <1>7 DEF LockInv

(* Somebody who did not run takes a free lock.                             *)
LEMMA StartFacts ==
  ASSUME Types, LockInv, NEW r \in Requests, NEW k \in Keys, NEW l \in Locks,
         Starts(r, k, l), Dequeued(r), Unlocked(l)
  PROVE  /\ RequestTypes' /\ Others(r) /\ LockInv'
         /\ stage'[r] = "running" /\ lockOf'[r] = l /\ key'[r] = k /\ attempt'[r] = 1
<1>1. /\ RequestTypes' /\ Others(r)
      /\ stage'[r] = "running" /\ lockOf'[r] = l /\ key'[r] = k /\ attempt'[r] = 1
  <2>1. 1 \in 0..MaxAttempts
    BY WebhookAssumption
  <2>2. QED
    BY <2>1 DEF Starts, Types, RequestTypes, Others
<1>2. \A m \in Locks : Distinct(waiters'[m]) /\ Range(waiters'[m]) = Range(waiters[m]) \ {r}
  BY DequeuedFacts DEF LockInv
<1>3. ~Running(r) /\ holder[l] = None /\ r # None
  BY WebhookAssumption DEF Dequeued, Running, Unlocked, Requests
<1>4. \A m \in Locks : holder[m] \in Requests \cup {None} /\ Range(waiters[m]) \subseteq Requests
  BY DEF Types, Range
<1>5. holder'[l] = r /\ \A m \in Locks \ {l} : holder'[m] = holder[m]
  BY DEF Starts, Types
<1>6. HolderInv'
  <2>1. ASSUME NEW m \in Locks, holder'[m] # None
        PROVE  stage'[holder'[m]] = "running" /\ lockOf'[holder'[m]] = m
    <3>1. CASE m = l
      BY <1>1, <1>5, <3>1
    <3>2. CASE m # l
      <4>1. holder'[m] = holder[m] /\ holder[m] \in Requests
        BY <1>4, <1>5, <2>1, <3>2
      <4>2. Running(holder[m]) /\ lockOf[holder[m]] = m
        BY <2>1, <4>1 DEF LockInv, HolderInv
      <4>3. QED
        BY <1>1, <1>3, <4>1, <4>2 DEF Others, Running
    <3>3. QED
      BY <3>1, <3>2
  <2>2. ASSUME NEW q \in Requests, stage'[q] = "running"
        PROVE  lockOf'[q] \in Locks /\ holder'[lockOf'[q]] = q
    <3>1. CASE q = r
      BY <1>1, <1>5, <3>1
    <3>2. CASE q # r
      <4>1. Running(q) /\ lockOf'[q] = lockOf[q]
        BY <1>1, <2>2, <3>2 DEF Others, Running
      <4>2. lockOf[q] \in Locks /\ holder[lockOf[q]] = q
        BY <4>1 DEF LockInv, HolderInv
      <4>3. q # None
        BY WebhookAssumption DEF Requests
      <4>4. QED
        BY <1>3, <1>5, <4>1, <4>2, <4>3
    <3>3. QED
      BY <3>1, <3>2
  <2>3. QED
    BY <2>1, <2>2 DEF HolderInv, Running
<1>7. WaiterInv'
  <2>1. ASSUME NEW m \in Locks, NEW q \in Range(waiters'[m])
        PROVE  stage'[q] = "waiting" /\ lockOf'[q] = m
    BY <1>1, <1>2, <1>4 DEF Others, LockInv, WaiterInv
  <2>2. ASSUME NEW q \in Requests, stage'[q] = "waiting"
        PROVE  lockOf'[q] \in Locks /\ q \in Range(waiters'[lockOf'[q]])
    BY <1>1, <1>2, <2>2 DEF Others, LockInv, WaiterInv
  <2>3. QED
    BY <1>2, <2>1, <2>2 DEF WaiterInv
<1>8. BusyInv'
  BY <1>1 DEF BusyInv, LockInv, Others
<1>9. QED
  BY <1>1, <1>6, <1>7, <1>8 DEF LockInv

(* An idle request queues.                                                 *)
LEMMA QueueFacts ==
  ASSUME Types, LockInv, NEW r \in Requests, NEW k \in Keys, NEW l \in Locks,
         Queues(r, k, l), stage[r] = "idle"
  PROVE  /\ RequestTypes' /\ Others(r) /\ LockInv' /\ waiters' \in [Locks -> Seq(Requests)]
         /\ stage'[r] = "waiting" /\ lockOf'[r] = l /\ key'[r] = k
<1>1. /\ RequestTypes' /\ Others(r)
      /\ stage'[r] = "waiting" /\ lockOf'[r] = l /\ key'[r] = k
  BY DEF Queues, Types, RequestTypes, Others
<1>2. \A m \in Locks : waiters[m] \in Seq(Requests) /\ Range(waiters[m]) \subseteq Requests
  BY DEF Types, Range
<1>3. \A m \in Locks : r \notin Range(waiters[m])
  BY DEF LockInv, WaiterInv
<1> DEFINE longer == Append(waiters[l], r)
<1>4. longer \in Seq(Requests) /\ Distinct(longer) /\ Range(longer) = Range(waiters[l]) \cup {r}
  <2> DEFINE n == Len(waiters[l])
  <2>1. /\ n \in Nat /\ DOMAIN waiters[l] = 1..n /\ DOMAIN longer = 1..(n + 1)
        /\ longer \in Seq(Requests) /\ longer[n + 1] = r
        /\ \A i \in 1..n : longer[i] = waiters[l][i]
    BY <1>2
  <2> HIDE DEF longer, n
  <2>2. /\ \A i \in 1..(n + 1) : i \in 1..n \/ i = n + 1
        /\ n + 1 \in 1..(n + 1) /\ \A i \in 1..n : i \in 1..(n + 1)
    BY <2>1
  <2>3. \A i \in 1..n : waiters[l][i] # r
    BY <1>3, <2>1 DEF Range
  <2>4. Distinct(waiters[l])
    BY DEF LockInv, WaiterInv
  <2>5. Distinct(longer)
    BY <2>1, <2>2, <2>3, <2>4 DEF Distinct
  <2>6. Range(longer) \subseteq Range(waiters[l]) \cup {r}
    BY <2>1, <2>2 DEF Range
  <2>7. Range(waiters[l]) \cup {r} \subseteq Range(longer)
    BY <2>1, <2>2 DEF Range
  <2>8. QED
    BY <2>1, <2>5, <2>6, <2>7
<1>5. waiters' = [waiters EXCEPT ![l] = longer]
  BY DEF Queues
<1> HIDE DEF longer
<1>6. /\ waiters' \in [Locks -> Seq(Requests)]
      /\ waiters'[l] = longer /\ \A m \in Locks \ {l} : waiters'[m] = waiters[m]
  BY <1>4, <1>5 DEF Types
<1>7. HolderInv'
  <2>1. \A m \in Locks : holder[m] \in Requests \cup {None}
    BY DEF Types
  <2>2. holder' = holder /\ ~Running(r)
    BY DEF Queues, Running
  <2>3. QED
    BY <1>1, <2>1, <2>2 DEF Others, LockInv, HolderInv, Running
<1>8. WaiterInv'
  <2>1. \A m \in Locks : Distinct(waiters'[m])
    BY <1>4, <1>6 DEF LockInv, WaiterInv
  <2>2. ASSUME NEW m \in Locks, NEW q \in Range(waiters'[m])
        PROVE  stage'[q] = "waiting" /\ lockOf'[q] = m
    <3>1. CASE q = r
      BY <1>1, <1>3, <1>6, <2>2, <3>1
    <3>2. CASE q # r
      <4>1. q \in Range(waiters[m]) /\ q \in Requests
        BY <1>2, <1>4, <1>6, <2>2, <3>2
      <4>2. QED
        BY <1>1, <3>2, <4>1 DEF Others, LockInv, WaiterInv
    <3>3. QED
      BY <3>1, <3>2
  <2>3. ASSUME NEW q \in Requests, stage'[q] = "waiting"
        PROVE  lockOf'[q] \in Locks /\ q \in Range(waiters'[lockOf'[q]])
    <3>1. CASE q = r
      BY <1>1, <1>4, <1>6, <3>1
    <3>2. CASE q # r
      <4>1. lockOf'[q] = lockOf[q] /\ lockOf[q] \in Locks /\ q \in Range(waiters[lockOf[q]])
        BY <1>1, <2>3, <3>2 DEF Others, LockInv, WaiterInv
      <4>2. QED
        BY <1>4, <1>6, <4>1
    <3>3. QED
      BY <3>1, <3>2
  <2>4. QED
    BY <2>1, <2>2, <2>3 DEF WaiterInv
<1>9. BusyInv'
  BY <1>1 DEF BusyInv, LockInv, Others
<1>10. QED
  BY <1>1, <1>6, <1>7, <1>8, <1>9 DEF LockInv

(* The request that runs releases the lock.                                *)
LEMMA ReleaseFacts ==
  ASSUME Types, LockInv, NEW r \in Requests, Running(r), Release(r)
  PROVE  /\ holder' \in [Locks -> Requests \cup {None}]
         /\ LockInv'
<1>1. Others(r) /\ stage'[r] = "idle" /\ lockOf'[r] = None
  BY LeaveFacts DEF Release
<1>2. lockOf[r] \in Locks /\ holder[lockOf[r]] = r
  BY DEF LockInv, HolderInv
<1>3. /\ holder' \in [Locks -> Requests \cup {None}]
      /\ holder'[lockOf[r]] = None
      /\ \A l \in Locks \ {lockOf[r]} : holder'[l] = holder[l]
  BY <1>2 DEF Release, Types
<1>4. HolderInv'
  <2>1. ASSUME NEW l \in Locks, holder'[l] # None
        PROVE  stage'[holder'[l]] = "running" /\ lockOf'[holder'[l]] = l
    <3>1. l # lockOf[r] /\ holder'[l] = holder[l] /\ holder[l] \in Requests
      BY <1>3, <2>1 DEF Types
    <3>2. Running(holder[l]) /\ lockOf[holder[l]] = l
      BY <2>1, <3>1 DEF LockInv, HolderInv
    <3>3. QED
      BY <1>1, <3>1, <3>2 DEF Others, Running
  <2>2. ASSUME NEW q \in Requests, stage'[q] = "running"
        PROVE  lockOf'[q] \in Locks /\ holder'[lockOf'[q]] = q
    <3>1. q # r /\ Running(q) /\ lockOf'[q] = lockOf[q]
      BY <1>1, <2>2 DEF Others, Running
    <3>2. lockOf[q] \in Locks /\ holder[lockOf[q]] = q
      BY <3>1 DEF LockInv, HolderInv
    <3>3. QED
      BY <1>2, <1>3, <3>1, <3>2
  <2>3. QED
    BY <2>1, <2>2 DEF HolderInv, Running
<1>5. WaiterInv'
  <2>1. waiters' = waiters /\ \A l \in Locks : r \notin Range(waiters[l])
    BY DEF Release, LockInv, WaiterInv, Running
  <2>2. \A l \in Locks : Range(waiters[l]) \subseteq Requests
    BY DEF Types, Range
  <2>3. QED
    BY <1>1, <2>1, <2>2 DEF LockInv, WaiterInv, Others
<1>6. BusyInv'
  BY <1>1 DEF BusyInv, LockInv, Others
<1>7. QED
  BY <1>3, <1>4, <1>5, <1>6 DEF LockInv

-----------------------------------------------------------------------------
(* The cache and the table                                                 *)

(* The newest entries are kept, the recorded one among what they are of.   *)
LEMMA WithEntryFacts ==
  ASSUME Types, Distinct(cache), NEW k \in Keys
  PROVE  /\ WithEntry(k) \in Seq(Keys) /\ Distinct(WithEntry(k))
         /\ Range(WithEntry(k)) = Range(cache) \cup {k}
<1>1. CASE k \in Range(cache)
  BY <1>1 DEF WithEntry, Types
<1>2. CASE k \notin Range(cache)
  <2> DEFINE n == Len(cache)
             t == Append(cache, k)
  <2>1. /\ n \in Nat /\ DOMAIN cache = 1..n /\ DOMAIN t = 1..(n + 1)
        /\ t \in Seq(Keys) /\ t[n + 1] = k
        /\ \A i \in 1..n : t[i] = cache[i]
    BY DEF Types
  <2>2. WithEntry(k) = t
    BY <1>2 DEF WithEntry
  <2> HIDE DEF t, n
  <2>3. /\ \A i \in 1..(n + 1) : i \in 1..n \/ i = n + 1
        /\ n + 1 \in 1..(n + 1) /\ \A i \in 1..n : i \in 1..(n + 1)
    BY <2>1
  <2>4. \A i \in 1..n : cache[i] # k
    BY <1>2, <2>1 DEF Range
  <2>5. Distinct(t)
    BY <2>1, <2>3, <2>4 DEF Distinct
  <2>6. Range(t) \subseteq Range(cache) \cup {k}
    BY <2>1, <2>3 DEF Range
  <2>7. Range(cache) \cup {k} \subseteq Range(t)
    BY <2>1, <2>3 DEF Range
  <2>8. QED
    BY <2>1, <2>2, <2>5, <2>6, <2>7
<1>3. QED
  BY <1>1, <1>2

(* The last elements of a sequence, as many as there may be.               *)
LEMMA NewestFacts ==
  ASSUME NEW S, NEW s \in Seq(S), Distinct(s), NEW m \in Nat
  PROVE  LET excess == IF Len(s) > m THEN Len(s) - m ELSE 0
             t == SubSeq(s, excess + 1, Len(s))
         IN  t \in Seq(S) /\ Len(t) <= m /\ Distinct(t) /\ Range(t) \subseteq Range(s)
<1> DEFINE excess == IF Len(s) > m THEN Len(s) - m ELSE 0
           t == SubSeq(s, excess + 1, Len(s))
<1>1. excess \in 0..Len(s) /\ Len(s) - excess <= m
  OBVIOUS
<1> HIDE DEF excess
<1>2. /\ t \in Seq(S) /\ Len(t) = Len(s) - excess
      /\ \A i \in 1..Len(t) : t[i] = s[excess + i] /\ excess + i \in DOMAIN s
  BY <1>1
<1>3. \A i, j \in 1..Len(t) : excess + i = excess + j => i = j
  BY <1>1
<1> HIDE DEF t
<1>4. Distinct(t)
  <2> SUFFICES ASSUME NEW i \in 1..Len(t), NEW j \in 1..Len(t), t[i] = t[j]
               PROVE  i = j
    BY <1>2 DEF Distinct
  <2>1. /\ s[excess + i] = s[excess + j]
        /\ excess + i \in DOMAIN s /\ excess + j \in DOMAIN s
    BY <1>2
  <2>2. excess + i = excess + j
    BY <2>1 DEF Distinct
  <2>3. QED
    BY <1>3, <2>2
<1>5. Range(t) \subseteq Range(s)
  BY <1>2 DEF Range
<1>6. QED
  BY <1>1, <1>2, <1>4, <1>5 DEF t, excess

(* An entry that is gone took the count of its key with it, and a lock that*)
(* is gone was not locked and had no waiters, or it is lost.               *)
LEMMA RecordFacts ==
  ASSUME Types, Distinct(cache), NEW k \in Keys, RecordIdempotency(k)
  PROVE  /\ cache' \in Seq(Keys) /\ Len(cache') <= MaxEntries /\ Distinct(cache')
         /\ Range(cache') \subseteq Range(cache) \cup {k}
         /\ expired' = {}
         /\ table' \in [Keys -> Locks \cup {None}]
         /\ lost' \subseteq Keys /\ lost \subseteq lost'
         /\ tries' \in [Keys -> Nat]
         /\ \A j \in Keys \ lost' :
              \/ table'[j] = table[j]
              \/ table[j] # None /\ Unlocked(table[j]) /\ waiters[table[j]] = <<>>
         /\ \A j \in Keys \ lost' :
              tries'[j] = IF j \in (Range(cache) \cup {k}) \ Range(cache') THEN 0 ELSE tries[j]
<1> DEFINE alive == Without(WithEntry(k), expired \ {k})
           excess == IF Len(alive) > MaxEntries THEN Len(alive) - MaxEntries ELSE 0
           kept == SubSeq(alive, excess + 1, Len(alive))
           forgotten == Range(WithEntry(k)) \ Range(kept)
           first == {j \in forgotten : MayRemove(table[j])}
           left == {j \in Keys \ first : table[j] # None}
           second == IF Cardinality(left) <= 2 * MaxEntries THEN {}
                     ELSE {j \in left \ Range(kept) : MayRemove(table[j])}
           removed == first \cup second
           losing == {j \in removed : waiters[table[j]] # <<>>}
<1>1. /\ WithEntry(k) \in Seq(Keys) /\ Distinct(WithEntry(k))
      /\ Range(WithEntry(k)) = Range(cache) \cup {k}
  BY WithEntryFacts
<1>2. /\ alive \in Seq(Keys) /\ Distinct(alive)
      /\ Range(alive) \subseteq Range(WithEntry(k))
  BY <1>1, WithoutFacts
<1>3. /\ cache' = kept /\ expired' = {}
      /\ table' = [j \in Keys |-> IF j \in removed THEN None ELSE table[j]]
      /\ lost' = lost \cup losing
      /\ tries' = [j \in Keys |-> IF j \in forgotten \cup losing THEN 0 ELSE tries[j]]
  BY DEF RecordIdempotency
<1>4. Range(WithEntry(k)) \subseteq Keys
  BY <1>1 DEF Range
<1>5. removed \subseteq Keys /\ \A j \in removed : MayRemove(table[j])
  BY <1>4
<1>6. losing \subseteq removed /\ \A j \in removed \ losing : waiters[table[j]] = <<>>
  OBVIOUS
<1>7. forgotten = Range(WithEntry(k)) \ Range(kept)
  OBVIOUS
<1> HIDE DEF removed, losing, forgotten, alive
<1>8. /\ kept \in Seq(Keys) /\ Len(kept) <= MaxEntries /\ Distinct(kept)
      /\ Range(kept) \subseteq Range(alive)
  BY <1>2, NewestFacts, WebhookAssumption
<1> HIDE DEF kept
<1>9. /\ table' \in [Keys -> Locks \cup {None}]
      /\ lost' \subseteq Keys /\ lost \subseteq lost'
      /\ tries' \in [Keys -> Nat]
  BY <1>3, <1>5, <1>6 DEF Types
<1>10. ASSUME NEW j \in Keys \ lost'
       PROVE  /\ \/ table'[j] = table[j]
                 \/ table[j] # None /\ Unlocked(table[j]) /\ waiters[table[j]] = <<>>
              /\ tries'[j] = IF j \in (Range(cache) \cup {k}) \ Range(cache') THEN 0 ELSE tries[j]
  <2>1. j \notin losing /\ j \notin lost
    BY <1>3
  <2>2. \/ table'[j] = table[j]
        \/ table[j] # None /\ Unlocked(table[j]) /\ waiters[table[j]] = <<>>
    BY <1>3, <1>5, <1>6, <2>1 DEF MayRemove
  <2>3. tries'[j] = IF j \in forgotten THEN 0 ELSE tries[j]
    BY <1>3, <2>1
  <2>4. forgotten = (Range(cache) \cup {k}) \ Range(cache')
    BY <1>1, <1>3, <1>7
  <2>5. QED
    BY <2>2, <2>3, <2>4
<1>11. QED
  BY <1>1, <1>2, <1>3, <1>8, <1>9, <1>10

-----------------------------------------------------------------------------
(* The actions                                                             *)

(* The table still has the lock of every request, whatever is new in it.   *)
TableKeeps == \A k \in Keys \ lost : \A r \in Requests :
  stage[r] # "idle" /\ key[r] = k => lockOf[r] = table'[k]

(* A request that did not run is answered, or gives up.                    *)
LEMMA AnsweredStep ==
  ASSUME IInv, NEW r \in Requests, IsAnswered(r), Dequeued(r), lost' = lost,
         table' \in [Keys -> Locks \cup {None}], TableKeeps
  PROVE  IInv'
<1>0. Types /\ LockInv /\ TableInv /\ Distinct(cache) /\ TriesInv
  BY DEF IInv
<1>1. Leave(r) /\ holder' = holder /\ cache' = cache /\ expired' = expired /\ tries' = tries
  BY DEF IsAnswered, cacheVars
<1>2. RequestTypes' /\ Others(r) /\ stage'[r] = "idle"
  BY <1>0, <1>1, LeaveFacts
<1>3. LockInv'
  BY <1>0, <1>1, QuitFacts
<1>4. waiters' \in [Locks -> Seq(Requests)]
  BY <1>0, DequeuedFacts DEF LockInv
<1>5. Types'
  BY <1>0, <1>1, <1>2, <1>4 DEF Types, RequestTypes
<1>6. TableInv'
  BY <1>2 DEF TableInv, TableKeeps, Others
<1>7. TriesInv'
  <2>1. ASSUME NEW q \in Requests, NEW k PROVE Runs(q, k)' <=> Runs(q, k)
    <3>1. CASE q = r
      BY <1>2, <3>1 DEF Runs, Running, Dequeued
    <3>2. CASE q # r
      BY <1>2, <3>2 DEF Runs, Running, Others
    <3>3. QED
      BY <3>1, <3>2
  <2>2. ASSUME NEW q \in Requests, NEW k, Runs(q, k) PROVE attempt'[q] = attempt[q]
    <3>1. q # r
      BY <2>2 DEF Runs, Running, Dequeued
    <3>2. QED
      BY <1>2, <3>1 DEF Others
  <2>3. QED
    BY <1>0, <1>1, <2>1, <2>2 DEF TriesInv
<1>8. QED
  BY <1>0, <1>1, <1>3, <1>5, <1>6, <1>7 DEF IInv, Distinct

(* A request that did not run takes the lock of its key and runs: nobody   *)
(* else does if the lock was not lost, and nothing is known of the key.    *)
LEMMA StartStep ==
  ASSUME IInv, NEW r \in Requests, NEW k \in Keys, NEW l \in Locks,
         Starts(r, k, l), Dequeued(r), Unlocked(l), lost' = lost,
         table' \in [Keys -> Locks \cup {None}], TableKeeps,
         k \notin lost => table'[k] = l
  PROVE  IInv'
<1>0. Types /\ LockInv /\ TableInv /\ Distinct(cache) /\ TriesInv
  BY DEF IInv
<1>1. /\ RequestTypes' /\ Others(r) /\ LockInv'
      /\ stage'[r] = "running" /\ lockOf'[r] = l /\ key'[r] = k /\ attempt'[r] = 1
  BY <1>0, StartFacts
<1>2. waiters' \in [Locks -> Seq(Requests)]
  BY <1>0, DequeuedFacts DEF LockInv
<1>3. /\ cache \in Seq(Keys) /\ Len(cache) <= MaxEntries
      /\ expired \subseteq Range(cache) /\ tries \in [Keys -> Nat]
  BY <1>0 DEF Types
<1>4. /\ cache' \in Seq(Keys) /\ Distinct(cache')
      /\ Range(cache') = Range(cache) \ {k} /\ Len(cache') <= Len(cache)
  BY <1>0, <1>3, WithoutFacts DEF Starts
<1>5. Len(cache') <= MaxEntries
  BY <1>3, <1>4, WebhookAssumption
<1>6. /\ tries' \in [Keys -> Nat]
      /\ \A j \in Keys \ {k} : tries'[j] = tries[j]
      /\ k \notin lost => tries'[k] = IF k \in expired THEN 1 ELSE tries[k] + 1
  BY <1>3 DEF Starts, CountTry
<1>7. holder' \in [Locks -> Requests \cup {None}]
  BY <1>0 DEF Types, Starts
<1>8. Types'
  <2>1. expired' \subseteq Range(cache')
    BY <1>3, <1>4 DEF Starts
  <2>2. lost' \subseteq Keys
    BY <1>0 DEF Types
  <2>3. QED
    BY <1>1, <1>2, <1>4, <1>5, <1>6, <1>7, <2>1, <2>2 DEF Types, RequestTypes
<1>9. TableInv'
  BY <1>1 DEF TableInv, TableKeeps, Others
<1>10. ASSUME k \notin lost, NEW q \in Requests PROVE ~Runs(q, k)
  <2> SUFFICES ASSUME Runs(q, k) PROVE FALSE
    OBVIOUS
  <2>1. lockOf[q] = l
    BY <1>10 DEF TableKeeps, Runs, Running
  <2>2. holder[l] = q /\ q # None
    BY <1>0, <2>1, WebhookAssumption DEF LockInv, HolderInv, Runs, Requests
  <2>3. QED
    BY <2>2 DEF Unlocked
<1>11. TriesInv'
  <2>1. ASSUME NEW q \in Requests, NEW j \in Keys, j # k \/ q # r
        PROVE  Runs(q, j)' <=> Runs(q, j)
    <3>1. CASE q = r
      BY <1>1, <2>1, <3>1 DEF Runs, Running, Dequeued
    <3>2. CASE q # r
      BY <1>1, <3>2 DEF Runs, Running, Others
    <3>3. QED
      BY <3>1, <3>2
  <2>2. ASSUME NEW q \in Requests, q # r PROVE attempt'[q] = attempt[q]
    BY <1>1, <2>2 DEF Others
  <2>3. ASSUME NEW j \in Keys \ lost, j # k
        PROVE  /\ \A q \in Requests : Runs(q, j)' => j \notin Range(cache') /\ tries'[j] <= attempt'[q]
               /\ (\A q \in Requests : ~Runs(q, j)') /\ j \notin Range(cache') => tries'[j] = 0
               /\ tries'[j] <= MaxAttempts
    <3>1. \A q \in Requests : Runs(q, j)' <=> Runs(q, j)
      BY <2>1, <2>3
    <3>2. \A q \in Requests : Runs(q, j)' => q # r
      BY <1>1, <2>3 DEF Runs
    <3>3. tries'[j] = tries[j] /\ (j \in Range(cache') <=> j \in Range(cache))
      BY <1>4, <1>6, <2>3
    <3>4. QED
      BY <1>0, <2>2, <2>3, <3>1, <3>2, <3>3 DEF TriesInv
  <2>4. ASSUME k \notin lost
        PROVE  /\ \A q \in Requests : Runs(q, k)' => k \notin Range(cache') /\ tries'[k] <= attempt'[q]
               /\ (\A q \in Requests : ~Runs(q, k)') /\ k \notin Range(cache') => tries'[k] = 0
               /\ tries'[k] <= MaxAttempts
    <3>1. k \in Range(cache) => k \in expired
      BY DEF Starts, Answered, Live
    <3>2. k \notin Range(cache) => tries[k] = 0
      BY <1>0, <1>10, <2>4 DEF TriesInv
    <3>3. tries'[k] = 1
      BY <1>6, <2>4, <3>1, <3>2
    <3>4. \A q \in Requests : Runs(q, k)' => q = r
      BY <1>10, <2>1, <2>4
    <3>5. Runs(r, k)' /\ k \notin Range(cache')
      BY <1>1, <1>4 DEF Runs, Running
    <3>6. QED
      BY <1>1, <3>3, <3>4, <3>5, WebhookAssumption
  <2>5. QED
    BY <2>3, <2>4 DEF TriesInv
<1>12. QED
  BY <1>1, <1>4, <1>8, <1>9, <1>11 DEF IInv

LEMMA ArriveStep ==
  ASSUME IInv, NEW r \in Requests, NEW k \in Keys, Arrive(r, k)
  PROVE  IInv'
<1> DEFINE l == LockFor(k)
<1>0. Types /\ LockInv /\ TableInv /\ Distinct(cache) /\ TriesInv
  BY DEF IInv
<1>1. /\ stage[r] = "idle" /\ lost' = lost
      /\ table' = [table EXCEPT ![k] = l]
  BY DEF Arrive
<1>2. l \in Locks
  BY <1>0, <1>1, LockForFacts DEF LockInv
<1>3. \/ (IsAnswered(r) \/ Starts(r, k, l)) /\ waiters' = waiters /\ Unlocked(l)
      \/ Queues(r, k, l)
  <2>1. CASE Unlocked(l) /\ waiters[l] = <<>>
    <3>1. Begin(r, k, l) /\ waiters' = waiters
      BY <2>1 DEF Arrive
    <3>2. QED
      BY <2>1, <3>1, BeginCases
  <2>2. CASE ~(Unlocked(l) /\ waiters[l] = <<>>)
    BY <2>2 DEF Arrive, Queues
  <2>3. QED
    BY <2>1, <2>2
<1> HIDE DEF l
<1>4. /\ table' \in [Keys -> Locks \cup {None}]
      /\ table'[k] = l /\ \A j \in Keys \ {k} : table'[j] = table[j]
  BY <1>0, <1>1, <1>2 DEF Types
<1>5. TableKeeps
  <2> SUFFICES ASSUME NEW j \in Keys \ lost, NEW q \in Requests,
                      stage[q] # "idle", key[q] = j
               PROVE  lockOf[q] = table'[j]
    BY DEF TableKeeps
  <2>1. lockOf[q] = table[j]
    BY <1>0 DEF TableInv
  <2>2. lockOf[q] \in Locks
    <3>1. stage[q] = "waiting" \/ stage[q] = "running"
      BY <1>0 DEF Types
    <3>2. QED
      BY <1>0, <3>1 DEF LockInv, HolderInv, WaiterInv, Running
  <2>3. table[j] # None
    BY <2>1, <2>2, WebhookAssumption DEF Locks, Requests
  <2>4. QED
    BY <1>4, <2>1, <2>3 DEF l, LockFor
<1>6. CASE IsAnswered(r) /\ waiters' = waiters
  BY <1>1, <1>4, <1>5, <1>6, AnsweredStep DEF Dequeued
<1>7. CASE Starts(r, k, l) /\ waiters' = waiters /\ Unlocked(l)
  BY <1>1, <1>2, <1>4, <1>5, <1>7, StartStep DEF Dequeued
<1>8. CASE Queues(r, k, l)
  <2>1. /\ RequestTypes' /\ Others(r) /\ LockInv' /\ waiters' \in [Locks -> Seq(Requests)]
        /\ stage'[r] = "waiting" /\ lockOf'[r] = l /\ key'[r] = k
    BY <1>0, <1>1, <1>2, <1>8, QueueFacts
  <2>2. /\ holder' = holder /\ cache' = cache /\ expired' = expired /\ tries' = tries
        /\ attempt' = attempt
    BY <1>8 DEF Queues, cacheVars
  <2>3. Types'
    BY <1>0, <1>1, <1>4, <2>1, <2>2 DEF Types, RequestTypes
  <2>4. TableInv'
    BY <1>1, <1>4, <1>5, <2>1 DEF TableInv, TableKeeps, Others
  <2>5. ASSUME NEW q \in Requests, NEW j PROVE Runs(q, j)' <=> Runs(q, j)
    <3>1. CASE q = r
      BY <1>1, <2>1, <3>1 DEF Runs, Running
    <3>2. CASE q # r
      BY <2>1, <3>2 DEF Runs, Running, Others
    <3>3. QED
      BY <3>1, <3>2
  <2>6. TriesInv'
    BY <1>0, <1>1, <2>2, <2>5 DEF TriesInv
  <2>7. QED
    BY <1>0, <2>1, <2>2, <2>3, <2>4, <2>6 DEF IInv, Distinct
<1>9. QED
  BY <1>3, <1>6, <1>7, <1>8

LEMMA WakeStep ==
  ASSUME IInv, NEW r \in Requests, Wake(r)
  PROVE  IInv'
<1> DEFINE l == lockOf[r]
           k == key[r]
<1>0. Types /\ LockInv /\ TableInv
  BY DEF IInv
<1>1. /\ stage[r] = "waiting" /\ Unlocked(l)
      /\ waiters' = [waiters EXCEPT ![l] = Without(@, {r})]
      /\ Begin(r, k, l) /\ table' = table /\ lost' = lost
  BY DEF Wake, Awake
<1>2. Dequeued(r)
  BY <1>1 DEF Dequeued
<1>3. k \in Keys /\ l \in Locks
  BY <1>0, <1>1 DEF LockInv, BusyInv, WaiterInv
<1>4. TableKeeps /\ table' \in [Keys -> Locks \cup {None}]
  BY <1>0, <1>1 DEF TableInv, TableKeeps, Types
<1>5. k \notin lost => table'[k] = l
  BY <1>1, <1>3, <1>4 DEF TableKeeps
<1> HIDE DEF l, k
<1>6. CASE IsAnswered(r)
  BY <1>1, <1>2, <1>4, <1>6, AnsweredStep
<1>7. CASE Starts(r, k, l)
  BY <1>1, <1>2, <1>3, <1>4, <1>5, <1>7, StartStep
<1>8. QED
  BY <1>1, <1>6, <1>7, BeginCases

LEMMA RetryStep ==
  ASSUME IInv, NEW r \in Requests, Retry(r)
  PROVE  IInv'
<1> DEFINE k == key[r]
<1>0. Types /\ LockInv /\ TableInv /\ Distinct(cache) /\ TriesInv
  BY DEF IInv
<1>1. /\ Running(r) /\ attempt[r] < MaxAttempts
      /\ attempt' = [attempt EXCEPT ![r] = attempt[r] + 1]
      /\ tries' = [tries EXCEPT ![k] = IF k \in lost THEN 0 ELSE tries[k] + 1]
      /\ UNCHANGED <<cacheVars, lockVars, key, lockOf, stage, lost>>
  BY DEF Retry, CountTry
<1>2. k \in Keys
  BY <1>0, <1>1 DEF LockInv, BusyInv, Running
<1> HIDE DEF k
<1>3. /\ attempt \in [Requests -> 0..MaxAttempts] /\ tries \in [Keys -> Nat]
      /\ MaxAttempts \in Nat
  BY <1>0, WebhookAssumption DEF Types
<1>4. attempt[r] + 1 \in 0..MaxAttempts
  BY <1>1, <1>3
<1>5. /\ attempt' \in [Requests -> 0..MaxAttempts] /\ attempt'[r] = attempt[r] + 1
      /\ \A q \in Requests \ {r} : attempt'[q] = attempt[q]
  BY <1>1, <1>3, <1>4
<1>6. /\ tries' \in [Keys -> Nat]
      /\ \A j \in Keys \ {k} : tries'[j] = tries[j]
      /\ k \notin lost => tries'[k] = tries[k] + 1
  BY <1>1, <1>2, <1>3
<1>7. Types'
  BY <1>0, <1>1, <1>5, <1>6 DEF Types, cacheVars, lockVars
<1>8. LockInv' /\ TableInv' /\ Distinct(cache)'
  BY <1>0, <1>1 DEF LockInv, HolderInv, WaiterInv, BusyInv, TableInv, Distinct, Running,
                    cacheVars, lockVars
<1>9. \A q \in Requests : \A j : Runs(q, j)' <=> Runs(q, j)
  BY <1>1 DEF Runs, Running
<1>10. TriesInv'
  <2> SUFFICES ASSUME NEW j \in Keys \ lost
               PROVE  /\ \A q \in Requests : Runs(q, j) => j \notin Range(cache) /\ tries'[j] <= attempt'[q]
                      /\ (\A q \in Requests : ~Runs(q, j)) /\ j \notin Range(cache) => tries'[j] = 0
                      /\ tries'[j] <= MaxAttempts
    BY <1>1, <1>9 DEF TriesInv, cacheVars
  <2>1. CASE j = k
    <3>1. Runs(r, k)
      BY <1>1 DEF Runs, k
    <3>2. \A q \in Requests : Runs(q, k) => q = r
      BY <1>0, <2>1, <3>1, OneRuns
    <3>3. tries'[k] <= attempt'[r] /\ attempt'[r] <= MaxAttempts /\ k \notin Range(cache)
      <4>1. tries[k] <= attempt[r] /\ k \notin Range(cache)
        BY <1>0, <2>1, <3>1 DEF TriesInv
      <4>2. tries[k] \in Nat /\ attempt[r] \in Nat
        BY <1>2, <1>3
      <4>3. QED
        BY <1>1, <1>3, <1>5, <1>6, <2>1, <4>1, <4>2
    <3>4. tries'[k] \in Nat /\ attempt'[r] \in Nat
      BY <1>2, <1>5, <1>6
    <3>5. QED
      BY <1>3, <2>1, <3>1, <3>2, <3>3, <3>4
  <2>2. CASE j # k
    <3>1. ~Runs(r, j)
      BY <2>2 DEF Runs, k
    <3>2. tries'[j] = tries[j]
      BY <1>6, <2>2
    <3>3. QED
      BY <1>0, <1>5, <3>1, <3>2 DEF TriesInv
  <2>3. QED
    BY <2>1, <2>2
<1>11. QED
  BY <1>7, <1>8, <1>10 DEF IInv

(* The request that runs is over: what is said of the counts is left to be *)
(* shown.                                                                  *)
LEMMA OverStep ==
  ASSUME IInv, NEW r \in Requests, Running(r), Release(r)
  PROVE  /\ RequestTypes' /\ Others(r) /\ stage'[r] = "idle" /\ LockInv'
         /\ holder' \in [Locks -> Requests \cup {None}] /\ waiters' = waiters
         /\ \A q \in Requests : \A j : Runs(q, j)' <=> q # r /\ Runs(q, j)
         /\ key[r] \in Keys
<1>0. Types /\ LockInv
  BY DEF IInv
<1>1. RequestTypes' /\ Others(r) /\ stage'[r] = "idle"
  BY <1>0, LeaveFacts DEF Release
<1>2. LockInv' /\ holder' \in [Locks -> Requests \cup {None}] /\ waiters' = waiters
  BY <1>0, ReleaseFacts DEF Release
<1>3. key[r] \in Keys
  BY <1>0 DEF LockInv, BusyInv, Running
<1>4. ASSUME NEW q \in Requests, NEW j
      PROVE  Runs(q, j)' <=> q # r /\ Runs(q, j)
  <2>1. CASE q = r
    BY <1>1, <2>1 DEF Runs, Running
  <2>2. CASE q # r
    BY <1>1, <2>2 DEF Runs, Running, Others
  <2>3. QED
    BY <2>1, <2>2
<1>5. QED
  BY <1>1, <1>2, <1>3, <1>4

LEMMA ConcludesStep ==
  ASSUME IInv, NEW r \in Requests, Concludes(r)
  PROVE  IInv'
<1> DEFINE k == key[r]
<1>0. Types /\ LockInv /\ TableInv /\ Distinct(cache) /\ TriesInv
  BY DEF IInv
<1>1. Running(r) /\ RecordIdempotency(k) /\ Release(r)
  BY DEF Concludes
<1>2. /\ RequestTypes' /\ Others(r) /\ stage'[r] = "idle" /\ LockInv'
      /\ holder' \in [Locks -> Requests \cup {None}] /\ waiters' = waiters
      /\ \A q \in Requests : \A j : Runs(q, j)' <=> q # r /\ Runs(q, j)
      /\ k \in Keys
  BY <1>1, OverStep
<1>3. Runs(r, k)
  BY <1>1 DEF Runs
<1>4. \A j : Runs(r, j) => j = k
  BY DEF Runs
<1> HIDE DEF k
<1>5. /\ cache' \in Seq(Keys) /\ Len(cache') <= MaxEntries /\ Distinct(cache')
      /\ Range(cache') \subseteq Range(cache) \cup {k}
      /\ expired' = {}
      /\ table' \in [Keys -> Locks \cup {None}]
      /\ lost' \subseteq Keys /\ lost \subseteq lost'
      /\ tries' \in [Keys -> Nat]
  BY <1>0, <1>1, <1>2, RecordFacts
<1>6. \A j \in Keys \ lost' :
        \/ table'[j] = table[j]
        \/ table[j] # None /\ Unlocked(table[j]) /\ waiters[table[j]] = <<>>
  BY <1>0, <1>1, <1>2, RecordFacts
<1>7. \A j \in Keys \ lost' :
        tries'[j] = IF j \in (Range(cache) \cup {k}) \ Range(cache') THEN 0 ELSE tries[j]
  BY <1>0, <1>1, <1>2, RecordFacts
<1>8. waiters' \in [Locks -> Seq(Requests)]
  BY <1>0, <1>2 DEF Types
<1>9. Types'
  BY <1>2, <1>5, <1>8 DEF Types, RequestTypes
<1>10. TableInv'
  <2> SUFFICES ASSUME NEW j \in Keys \ lost', NEW q \in Requests,
                      stage'[q] # "idle", key'[q] = j
               PROVE  lockOf'[q] = table'[j]
    BY DEF TableInv
  <2>1. q # r /\ stage[q] # "idle" /\ key[q] = j /\ lockOf'[q] = lockOf[q]
    BY <1>2 DEF Others
  <2>2. lockOf[q] = table[j]
    BY <1>0, <1>5, <2>1 DEF TableInv
  <2>3. CASE stage[q] = "running"
    <3>1. holder[table[j]] = q /\ q # None
      BY <1>0, <2>2, <2>3, WebhookAssumption DEF LockInv, HolderInv, Running, Requests
    <3>2. QED
      BY <1>6, <2>1, <2>2, <3>1 DEF Unlocked
  <2>4. CASE stage[q] = "waiting"
    <3>1. q \in Range(waiters[table[j]])
      BY <1>0, <2>2, <2>4 DEF LockInv, WaiterInv
    <3>2. waiters[table[j]] # <<>>
      BY <3>1 DEF Range
    <3>3. QED
      BY <1>6, <2>1, <2>2, <3>2
  <2>5. stage[q] = "running" \/ stage[q] = "waiting"
    BY <1>0, <2>1 DEF Types
  <2>6. QED
    BY <2>3, <2>4, <2>5
<1>11. TriesInv'
  <2> SUFFICES ASSUME NEW j \in Keys \ lost'
               PROVE  /\ \A q \in Requests : Runs(q, j)' => j \notin Range(cache') /\ tries'[j] <= attempt'[q]
                      /\ (\A q \in Requests : ~Runs(q, j)') /\ j \notin Range(cache') => tries'[j] = 0
                      /\ tries'[j] <= MaxAttempts
    BY DEF TriesInv
  <2>1. j \in Keys \ lost
    BY <1>5
  <2>2. tries'[j] = 0 \/ tries'[j] = tries[j]
    BY <1>7
  <2>3. tries'[j] <= MaxAttempts
    BY <1>0, <2>1, <2>2, WebhookAssumption DEF TriesInv
  <2>4. ASSUME NEW q \in Requests, Runs(q, j)'
        PROVE  j \notin Range(cache') /\ tries'[j] <= attempt'[q]
    <3>1. q # r /\ Runs(q, j)
      BY <1>2, <2>4
    <3>2. j # k
      BY <1>0, <1>3, <2>1, <3>1, OneRuns
    <3>3. j \notin Range(cache) /\ tries[j] <= attempt[q]
      BY <1>0, <2>1, <3>1 DEF TriesInv
    <3>4. tries'[j] = tries[j]
      BY <1>7, <3>2, <3>3
    <3>5. QED
      BY <1>2, <1>5, <3>1, <3>2, <3>3, <3>4 DEF Others
  <2>5. ASSUME \A q \in Requests : ~Runs(q, j)', j \notin Range(cache')
        PROVE  tries'[j] = 0
    <3>1. CASE j \in Range(cache) \cup {k}
      BY <1>7, <2>5, <3>1
    <3>2. CASE j \notin Range(cache) \cup {k}
      <4>1. \A q \in Requests : ~Runs(q, j)
        BY <1>2, <1>4, <2>5, <3>2
      <4>2. tries[j] = 0
        BY <1>0, <2>1, <3>2, <4>1 DEF TriesInv
      <4>3. QED
        BY <2>2, <4>2
    <3>3. QED
      BY <3>1, <3>2
  <2>6. QED
    BY <2>3, <2>4, <2>5
<1>12. QED
  BY <1>2, <1>5, <1>9, <1>10, <1>11 DEF IInv

LEMMA CancelledStep ==
  ASSUME IInv, NEW r \in Requests, Cancelled(r)
  PROVE  IInv'
<1> DEFINE k == key[r]
<1>0. Types /\ LockInv /\ TableInv /\ Distinct(cache) /\ TriesInv
  BY DEF IInv
<1>1. cache' = cache /\ expired' = expired /\ table' = table /\ lost' = lost
  BY DEF Cancelled, cacheVars
<1>2. ASSUME stage[r] = "waiting",
             waiters' = [waiters EXCEPT ![lockOf[r]] = Without(@, {r})],
             Leave(r), holder' = holder, tries' = tries
      PROVE  IInv'
  <2>1. IsAnswered(r) /\ Dequeued(r)
    BY <1>1, <1>2 DEF IsAnswered, Dequeued, cacheVars
  <2>2. TableKeeps /\ table' \in [Keys -> Locks \cup {None}]
    BY <1>0, <1>1 DEF TableInv, TableKeeps, Types
  <2>3. QED
    BY <1>1, <2>1, <2>2, AnsweredStep
<1>3. ASSUME Running(r), Release(r), CountTry(k, 0)
      PROVE  IInv'
  <2>1. /\ RequestTypes' /\ Others(r) /\ stage'[r] = "idle" /\ LockInv'
        /\ holder' \in [Locks -> Requests \cup {None}] /\ waiters' = waiters
        /\ \A q \in Requests : \A j : Runs(q, j)' <=> q # r /\ Runs(q, j)
        /\ k \in Keys
    BY <1>3, OverStep
  <2>2. Runs(r, k) /\ \A j : Runs(r, j) => j = k
    BY <1>3 DEF Runs
  <2> HIDE DEF k
  <2>3. /\ tries' \in [Keys -> Nat] /\ tries'[k] = 0
        /\ \A j \in Keys \ {k} : tries'[j] = tries[j]
    BY <1>0, <1>3, <2>1 DEF CountTry, Types
  <2>4. Types'
    BY <1>0, <1>1, <2>1, <2>3 DEF Types, RequestTypes
  <2>5. TableInv' /\ Distinct(cache)'
    BY <1>0, <1>1, <2>1 DEF TableInv, Others, Distinct
  <2>6. TriesInv'
    <3> SUFFICES ASSUME NEW j \in Keys \ lost
                 PROVE  /\ \A q \in Requests : Runs(q, j)' => j \notin Range(cache) /\ tries'[j] <= attempt'[q]
                        /\ (\A q \in Requests : ~Runs(q, j)') /\ j \notin Range(cache) => tries'[j] = 0
                        /\ tries'[j] <= MaxAttempts
      BY <1>1 DEF TriesInv
    <3>1. CASE j = k
      <4>1. ASSUME NEW q \in Requests, Runs(q, j)'
            PROVE  FALSE
        <5>1. q # r /\ Runs(q, k)
          BY <2>1, <3>1, <4>1
        <5>2. k \in Keys \ lost
          BY <3>1
        <5>3. q = r
          BY <1>0, <2>2, <5>1, <5>2, OneRuns
        <5>4. QED
          BY <5>1, <5>3
      <4>2. tries'[j] = 0 /\ 0 <= MaxAttempts
        BY <2>3, <3>1, WebhookAssumption
      <4>3. QED
        BY <4>1, <4>2
    <3>2. CASE j # k
      <4>1. \A q \in Requests : Runs(q, j)' <=> Runs(q, j)
        BY <2>1, <2>2, <3>2
      <4>2. \A q \in Requests : Runs(q, j) => attempt'[q] = attempt[q]
        BY <2>1, <2>2, <3>2 DEF Others
      <4>3. tries'[j] = tries[j]
        BY <2>3, <3>2
      <4>4. QED
        BY <1>0, <4>1, <4>2, <4>3 DEF TriesInv
    <3>3. QED
      BY <3>1, <3>2
  <2>7. QED
    BY <2>1, <2>4, <2>5, <2>6 DEF IInv
<1>4. QED
  BY <1>2, <1>3 DEF Cancelled

(* What concerns neither a key's entry nor its request: time.              *)
LEMMA IdleStep ==
  ASSUME IInv, Expire \/ UNCHANGED vars
  PROVE  IInv'
<1>0. Types /\ LockInv /\ TableInv /\ Distinct(cache) /\ TriesInv
  BY DEF IInv
<1>1. /\ cache' = cache /\ table' = table /\ holder' = holder /\ waiters' = waiters
      /\ key' = key /\ lockOf' = lockOf /\ stage' = stage /\ attempt' = attempt
      /\ tries' = tries /\ lost' = lost
  BY DEF Expire, vars, cacheVars, lockVars, requestVars
<1>2. expired' \subseteq Range(cache)
  <2>1. CASE Expire
    BY <1>0, <2>1 DEF Expire, Live, Types
  <2>2. CASE UNCHANGED vars
    BY <1>0, <2>2 DEF vars, cacheVars, Types
  <2>3. QED
    BY <2>1, <2>2
<1>3. Types'
  BY <1>0, <1>1, <1>2 DEF Types
<1>4. LockInv' /\ TableInv' /\ Distinct(cache)'
  BY <1>0, <1>1 DEF LockInv, HolderInv, WaiterInv, BusyInv, TableInv, Distinct, Running
<1>5. TriesInv'
  BY <1>0, <1>1 DEF TriesInv, Runs, Running
<1>6. QED
  BY <1>3, <1>4, <1>5 DEF IInv

LEMMA InitIInv == Init => IInv
<1> SUFFICES ASSUME Init PROVE IInv
  OBVIOUS
<1>1. Range(<<>>) = {} /\ Distinct(<<>>)
  BY DEF Range, Distinct
<1>2. Types
  <2>1. 0 \in 0..MaxAttempts
    BY WebhookAssumption
  <2>2. cache \in Seq(Keys) /\ Len(cache) <= MaxEntries /\ expired \subseteq Range(cache)
    BY WebhookAssumption DEF Init
  <2>3. /\ waiters \in [Locks -> Seq(Requests)] /\ holder \in [Locks -> Requests \cup {None}]
        /\ table \in [Keys -> Locks \cup {None}]
    BY DEF Init
  <2>4. QED
    BY <2>1, <2>2, <2>3 DEF Init, Types
<1>3. LockInv
  BY <1>1 DEF Init, LockInv, HolderInv, WaiterInv, BusyInv, Running
<1>4. TableInv /\ Distinct(cache)
  BY <1>1 DEF Init, TableInv
<1>5. TriesInv
  BY WebhookAssumption DEF Init, TriesInv, Runs, Running
<1>6. QED
  BY <1>2, <1>3, <1>4, <1>5 DEF IInv

-----------------------------------------------------------------------------
(* The theorems                                                            *)

(* The types, the owners of the locks, the queues, the table and the counts*)
(* of runs agree in every reachable state.                                 *)
THEOREM WebhookInvariance == Spec => []IInv
<1>1. ASSUME IInv, [Next]_vars PROVE IInv'
  <2>1. CASE UNCHANGED vars
    BY <1>1, <2>1, IdleStep
  <2>2. CASE Expire
    BY <1>1, <2>2, IdleStep
  <2>3. ASSUME NEW r \in Requests,
               \/ \E k \in Keys : Arrive(r, k)
               \/ Wake(r) \/ Retry(r) \/ Concludes(r) \/ Cancelled(r)
        PROVE  IInv'
    BY <1>1, <2>3, ArriveStep, WakeStep, RetryStep, ConcludesStep, CancelledStep
  <2>4. QED
    BY <1>1, <2>1, <2>2, <2>3 DEF Next
<1>2. QED
  BY InitIInv, <1>1, PTL DEF Spec

(* The cache keeps its bound, there is a lock for every request that comes,*)
(* and the requests that run are those that hold one.                      *)
THEOREM WebhookTypeOK == Spec => []TypeOK
<1>1. ASSUME IInv PROVE TypeOK
  <2>1. Types /\ HolderInv
    BY <1>1 DEF IInv, LockInv
  <2>2. ASSUME NEW r \in Requests
        PROVE  Running(r) <=> \E l \in Locks : holder[l] = r
    <3>1. r # None
      BY WebhookAssumption DEF Requests
    <3>2. QED
      BY <2>1, <3>1 DEF HolderInv
  <2>3. QED
    BY <2>1, <2>2 DEF Types, TypeOK
<1>2. QED
  BY WebhookInvariance, <1>1, PTL

(* Unless the lock of a key was lost, its requests run the agent one at a  *)
(* time, and in all no more often than one request may.                    *)
THEOREM WebhookOneRunPerKey == Spec => []OneRunPerKey
<1>1. ASSUME IInv PROVE OneRunPerKey
  <2> SUFFICES ASSUME NEW k \in Keys \ lost
               PROVE  /\ Cardinality({r \in Requests : Running(r) /\ key[r] = k}) <= 1
                      /\ tries[k] <= MaxAttempts
    BY DEF OneRunPerKey
  <2> DEFINE runners == {r \in Requests : Running(r) /\ key[r] = k}
  <2>1. LockInv /\ TableInv /\ tries[k] <= MaxAttempts
    BY <1>1 DEF IInv, TriesInv
  <2>2. \A q, r \in runners : q = r
    BY <2>1, OneRuns DEF Runs
  <2>3. runners = {} \/ \E r : runners = {r}
    <3> HIDE DEF runners
    <3>1. QED
      BY <2>2
  <2>4. Cardinality(runners) <= 1
    <3>1. CASE runners = {}
      BY <3>1, FS_EmptySet
    <3>2. ASSUME NEW r, runners = {r} PROVE Cardinality(runners) = 1
      BY <3>2, FS_Singleton
    <3>3. QED
      BY <2>3, <3>1, <3>2
  <2>5. QED
    BY <2>1, <2>4
<1>2. QED
  BY WebhookInvariance, <1>1, PTL
=============================================================================
