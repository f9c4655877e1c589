-------------------------- MODULE VisibilityProofs --------------------------
(***************************************************************************)
(* Proofs about Visibility for every number of askers, records and entries *)
(* and every configuration: its types, one trial each time the recovery    *)
(* timeout has passed, and that reservations fit the budget.               *)
(***************************************************************************)
EXTENDS Visibility, TLAPS

-----------------------------------------------------------------------------
(* Sequences                                                               *)

(* Without the element at i, the others keep their order.                  *)
LEMMA RemoveFacts ==
  ASSUME NEW S, NEW s \in Seq(S), NEW i \in 1..Len(s)
  PROVE  LET rest == SubSeq(s, 1, i - 1) \o SubSeq(s, i + 1, Len(s))
         IN  /\ rest \in Seq(S) /\ Len(rest) = Len(s) - 1
             /\ \A j \in 1..(Len(s) - 1) : rest[j] = IF j < i THEN s[j] ELSE s[j + 1]
<1> DEFINE front == SubSeq(s, 1, i - 1)
           back  == SubSeq(s, i + 1, Len(s))
<1>1. /\ front \in Seq(S) /\ Len(front) = i - 1
      /\ \A j \in 1..(i - 1) : front[j] = s[j]
  OBVIOUS
<1>2. /\ back \in Seq(S) /\ Len(back) = Len(s) - i
      /\ \A j \in 1..(Len(s) - i) : back[j] = s[i + j]
  OBVIOUS
<1> HIDE DEF front, back
<1>3. front \o back \in Seq(S) /\ Len(front \o back) = Len(s) - 1
  BY <1>1, <1>2
<1>4. ASSUME NEW j \in 1..(Len(s) - 1)
      PROVE  (front \o back)[j] = IF j < i THEN s[j] ELSE s[j + 1]
  <2>1. CASE j < i
    BY <2>1, <1>1, <1>2
  <2>2. CASE j >= i
    <3>1. j - (i - 1) \in 1..(Len(s) - i) /\ i + (j - (i - 1)) = j + 1
      BY <2>2
    <3>2. (front \o back)[j] = back[j - (i - 1)]
      BY <2>2, <1>1, <1>2
    <3>3. QED
      BY <2>2, <3>1, <3>2, <1>2
  <2>3. j < i \/ j >= i
    OBVIOUS
  <2>4. QED
    BY <2>1, <2>2, <2>3
<1>5. QED
  BY <1>3, <1>4 DEF front, back

-----------------------------------------------------------------------------

USE LedgerViewAssumption, VisibilityAssumption

Statuses == {"success", "error"}

(* What the ledger has not accepted yet it has not stored either.          *)
LedgerInv == \A r \in 1..MaxRecords : r > accepted => storedOn[r] = 0

(* A run that asks found no entry, and none has come in since.             *)
AskInv == run.stage = "asking" => Hits(run.for) = {}

(* A sure evaluation sees the failures it is sure of.                      *)
SureInv == \A a \in Askers : ask[a].sure => Sure /\ ask[a].breaker \in {"asking", "failing"}

(* A breaker that is open has had no trial since the timeout passed.       *)
TrialInv == trials <= 1 /\ (breaker = "open" /\ recovered => trials = 0)

IInv == TypeOK /\ LedgerInv /\ AskInv /\ SureInv /\ TrialInv

-----------------------------------------------------------------------------
(* The ledger                                                              *)

(* What was stored and what a query may answer depend on the ledger alone. *)
LEMMA LedgerKept ==
  ASSUME TypeOK, LedgerInv, UNCHANGED ledgerVars
  PROVE  LedgerTypeOK(Statuses, {1})' /\ LedgerInv' /\ Sure' = Sure
<1>1. UNCHANGED <<records, storedOn, batchEnds>>
  BY DEF ledgerVars
<1>2. accepted' = accepted /\ stored' = stored
  BY <1>1 DEF accepted, stored
<1>3. Newest(Threshold)' = Newest(Threshold)
  BY <1>1, <1>2 DEF Newest, SameAge
<1>4. \A W : Failing(W)' = Failing(W)
  BY <1>1 DEF Failing
<1>5. LedgerTypeOK(Statuses, {1})'
  BY <1>1, <1>2 DEF TypeOK, LedgerTypeOK, Statuses
<1>6. LedgerInv'
  BY <1>1, <1>2 DEF LedgerInv
<1>7. QED
  BY <1>3, <1>4, <1>5, <1>6 DEF Sure

(* A record comes last, and a query does not see it yet.                   *)
LEMMA RecordFacts ==
  ASSUME TypeOK, LedgerInv, NEW status \in Statuses, RecordExecution(status)
  PROVE  /\ LedgerTypeOK(Statuses, {1})' /\ LedgerInv' /\ Sure' = Sure
         /\ accepted < MaxRecords /\ accepted' = accepted + 1
         /\ stored' = stored
<1>1. /\ records \in Seq(Statuses) /\ accepted = Len(records)
      /\ storedOn \in [1..MaxRecords -> {0, 1}] /\ batchEnds \subseteq stored
  BY DEF TypeOK, LedgerTypeOK, accepted, Statuses
<1>2. /\ accepted < MaxRecords /\ records' = Append(records, status)
      /\ UNCHANGED <<storedOn, batchEnds>>
  BY DEF RecordExecution
<1>3. /\ accepted' = accepted + 1 /\ records' \in Seq(Statuses)
      /\ \A r \in 1..accepted : records'[r] = records[r]
  BY <1>1, <1>2 DEF accepted
<1>4. accepted \in Nat /\ storedOn[accepted + 1] = 0
  BY <1>1, <1>2 DEF LedgerInv
<1>5. stored' = stored
  BY <1>2, <1>3, <1>4 DEF stored
<1>6. Newest(Threshold)' = Newest(Threshold)
  BY <1>2, <1>5 DEF Newest, SameAge
<1>7. \A W \in Newest(Threshold) : Failing(W)' = Failing(W)
  <2>1. \A W \in Newest(Threshold) : W \subseteq 1..accepted
    BY DEF Newest, stored
  <2>2. QED
    BY <2>1, <1>3 DEF Failing
<1>8. LedgerTypeOK(Statuses, {1})'
  BY <1>1, <1>2, <1>3, <1>4, <1>5 DEF LedgerTypeOK
<1>9. LedgerInv'
  BY <1>2, <1>3, <1>4 DEF LedgerInv
<1>10. QED
  BY <1>2, <1>3, <1>5, <1>6, <1>7, <1>8, <1>9 DEF Sure

(* A batch adds to what is stored, after all of it.                        *)
LEMMA StoreFacts ==
  ASSUME TypeOK, LedgerInv, StoreBatch(1)
  PROVE  /\ LedgerTypeOK(Statuses, {1})' /\ LedgerInv'
         /\ accepted' = accepted
         /\ \E S \in SUBSET Storable : stored' = stored \cup S
<1>1. /\ records \in Seq(Statuses) /\ accepted = Len(records) /\ accepted <= MaxRecords
      /\ storedOn \in [1..MaxRecords -> {0, 1}] /\ batchEnds \subseteq stored
  BY DEF TypeOK, LedgerTypeOK, accepted, Statuses
<1>2. PICK S \in SUBSET Storable :
        /\ storedOn' = [r \in 1..MaxRecords |-> IF r \in S THEN 1 ELSE storedOn[r]]
        /\ batchEnds' = batchEnds \cup {r \in S : \A s \in S : s <= r}
  BY DEF StoreBatch
<1>3. records' = records /\ accepted' = accepted
  BY DEF StoreBatch, accepted
<1>4. 1..accepted \subseteq 1..MaxRecords /\ S \subseteq 1..accepted
  BY <1>1, <1>2 DEF Storable
<1>5. stored' = stored \cup S
  <2>1. \A r \in 1..accepted : storedOn'[r] # 0 <=> r \in S \/ storedOn[r] # 0
    BY <1>1, <1>2, <1>4
  <2>2. QED
    BY <2>1, <1>3, <1>4 DEF stored
<1>6. storedOn' \in [1..MaxRecords -> {0, 1}]
  BY <1>1, <1>2
<1>7. LedgerTypeOK(Statuses, {1})'
  BY <1>1, <1>2, <1>3, <1>5, <1>6 DEF LedgerTypeOK
<1>8. LedgerInv'
  BY <1>1, <1>2, <1>3, <1>4 DEF LedgerInv
<1>9. QED
  BY <1>3, <1>5, <1>7, <1>8

-----------------------------------------------------------------------------
(* Evaluations                                                             *)

(* The parts of TypeOK about evaluations and the rest of the state.        *)
AskTypeOK ==
  /\ ask \in [Askers -> Ask]
  /\ \A a \in Askers : ask[a].breaker = "off" <=> ask[a].budget = "off"

BreakerTypeOK ==
  /\ breaker \in {"closed", "open", "half_open"} /\ recovered \in BOOLEAN
  /\ trials \in Nat

CacheTypeOK ==
  /\ cache \in Seq(Entry) /\ Len(cache) <= MaxCached
  /\ \A i, j \in DOMAIN cache : cache[i].for = cache[j].for => i = j

RunTypeOK ==
  /\ run \in Run \cup {NoRun}
  /\ run.stage = "asking" <=> ask[Agent] # NoAsk

LEMMA TypeParts ==
  TypeOK <=> /\ LedgerTypeOK(Statuses, {1})
             /\ BreakerTypeOK
             /\ reserved \in Seq(0..MaxSpent) /\ spent \in 0..MaxSpent
             /\ AskTypeOK /\ CacheTypeOK /\ RunTypeOK
  BY DEF TypeOK, BreakerTypeOK, AskTypeOK, CacheTypeOK, RunTypeOK, Statuses

LEMMA NoAskType == NoAsk \in Ask /\ 0 \in 0..MaxSpent
  BY DEF NoAsk, Ask, BreakerSteps, BudgetSteps

(* An evaluation goes on in its breaker half ...                           *)
LEMMA BreakerToFacts ==
  ASSUME AskTypeOK, NEW a \in Askers, ask[a].breaker # "off",
         NEW step \in BreakerSteps \ {"off"}, BreakerTo(a, step)
  PROVE  /\ AskTypeOK'
         /\ ask'[a].breaker = step /\ ask'[a].sure = (ask[a].sure /\ step \notin Answers)
         /\ \A b \in Askers \ {a} : ask'[b] = ask[b]
         /\ \A b \in Askers : ask'[b] = NoAsk <=> ask[b] = NoAsk
<1>1. ask' = [ask EXCEPT ![a].breaker = step, ![a].sure = @ /\ step \notin Answers]
  BY DEF BreakerTo
<1>2. /\ ask \in [Askers -> Ask]
      /\ \A b \in Askers : ask[b].breaker = "off" <=> ask[b].budget = "off"
  BY DEF AskTypeOK
<1>3. ask[a] \in Ask
  BY <1>2
<1>4. /\ ask' \in [Askers -> Ask]
      /\ ask'[a].breaker = step /\ ask'[a].budget = ask[a].budget
      /\ ask'[a].sure = (ask[a].sure /\ step \notin Answers)
      /\ \A b \in Askers \ {a} : ask'[b] = ask[b]
  BY <1>1, <1>2, <1>3 DEF Ask
<1>5. AskTypeOK'
  BY <1>2, <1>4 DEF AskTypeOK
<1>6. ask'[a] # NoAsk /\ ask[a] # NoAsk
  BY <1>4 DEF NoAsk
<1>7. QED
  BY <1>4, <1>5, <1>6

(* ... or in its budget half.                                              *)
LEMMA BudgetToFacts ==
  ASSUME AskTypeOK, NEW a \in Askers, ask[a].budget # "off",
         NEW step \in BudgetSteps \ {"off"}, NEW used \in 0..MaxSpent,
         BudgetTo(a, step, used)
  PROVE  /\ AskTypeOK'
         /\ \A b \in Askers : ask'[b].breaker = ask[b].breaker /\ ask'[b].sure = ask[b].sure
         /\ \A b \in Askers : ask'[b] = NoAsk <=> ask[b] = NoAsk
<1>1. ask' = [ask EXCEPT ![a].budget = step, ![a].used = used]
  BY DEF BudgetTo
<1>2. /\ ask \in [Askers -> Ask]
      /\ \A b \in Askers : ask[b].breaker = "off" <=> ask[b].budget = "off"
  BY DEF AskTypeOK
<1>3. ask[a] \in Ask
  BY <1>2
<1>4. /\ ask' \in [Askers -> Ask]
      /\ ask'[a].budget = step /\ ask'[a].breaker = ask[a].breaker
      /\ ask'[a].sure = ask[a].sure
      /\ \A b \in Askers \ {a} : ask'[b] = ask[b]
  BY <1>1, <1>2, <1>3 DEF Ask
<1>5. AskTypeOK'
  BY <1>2, <1>4 DEF AskTypeOK
<1>6. ask'[a] # NoAsk /\ ask[a] # NoAsk
  BY <1>4 DEF NoAsk
<1>7. QED
  BY <1>4, <1>5, <1>6

(* An evaluation ends, or has gone.                                        *)
LEMMA AskEnds ==
  ASSUME AskTypeOK, NEW a \in Askers, ask' = [ask EXCEPT ![a] = NoAsk]
  PROVE  /\ AskTypeOK'
         /\ ask'[a] = NoAsk
         /\ \A b \in Askers \ {a} : ask'[b] = ask[b]
<1>1. /\ ask \in [Askers -> Ask] /\ NoAsk \in Ask
      /\ \A b \in Askers : ask[b].breaker = "off" <=> ask[b].budget = "off"
  BY NoAskType DEF AskTypeOK
<1>2. /\ ask' \in [Askers -> Ask] /\ ask'[a] = NoAsk
      /\ \A b \in Askers \ {a} : ask'[b] = ask[b]
  BY <1>1
<1>3. NoAsk.breaker = "off" /\ NoAsk.budget = "off"
  BY DEF NoAsk
<1>4. QED
  BY <1>1, <1>2, <1>3 DEF AskTypeOK

(* An evaluation begins: on trial if the breaker is open and the timeout   *)
(* has passed, and then it is the first.                                   *)
LEMMA FilterBeginsFacts ==
  ASSUME TypeOK, LedgerInv, SureInv, TrialInv,
         NEW a \in Askers, ask[a] = NoAsk, FilterBegins(a)
  PROVE  /\ LedgerTypeOK(Statuses, {1})' /\ LedgerInv'
         /\ AskTypeOK' /\ BreakerTypeOK' /\ SureInv' /\ TrialInv'
         /\ ask'[a] # NoAsk /\ \A b \in Askers \ {a} : ask'[b] = ask[b]
<1> DEFINE answer == IF breaker # "open" THEN "asking"
                     ELSE IF recovered THEN "shown" ELSE "hidden"
           begun == [breaker |-> answer, budget |-> "asking",
                     used |-> 0, sure |-> answer = "asking" /\ Sure]
<1>1. /\ AskTypeOK /\ BreakerTypeOK
  BY TypeParts
<1>2. /\ ask' = [ask EXCEPT ![a] = begun]
      /\ IF answer = "shown" THEN breaker' = "half_open" ELSE breaker' = breaker
      /\ trials' = IF answer = "shown" /\ Sure THEN trials + 1 ELSE trials
      /\ UNCHANGED <<ledgerVars, recovered>>
  BY DEF FilterBegins, Recover
<1>3. /\ answer \in {"asking", "shown", "hidden"}
      /\ answer = "shown" => breaker = "open" /\ recovered
  OBVIOUS
<1>4. LedgerTypeOK(Statuses, {1})' /\ LedgerInv' /\ Sure' = Sure
  BY <1>2, LedgerKept
<1> HIDE DEF answer
<1>5. Sure \in BOOLEAN
  BY DEF Sure
<1>6. /\ begun \in Ask /\ begun # NoAsk /\ begun.breaker = answer
      /\ begun.budget = "asking" /\ begun.sure = (answer = "asking" /\ Sure)
  BY <1>3, <1>5, NoAskType DEF Ask, NoAsk, BreakerSteps, BudgetSteps
<1> HIDE DEF begun
<1>7. /\ ask' \in [Askers -> Ask] /\ ask'[a] = begun
      /\ \A b \in Askers \ {a} : ask'[b] = ask[b]
  BY <1>1, <1>2, <1>6 DEF AskTypeOK
<1>8. AskTypeOK'
  BY <1>1, <1>3, <1>6, <1>7 DEF AskTypeOK
<1>9. BreakerTypeOK'
  BY <1>1, <1>2 DEF BreakerTypeOK
<1>10. SureInv'
  BY <1>4, <1>6, <1>7 DEF SureInv
<1>11. TrialInv'
  BY <1>1, <1>2, <1>3 DEF TrialInv, BreakerTypeOK
<1>12. QED
  BY <1>4, <1>6, <1>7, <1>8, <1>9, <1>10, <1>11

-----------------------------------------------------------------------------
(* The cache of answers                                                    *)

LEMMA RememberFacts ==
  ASSUME CacheTypeOK, NEW c \in Confirmed, NEW offer \in BOOLEAN,
         Hits(c) = {}, Remember(c, offer)
  PROVE  CacheTypeOK'
<1> DEFINE entry == [for |-> c, offer |-> offer]
           new == Append(cache, entry)
<1>1. /\ cache \in Seq(Entry) /\ Len(cache) <= MaxCached
      /\ \A i, j \in DOMAIN cache : cache[i].for = cache[j].for => i = j
  BY DEF CacheTypeOK
<1>2. cache' = IF Len(new) > MaxCached THEN Tail(new) ELSE new
  BY DEF Remember
<1>3. entry \in Entry /\ entry.for = c
  BY DEF Entry
<1> HIDE DEF entry
<1>4. /\ new \in Seq(Entry) /\ Len(new) = Len(cache) + 1 /\ DOMAIN new = 1..Len(new)
      /\ \A i \in 1..Len(cache) : new[i] = cache[i]
      /\ new[Len(cache) + 1] = entry
  BY <1>1, <1>3
<1>5. \A i \in 1..Len(cache) : cache[i].for # c
  BY <1>1 DEF Hits
<1>6. \A i, j \in DOMAIN new : new[i].for = new[j].for => i = j
  <2> SUFFICES ASSUME NEW i \in DOMAIN new, NEW j \in DOMAIN new, new[i].for = new[j].for
               PROVE  i = j
    OBVIOUS
  <2>1. \A k \in DOMAIN new : k \in 1..Len(cache) \/ k = Len(cache) + 1
    BY <1>1, <1>4
  <2>2. \A k \in 1..Len(cache) : new[k].for = cache[k].for /\ new[k].for # c
    BY <1>4, <1>5
  <2>3. new[Len(cache) + 1].for = c
    BY <1>3, <1>4
  <2>4. QED
    BY <1>1, <2>1, <2>2, <2>3
<1> HIDE DEF new
<1>7. CASE Len(new) <= MaxCached
  BY <1>2, <1>4, <1>6, <1>7 DEF CacheTypeOK
<1>8. CASE Len(new) > MaxCached
  <2>1. cache' = Tail(new)
    BY <1>2, <1>8
  <2>2. /\ Tail(new) \in Seq(Entry) /\ Len(Tail(new)) = Len(cache)
        /\ \A i \in 1..Len(cache) : Tail(new)[i] = new[i + 1] /\ i + 1 \in DOMAIN new
    BY <1>1, <1>4
  <2>3. \A i, j \in 1..Len(cache) : Tail(new)[i].for = Tail(new)[j].for => i = j
    BY <1>1, <1>6, <2>2
  <2>4. QED
    BY <1>1, <2>1, <2>2, <2>3 DEF CacheTypeOK
<1>9. QED
  BY <1>1, <1>4, <1>7, <1>8

LEMMA MoveToEndFacts ==
  ASSUME CacheTypeOK, NEW i \in DOMAIN cache, MoveToEnd(i)
  PROVE  CacheTypeOK'
<1> DEFINE rest == SubSeq(cache, 1, i - 1) \o SubSeq(cache, i + 1, Len(cache))
           n == Len(cache)
<1>1. /\ cache \in Seq(Entry) /\ n <= MaxCached /\ i \in 1..n /\ n \in Nat
      /\ \A j, k \in 1..n : cache[j].for = cache[k].for => j = k
  BY DEF CacheTypeOK
<1>2. cache' = Append(rest, cache[i])
  BY DEF MoveToEnd, RemoveAt
<1>3. /\ rest \in Seq(Entry) /\ Len(rest) = n - 1
      /\ \A j \in 1..(n - 1) : rest[j] = IF j < i THEN cache[j] ELSE cache[j + 1]
  BY <1>1, RemoveFacts
<1> HIDE DEF rest, n
<1>4. cache[i] \in Entry
  BY <1>1 DEF n
<1>5. /\ cache' \in Seq(Entry) /\ Len(cache') = n /\ DOMAIN cache' = 1..n
      /\ \A j \in 1..(n - 1) : cache'[j] = rest[j]
      /\ cache'[n] = cache[i]
  BY <1>1, <1>2, <1>3, <1>4
<1> DEFINE from(j) == IF j = n THEN i ELSE IF j < i THEN j ELSE j + 1
<1>6. /\ \A j \in 1..n : cache'[j] = cache[from(j)] /\ from(j) \in 1..n
      /\ \A j, k \in 1..n : from(j) = from(k) => j = k
  BY <1>1, <1>3, <1>5
<1> HIDE DEF from
<1>7. ASSUME NEW j \in 1..n, NEW k \in 1..n, cache'[j].for = cache'[k].for
      PROVE  j = k
  <2>1. /\ from(j) \in 1..n /\ from(k) \in 1..n
        /\ cache'[j] = cache[from(j)] /\ cache'[k] = cache[from(k)]
    BY <1>6
  <2>2. from(j) = from(k)
    BY <1>1, <1>7, <2>1
  <2>3. QED
    BY <1>6, <2>2
<1>8. QED
  BY <1>1, <1>5, <1>7 DEF CacheTypeOK

-----------------------------------------------------------------------------
(* The invariant                                                           *)

LEMMA InitIInv == Init => IInv
<1> SUFFICES ASSUME Init PROVE IInv
  OBVIOUS
<1>1. /\ records = <<>> /\ storedOn = [r \in 1..MaxRecords |-> 0] /\ batchEnds = {}
      /\ breaker = "closed" /\ recovered \in BOOLEAN /\ ~recovered /\ trials = 0
      /\ reserved = <<>> /\ spent = 0 /\ cache = <<>> /\ run = NoRun
      /\ ask = [a \in Askers |-> NoAsk]
  BY DEF Init, LedgerInit
<1>2. LedgerTypeOK(Statuses, {1}) /\ LedgerInv
  <2>1. accepted = 0 /\ records \in Seq(Statuses)
    BY <1>1 DEF accepted
  <2>2. storedOn \in [1..MaxRecords -> {1} \cup {0}]
    BY <1>1
  <2>3. QED
    BY <1>1, <2>1, <2>2 DEF LedgerTypeOK, LedgerInv
<1>3. BreakerTypeOK /\ TrialInv
  BY <1>1 DEF BreakerTypeOK, TrialInv
<1>4. reserved \in Seq(0..MaxSpent) /\ spent \in 0..MaxSpent
  BY <1>1
<1>5. AskTypeOK /\ SureInv
  BY <1>1, NoAskType DEF AskTypeOK, SureInv, NoAsk
<1>6. CacheTypeOK
  BY <1>1 DEF CacheTypeOK
<1>7. RunTypeOK /\ AskInv
  BY <1>1 DEF RunTypeOK, AskInv, NoRun, Askers
<1>8. QED
  BY <1>2, <1>3, <1>4, <1>5, <1>6, <1>7, TypeParts DEF IInv

(* What has not to do with the step stays as it is.                        *)
LEMMA SurelyKept ==
  ASSUME SureInv, Sure' = Sure,
         \A a \in Askers : ask'[a].sure = ask[a].sure /\ ask'[a].breaker = ask[a].breaker
  PROVE  SureInv'
  BY DEF SureInv

LEMMA RunKept ==
  ASSUME RunTypeOK, CacheTypeOK, AskInv, UNCHANGED runVars,
         ask'[Agent] = NoAsk <=> ask[Agent] = NoAsk
  PROVE  RunTypeOK' /\ CacheTypeOK' /\ AskInv'
<1>1. UNCHANGED <<cache, run>>
  BY DEF runVars
<1>2. QED
  BY <1>1 DEF RunTypeOK, CacheTypeOK, AskInv, Hits

LEMMA NextIInv == IInv /\ [Next]_vars => IInv'
<1> SUFFICES ASSUME IInv, [Next]_vars PROVE IInv'
  OBVIOUS
<1>0. /\ TypeOK /\ LedgerInv /\ AskInv /\ SureInv /\ TrialInv
      /\ BreakerTypeOK /\ AskTypeOK /\ CacheTypeOK /\ RunTypeOK
      /\ reserved \in Seq(0..MaxSpent) /\ spent \in 0..MaxSpent
      /\ Agent \in Askers
  BY TypeParts DEF IInv, Askers
<1> DEFINE LedgerSafe == LedgerTypeOK(Statuses, {1})' /\ LedgerInv'
           BreakerNext == BreakerTypeOK' /\ TrialInv'
           BudgetNext == (reserved \in Seq(0..MaxSpent) /\ spent \in 0..MaxSpent)'
           AskNext == AskTypeOK' /\ SureInv'
           RunNext == CacheTypeOK' /\ RunTypeOK' /\ AskInv'
<1>a. LedgerSafe /\ BreakerNext /\ BudgetNext /\ AskNext /\ RunNext => IInv'
  BY DEF IInv, TypeOK, BreakerTypeOK, AskTypeOK, CacheTypeOK, RunTypeOK, Statuses
<1>b. UNCHANGED ledgerVars => LedgerSafe /\ Sure' = Sure
  BY <1>0, LedgerKept
<1>c. UNCHANGED breakerVars => BreakerNext
  BY <1>0 DEF breakerVars, BreakerTypeOK, TrialInv
<1>d. UNCHANGED budgetVars => BudgetNext
  BY <1>0 DEF budgetVars
<1>e. UNCHANGED ask /\ Sure' = Sure => AskNext
  BY <1>0, SurelyKept DEF AskTypeOK
<1>f. UNCHANGED runVars /\ (ask'[Agent] = NoAsk <=> ask[Agent] = NoAsk) => RunNext
  BY <1>0, RunKept
<1>1. CASE UNCHANGED vars
  BY <1>1, <1>a, <1>b, <1>c, <1>d, <1>e, <1>f DEF vars
<1>2. ASSUME NEW a \in Askers, BreakerReads(a) PROVE IInv'
  <2>1. PICK W \in Newest(Threshold) : BreakerTo(a, IF Failing(W) THEN "failing" ELSE "fine")
    BY <1>2 DEF BreakerReads
  <2> DEFINE step == IF Failing(W) THEN "failing" ELSE "fine"
  <2>2. /\ ask[a].breaker = "asking"
        /\ UNCHANGED <<ledgerVars, breakerVars, budgetVars, runVars>>
    BY <1>2 DEF BreakerReads
  <2>3. step \in BreakerSteps \ {"off"} /\ step \notin Answers
    BY DEF BreakerSteps, Answers
  <2>4. Sure => step = "failing"
    BY DEF Sure
  <2> HIDE DEF step
  <2>5. BreakerTo(a, step)
    BY <2>1 DEF step
  <2>6. /\ AskTypeOK'
        /\ ask'[a].breaker = step /\ ask'[a].sure = (ask[a].sure /\ step \notin Answers)
        /\ \A b \in Askers \ {a} : ask'[b] = ask[b]
        /\ \A b \in Askers : ask'[b] = NoAsk <=> ask[b] = NoAsk
    BY <1>0, <2>2, <2>3, <2>5, BreakerToFacts
  <2>7. SureInv'
    <3> SUFFICES ASSUME NEW b \in Askers, ask'[b].sure
                 PROVE  Sure' /\ ask'[b].breaker \in {"asking", "failing"}
      BY DEF SureInv
    <3>1. ask[b].sure
      BY <2>6
    <3>2. Sure /\ ask[b].breaker \in {"asking", "failing"}
      BY <1>0, <3>1 DEF SureInv
    <3>3. CASE b = a
      BY <1>b, <2>2, <2>4, <2>6, <3>2, <3>3
    <3>4. CASE b # a
      BY <1>b, <2>2, <2>6, <3>2, <3>4
    <3>5. QED
      BY <3>3, <3>4
  <2>8. QED
    BY <1>0, <1>a, <1>b, <1>c, <1>d, <1>f, <2>2, <2>6, <2>7
<1>3. ASSUME NEW a \in Askers, BreakerConcludes(a) PROVE IInv'
  <2>1. UNCHANGED <<ledgerVars, budgetVars, runVars>>
    BY <1>3 DEF BreakerConcludes
  <2>2. ASSUME NEW step \in {"shown", "hidden"}, BreakerTo(a, step), ask[a].breaker # "off"
        PROVE  AskNext /\ \A b \in Askers : ask'[b] = NoAsk <=> ask[b] = NoAsk
    <3>1. step \in BreakerSteps \ {"off"} /\ step \in Answers
      BY DEF BreakerSteps, Answers
    <3>2. /\ AskTypeOK'
          /\ ask'[a].breaker = step /\ ask'[a].sure = (ask[a].sure /\ step \notin Answers)
          /\ \A b \in Askers \ {a} : ask'[b] = ask[b]
          /\ \A b \in Askers : ask'[b] = NoAsk <=> ask[b] = NoAsk
      BY <1>0, <2>2, <3>1, BreakerToFacts
    <3>3. SureInv'
      <4>1. ~ask'[a].sure
        BY <3>1, <3>2
      <4>2. QED
        BY <1>0, <1>b, <2>1, <3>2, <4>1 DEF SureInv
    <3>4. QED
      BY <3>2, <3>3
  <2>3. CASE ask[a].breaker = "failing" /\ BreakerTo(a, "hidden")
             /\ breaker' = "open" /\ recovered' \in BOOLEAN /\ ~recovered'
             /\ trials' = trials
    <3>1. BreakerNext
      BY <1>0, <2>3 DEF BreakerTypeOK, TrialInv
    <3>2. QED
      BY <1>0, <1>a, <1>b, <1>d, <1>f, <2>1, <2>2, <2>3, <3>1
  <2>4. CASE ask[a].breaker = "fine" /\ BreakerTo(a, "shown")
             /\ trials' = (IF ask[a].sure THEN trials + 1 ELSE trials)
             /\ UNCHANGED <<breaker, recovered>>
    <3>1. ~ask[a].sure
      BY <1>0, <2>4 DEF SureInv
    <3>2. BreakerNext
      BY <1>0, <2>4, <3>1 DEF BreakerTypeOK, TrialInv
    <3>3. QED
      BY <1>0, <1>a, <1>b, <1>d, <1>f, <2>1, <2>2, <2>4, <3>2
  <2>5. QED
    BY <1>3, <2>3, <2>4 DEF BreakerConcludes
<1>4. ASSUME NEW a \in Askers, BudgetReads(a) PROVE IInv'
  <2>1. /\ ask[a].budget = "asking" /\ BudgetTo(a, "read", spent)
        /\ UNCHANGED <<ledgerVars, breakerVars, budgetVars, runVars>>
    BY <1>4 DEF BudgetReads
  <2>2. "read" \in BudgetSteps \ {"off"}
    BY DEF BudgetSteps
  <2>3. /\ AskTypeOK'
        /\ \A b \in Askers : ask'[b].breaker = ask[b].breaker /\ ask'[b].sure = ask[b].sure
        /\ \A b \in Askers : ask'[b] = NoAsk <=> ask[b] = NoAsk
    BY <1>0, <2>1, <2>2, BudgetToFacts
  <2>4. SureInv'
    BY <1>0, <1>b, <2>1, <2>3, SurelyKept
  <2>5. QED
    BY <1>0, <1>a, <1>b, <1>c, <1>d, <1>f, <2>1, <2>3, <2>4
<1>5. ASSUME NEW a \in Askers, BudgetConcludes(a) PROVE IInv'
  <2>1. /\ ask[a].budget = "read"
        /\ UNCHANGED <<ledgerVars, breakerVars, spent, runVars>>
        /\ \E step \in {"shown", "hidden"} : BudgetTo(a, step, 0)
        /\ reserved' = reserved \/ reserved' = Append(reserved, ask[a].used)
    BY <1>5 DEF BudgetConcludes
  <2>2. PICK step \in {"shown", "hidden"} : BudgetTo(a, step, 0)
    BY <2>1
  <2>3. step \in BudgetSteps \ {"off"} /\ 0 \in 0..MaxSpent
    BY NoAskType DEF BudgetSteps
  <2>4. /\ AskTypeOK'
        /\ \A b \in Askers : ask'[b].breaker = ask[b].breaker /\ ask'[b].sure = ask[b].sure
        /\ \A b \in Askers : ask'[b] = NoAsk <=> ask[b] = NoAsk
    BY <1>0, <2>1, <2>2, <2>3, BudgetToFacts
  <2>5. SureInv'
    BY <1>0, <1>b, <2>1, <2>4, SurelyKept
  <2>6. ask[a].used \in 0..MaxSpent
    BY <1>0 DEF AskTypeOK, Ask
  <2>7. BudgetNext
    <3>1. reserved \in Seq(0..MaxSpent) /\ spent \in 0..MaxSpent
      BY <1>0
    <3>2. Append(reserved, ask[a].used) \in Seq(0..MaxSpent)
      BY <2>6, <3>1
    <3>3. spent' = spent
      BY <2>1
    <3>4. QED
      BY <2>1, <3>1, <3>2, <3>3
  <2>8. QED
    BY <1>0, <1>a, <1>b, <1>c, <1>f, <2>1, <2>4, <2>5, <2>7
<1>6. ASSUME NEW a \in Askers, EvaluatorFails(a) PROVE IInv'
  <2> DEFINE answer == IF FailPolicy = "close" THEN "hidden" ELSE "shown"
  <2>1. /\ UNCHANGED <<ledgerVars, breakerVars, budgetVars, runVars>>
        /\ \/ ask[a].breaker \notin Answers \cup {"off"} /\ BreakerTo(a, answer)
           \/ ask[a].budget \notin Answers \cup {"off"} /\ BudgetTo(a, answer, 0)
    BY <1>6 DEF EvaluatorFails
  <2>2. /\ answer \in BreakerSteps \ {"off"} /\ answer \in Answers
        /\ answer \in BudgetSteps \ {"off"} /\ 0 \in 0..MaxSpent
    BY NoAskType DEF BreakerSteps, BudgetSteps, Answers
  <2> HIDE DEF answer
  <2>3. CASE ask[a].breaker \notin Answers \cup {"off"} /\ BreakerTo(a, answer)
    <3>1. /\ AskTypeOK'
          /\ ask'[a].breaker = answer /\ ask'[a].sure = (ask[a].sure /\ answer \notin Answers)
          /\ \A b \in Askers \ {a} : ask'[b] = ask[b]
          /\ \A b \in Askers : ask'[b] = NoAsk <=> ask[b] = NoAsk
      BY <1>0, <2>2, <2>3, BreakerToFacts
    <3>2. SureInv'
      <4>1. ~ask'[a].sure
        BY <2>2, <3>1
      <4>2. QED
        BY <1>0, <1>b, <2>1, <3>1, <4>1 DEF SureInv
    <3>3. QED
      BY <1>0, <1>a, <1>b, <1>c, <1>d, <1>f, <2>1, <3>1, <3>2
  <2>4. CASE ask[a].budget \notin Answers \cup {"off"} /\ BudgetTo(a, answer, 0)
    <3>1. /\ AskTypeOK'
          /\ \A b \in Askers : ask'[b].breaker = ask[b].breaker /\ ask'[b].sure = ask[b].sure
          /\ \A b \in Askers : ask'[b] = NoAsk <=> ask[b] = NoAsk
      BY <1>0, <2>2, <2>4, BudgetToFacts
    <3>2. SureInv'
      BY <1>0, <1>b, <2>1, <3>1, SurelyKept
    <3>3. QED
      BY <1>0, <1>a, <1>b, <1>c, <1>d, <1>f, <2>1, <3>1, <3>2
  <2>5. QED
    BY <2>1, <2>3, <2>4
<1>7. ASSUME NEW v \in Viewers, View(v) PROVE IInv'
  <2>1. /\ ask[v] = NoAsk /\ FilterBegins(v) /\ UNCHANGED <<runVars, budgetVars>>
        /\ v \in Askers /\ v # Agent
    BY <1>7 DEF View, FilterBegins, Askers
  <2>2. /\ LedgerSafe /\ AskNext /\ BreakerNext
        /\ \A b \in Askers \ {v} : ask'[b] = ask[b]
    BY <1>0, <2>1, FilterBeginsFacts
  <2>3. QED
    BY <1>0, <1>a, <1>d, <1>f, <2>1, <2>2
<1>8. ASSUME NEW v \in Viewers, ViewEnds(v) PROVE IInv'
  <2>1. /\ ask' = [ask EXCEPT ![v] = NoAsk] /\ v \in Askers /\ v # Agent
        /\ UNCHANGED <<ledgerVars, breakerVars, budgetVars, runVars>>
    BY <1>8 DEF ViewEnds, Askers
  <2>2. /\ AskTypeOK' /\ ask'[v] = NoAsk
        /\ \A b \in Askers \ {v} : ask'[b] = ask[b]
    BY <1>0, <2>1, AskEnds
  <2>3. SureInv'
    BY <1>0, <1>b, <2>1, <2>2 DEF SureInv, NoAsk
  <2>4. QED
    BY <1>0, <1>a, <1>b, <1>c, <1>d, <1>f, <2>1, <2>2, <2>3
<1>9. ASSUME NEW c \in Confirmed, RunBegins(c) PROVE IInv'
  <2> DEFINE begun(stage, offer) ==
               [stage |-> stage, for |-> c, offer |-> offer,
                warned |-> Sure /\ ~(breaker = "open" /\ recovered)]
  <2>1. run = NoRun /\ ask[Agent] = NoAsk
    BY <1>0, <1>9 DEF RunBegins, RunTypeOK, NoRun
  <2>2. ASSUME NEW stage \in {"asking", "running"}, NEW offer \in BOOLEAN
        PROVE  /\ begun(stage, offer) \in Run
               /\ begun(stage, offer).stage = stage /\ begun(stage, offer).for = c
    <3>1. (Sure /\ ~(breaker = "open" /\ recovered)) \in BOOLEAN
      OBVIOUS
    <3>2. QED
      BY <2>2, <3>1 DEF Run
  <2>3. ASSUME NEW i \in Hits(c), run' = begun("running", cache[i].offer), MoveToEnd(i),
               UNCHANGED <<ledgerVars, breakerVars, budgetVars, ask>>
        PROVE  IInv'
    <3>1. i \in DOMAIN cache /\ cache[i].offer \in BOOLEAN
      <4>1. i \in DOMAIN cache /\ cache \in Seq(Entry)
        BY <1>0, <2>3 DEF Hits, CacheTypeOK
      <4>2. cache[i] \in Entry
        BY <4>1
      <4>3. QED
        BY <4>1, <4>2 DEF Entry
    <3>2. CacheTypeOK'
      BY <1>0, <2>3, <3>1, MoveToEndFacts
    <3>3. run' \in Run /\ run'.stage = "running"
      BY <2>2, <2>3, <3>1
    <3>4. RunTypeOK' /\ AskInv'
      BY <2>1, <2>3, <3>3 DEF RunTypeOK, AskInv
    <3>5. QED
      BY <1>a, <1>b, <1>c, <1>d, <1>e, <2>3, <3>2, <3>4
  <2>4. ASSUME Hits(c) = {}, run' = begun("asking", FALSE), FilterBegins(Agent),
               UNCHANGED cache
        PROVE  IInv'
    <3>1. LedgerSafe /\ AskNext /\ BreakerNext /\ ask'[Agent] # NoAsk
      BY <1>0, <2>1, <2>4, FilterBeginsFacts
    <3>2. UNCHANGED budgetVars
      BY <2>4 DEF FilterBegins
    <3>3. run' \in Run /\ run'.stage = "asking" /\ run'.for = c
      BY <2>2, <2>4
    <3>4. RunTypeOK' /\ AskInv' /\ CacheTypeOK'
      BY <1>0, <2>4, <3>1, <3>3 DEF RunTypeOK, AskInv, Hits, CacheTypeOK
    <3>5. QED
      BY <1>a, <1>d, <3>1, <3>2, <3>4
  <2>5. QED
    BY <1>9, <2>3, <2>4 DEF RunBegins
<1>10. CASE RunIsOffered
  <2>1. PICK others \in BOOLEAN :
          LET offer == AllShow(Agent) /\ others
          IN  /\ run' = [run EXCEPT !.stage = "running", !.offer = offer]
              /\ Remember(run.for, offer)
    BY <1>10, Zenon DEF RunIsOffered
  <2> DEFINE offer == AllShow(Agent) /\ others
  <2>2. /\ run.stage = "asking" /\ ask' = [ask EXCEPT ![Agent] = NoAsk]
        /\ UNCHANGED <<ledgerVars, breakerVars, budgetVars>>
    BY <1>10 DEF RunIsOffered
  <2>3. run \in Run
    BY <1>0, <2>2 DEF RunTypeOK, NoRun
  <2>4. offer \in BOOLEAN
    BY DEF AllShow
  <2>5. run' = [run EXCEPT !.stage = "running", !.offer = offer] /\ Remember(run.for, offer)
    BY <2>1
  <2> HIDE DEF offer
  <2>6. run' \in Run /\ run'.stage = "running" /\ run.for \in Confirmed
    BY <2>3, <2>4, <2>5 DEF Run
  <2>7. Hits(run.for) = {}
    BY <1>0, <2>2 DEF AskInv
  <2>8. CacheTypeOK'
    BY <1>0, <2>4, <2>5, <2>6, <2>7, RememberFacts
  <2>9. /\ AskTypeOK' /\ ask'[Agent] = NoAsk
        /\ \A b \in Askers \ {Agent} : ask'[b] = ask[b]
    BY <1>0, <2>2, AskEnds
  <2>10. SureInv'
    BY <1>0, <1>b, <2>2, <2>9 DEF SureInv, NoAsk
  <2>11. RunTypeOK' /\ AskInv'
    BY <2>6, <2>9 DEF RunTypeOK, AskInv
  <2>12. QED
    BY <1>a, <1>b, <1>c, <1>d, <2>2, <2>8, <2>9, <2>10, <2>11
<1>11. CASE ExecuteTool
  <2>1. PICK status \in Statuses : RecordExecution(status)
    BY <1>11 DEF ExecuteTool, Statuses
  <2>2. UNCHANGED <<breakerVars, budgetVars, ask, runVars>>
    BY <1>11 DEF ExecuteTool
  <2>3. LedgerSafe /\ Sure' = Sure
    BY <1>0, <2>1, RecordFacts
  <2>4. QED
    BY <1>a, <1>c, <1>d, <1>e, <1>f, <2>2, <2>3
<1>12. CASE RunEnds
  <2>1. /\ run' = NoRun /\ ask' = [ask EXCEPT ![Agent] = NoAsk]
        /\ UNCHANGED <<ledgerVars, breakerVars, budgetVars, cache>>
    BY <1>12 DEF RunEnds
  <2>2. /\ AskTypeOK' /\ ask'[Agent] = NoAsk
        /\ \A b \in Askers \ {Agent} : ask'[b] = ask[b]
    BY <1>0, <2>1, AskEnds
  <2>3. SureInv'
    BY <1>0, <1>b, <2>1, <2>2 DEF SureInv, NoAsk
  <2>4. RunTypeOK' /\ AskInv' /\ CacheTypeOK'
    BY <1>0, <2>1, <2>2 DEF RunTypeOK, AskInv, CacheTypeOK, NoRun
  <2>5. QED
    BY <1>a, <1>b, <1>c, <1>d, <2>1, <2>2, <2>3, <2>4
<1>13. CASE RecoveryElapses
  <2>1. /\ UNCHANGED <<ledgerVars, breaker, budgetVars, ask, runVars>>
        /\ recovered' = TRUE /\ trials' = 0
    BY <1>13 DEF RecoveryElapses
  <2>2. BreakerNext
    BY <1>0, <2>1 DEF BreakerTypeOK, TrialInv
  <2>3. QED
    BY <1>a, <1>b, <1>d, <1>e, <1>f, <2>1, <2>2
<1>14. CASE ReservationExpires
  <2>1. /\ reserved # <<>> /\ reserved' = Tail(reserved)
        /\ UNCHANGED <<ledgerVars, breakerVars, spent, ask, runVars>>
    BY <1>14 DEF ReservationExpires
  <2>2. BudgetNext
    BY <1>0, <2>1
  <2>3. QED
    BY <1>a, <1>b, <1>c, <1>e, <1>f, <2>1, <2>2
<1>15. CASE CostStored
  <2>1. /\ spent < MaxSpent /\ spent' = spent + 1
        /\ UNCHANGED <<ledgerVars, breakerVars, reserved, ask, runVars>>
    BY <1>15 DEF CostStored
  <2>2. BudgetNext
    BY <1>0, <2>1
  <2>3. QED
    BY <1>a, <1>b, <1>c, <1>e, <1>f, <2>1, <2>2
<1>16. CASE LedgerStores
  <2>1. /\ StoreBatch(1)
        /\ ask' = [a \in Askers |-> [ask[a] EXCEPT !.sure = @ /\ Sure']]
        /\ UNCHANGED <<breakerVars, budgetVars, runVars>>
    BY <1>16 DEF LedgerStores
  <2>2. LedgerSafe
    BY <1>0, <2>1, StoreFacts
  <2>3. \A a \in Askers :
          /\ ask[a] \in Ask /\ ask'[a] \in Ask
          /\ ask'[a].breaker = ask[a].breaker /\ ask'[a].budget = ask[a].budget
          /\ ask'[a].sure = (ask[a].sure /\ Sure')
          /\ ~ask[a].sure => ask'[a] = ask[a]
    <3> SUFFICES ASSUME NEW a \in Askers
                 PROVE  /\ ask[a] \in Ask /\ ask'[a] \in Ask
                        /\ ask'[a].breaker = ask[a].breaker /\ ask'[a].budget = ask[a].budget
                        /\ ask'[a].sure = (ask[a].sure /\ Sure')
                        /\ ~ask[a].sure => ask'[a] = ask[a]
      OBVIOUS
    <3>1. ask[a] \in Ask /\ ask'[a] = [ask[a] EXCEPT !.sure = @ /\ Sure']
      BY <1>0, <2>1 DEF AskTypeOK
    <3>2. Sure' \in BOOLEAN
      BY DEF Sure
    <3>3. QED
      BY <3>1, <3>2 DEF Ask
  <2>4. AskTypeOK'
    <3>1. ask' \in [Askers -> Ask]
      BY <2>1, <2>3
    <3>2. QED
      BY <1>0, <2>3, <3>1 DEF AskTypeOK
  <2>5. SureInv'
    BY <1>0, <2>3 DEF SureInv
  <2>6. ask'[Agent] = NoAsk <=> ask[Agent] = NoAsk
    <3>1. ask[Agent].sure => ask[Agent] # NoAsk /\ ask'[Agent] # NoAsk
      <4>1. ask[Agent].sure => ask[Agent].breaker # "off"
        BY <1>0 DEF SureInv
      <4>2. NoAsk.breaker = "off"
        BY DEF NoAsk
      <4>3. QED
        BY <1>0, <2>3, <4>1, <4>2
    <3>2. QED
      BY <1>0, <2>3, <3>1
  <2>7. QED
    BY <1>a, <1>c, <1>d, <1>f, <2>1, <2>2, <2>4, <2>5, <2>6
<1>17. QED
  BY <1>1, <1>2, <1>3, <1>4, <1>5, <1>6, <1>7, <1>8, <1>9, <1>10, <1>11, <1>12, <1>13,
     <1>14, <1>15, <1>16
  DEF Next

LEMMA Invariance == Spec => []IInv
  BY InitIInv, NextIInv, PTL DEF Spec

(* The state stays what the code keeps, in every interleaving: no answer is*)
(* cached twice or beyond the limit of the cache, and an evaluation of the *)
(* agent belongs to the run that asks.                                     *)
THEOREM VisibilityTypeOK == Spec => []TypeOK
<1>1. IInv => TypeOK
  BY DEF IInv
<1>2. QED
  BY Invariance, <1>1, PTL

(* However many ask at once, the capability is shown on trial once each    *)
(* time the recovery timeout has passed.                                   *)
THEOREM VisibilityOneTrial == Spec => []OneTrialPerRecovery
<1>1. IInv => OneTrialPerRecovery
  BY DEF IInv, TrialInv, OneTrialPerRecovery
<1>2. QED
  BY Invariance, <1>1, PTL

-----------------------------------------------------------------------------
(* Reservations                                                            *)

(* A reservation that is made fits behind those that are left; when the    *)
(* oldest is dropped, the others only have more room.                      *)
LEMMA NextReservationsFit ==
  ASSUME TypeOK, ReservationsFit, [Next]_vars
  PROVE  ReservationsFit'
<1>1. /\ reserved \in Seq(0..MaxSpent) /\ ask \in [Askers -> Ask]
      /\ \A i \in DOMAIN reserved : reserved[i] + Cost * i <= Limit
  BY DEF TypeOK, ReservationsFit
<1>2. ASSUME NEW a \in Askers, BudgetConcludes(a), reserved' # reserved
      PROVE  ReservationsFit'
  <2> DEFINE used == ask[a].used
             n == Len(reserved)
  <2>1. /\ Remaining(used) >= Cost
        /\ reserved' = Append(reserved, used)
    <3>1. \/ reserved' = reserved
          \/ ~(Remaining(used) < Cost) /\ reserved' = Append(reserved, used)
      BY <1>2 DEF BudgetConcludes
    <3>2. Remaining(used) \in Int
      BY <1>1 DEF Remaining, Ask
    <3>3. QED
      BY <1>2, <3>1, <3>2
  <2>2. used \in 0..MaxSpent /\ n \in Nat
    BY <1>1 DEF Ask
  <2>3. Cost * (n + 1) = Cost * n + Cost /\ Cost * n \in Nat
    BY <2>2
  <2>4. used + Cost * (n + 1) <= Limit
    <3>1. Limit - used - Cost * n >= Cost
      BY <2>1 DEF Remaining
    <3>2. Cost \in Nat /\ Limit \in Nat /\ used \in Nat
      BY <2>2, VisibilityAssumption
    <3>3. QED
      BY <2>3, <3>1, <3>2
  <2>5. /\ DOMAIN reserved' = 1..(n + 1) /\ reserved'[n + 1] = used
        /\ \A i \in 1..n : reserved'[i] = reserved[i]
    BY <1>1, <2>1, <2>2
  <2>6. \A i \in 1..(n + 1) : i \in 1..n \/ i = n + 1
    BY <2>2
  <2>7. \A i \in DOMAIN reserved' : reserved'[i] + Cost * i <= Limit
    <3> SUFFICES ASSUME NEW i \in 1..(n + 1) PROVE reserved'[i] + Cost * i <= Limit
      BY <2>5
    <3>1. CASE i = n + 1
      BY <2>4, <2>5, <3>1
    <3>2. CASE i \in 1..n
      BY <1>1, <2>5, <3>2
    <3>3. QED
      BY <2>6, <3>1, <3>2
  <2>8. QED
    BY <2>7 DEF ReservationsFit
<1>3. CASE ReservationExpires
  <2>1. reserved # <<>> /\ reserved' = Tail(reserved)
    BY <1>3 DEF ReservationExpires
  <2>2. \A i \in DOMAIN reserved' :
          i \in Nat /\ i + 1 \in DOMAIN reserved /\ reserved'[i] = reserved[i + 1]
    BY <1>1, <2>1
  <2>3. \A i \in Nat : Cost * (i + 1) = Cost * i + Cost /\ Cost * i \in Nat
    OBVIOUS
  <2>4. \A i \in DOMAIN reserved' : reserved'[i] + Cost * i <= Limit
    <3> SUFFICES ASSUME NEW i \in DOMAIN reserved' PROVE reserved'[i] + Cost * i <= Limit
      OBVIOUS
    <3>1. reserved[i + 1] + Cost * (i + 1) <= Limit /\ reserved[i + 1] \in 0..MaxSpent
      BY <1>1, <2>2
    <3>2. QED
      BY <2>2, <2>3, <3>1
  <2>5. QED
    BY <2>4 DEF ReservationsFit
<1>4. CASE UNCHANGED reserved
  BY <1>4 DEF ReservationsFit
<1>5. UNCHANGED reserved \/ ReservationExpires \/ \E a \in Askers : BudgetConcludes(a)
  <2>1. CASE UNCHANGED vars
    BY <2>1 DEF vars, budgetVars
  <2>2. ASSUME NEW a \in Askers,
               BreakerReads(a) \/ BreakerConcludes(a) \/ BudgetReads(a) \/ EvaluatorFails(a)
        PROVE  UNCHANGED reserved
    BY <2>2 DEF BreakerReads, BreakerConcludes, BudgetReads, EvaluatorFails, budgetVars
  <2>3. ASSUME NEW v \in Viewers, View(v) \/ ViewEnds(v) PROVE UNCHANGED reserved
    BY <2>3 DEF View, ViewEnds, FilterBegins, budgetVars
  <2>4. ASSUME NEW c \in Confirmed, RunBegins(c) PROVE UNCHANGED reserved
    BY <2>4 DEF RunBegins, FilterBegins, budgetVars
  <2>5. /\ RunIsOffered => UNCHANGED reserved
        /\ ExecuteTool => UNCHANGED reserved
        /\ RunEnds => UNCHANGED reserved
    <3>1. RunIsOffered => UNCHANGED reserved
      BY DEF RunIsOffered, budgetVars
    <3>2. ExecuteTool => UNCHANGED reserved
      BY DEF ExecuteTool, budgetVars
    <3>3. RunEnds => UNCHANGED reserved
      BY DEF RunEnds, budgetVars
    <3>4. QED
      BY <3>1, <3>2, <3>3
  <2>6. RecoveryElapses \/ CostStored \/ LedgerStores => UNCHANGED reserved
    BY DEF RecoveryElapses, CostStored, LedgerStores, budgetVars
  <2>7. QED
    BY <2>1, <2>2, <2>3, <2>4, <2>5, <2>6 DEF Next
<1>6. QED
  BY <1>2, <1>3, <1>4, <1>5

(* Every reservation that is left fits the budget on the cost it was made  *)
(* on, with all that were made before it.                                  *)
THEOREM VisibilityReservationsFit == Spec => []ReservationsFit
<1>1. Init => ReservationsFit
  BY DEF Init, ReservationsFit
<1>2. TypeOK /\ ReservationsFit /\ [Next]_vars => ReservationsFit'
  BY NextReservationsFit
<1>3. QED
  BY VisibilityTypeOK, <1>1, <1>2, PTL DEF Spec
=============================================================================
