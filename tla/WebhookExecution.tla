-------------------------- MODULE WebhookExecution --------------------------
(***************************************************************************)
(* Webhook requests that carry an idempotency key                          *)
(* (src/owlclaw/triggers/webhook/execution.py): requests of one key take   *)
(* turns under an asyncio.Lock made for the key, the first one runs the    *)
(* agent with retries, and its result, good or bad, answers the others     *)
(* until it expires or is pushed out of the bounded cache. Locks are       *)
(* removed with the entries, to bound the table of locks.                  *)
(*                                                                         *)
(* A request without a key shares nothing with the others and is left out. *)
(***************************************************************************)
EXTENDS Naturals, FiniteSets, Sequences, Functions

CONSTANTS MaxRequests,  \* bound: requests at a time
          Keys,         \* idempotency keys
          MaxEntries,   \* max_idempotency_entries
          MaxAttempts,  \* max_attempts of the retry policy
          None

ASSUME WebhookAssumption ==
  /\ MaxRequests \in Nat
  /\ MaxEntries \in Nat \ {0}
  /\ MaxAttempts \in Nat \ {0}
  /\ IsFiniteSet(Keys) /\ Keys \cap (1..MaxRequests) = {}
  /\ None \notin Keys \cup (1..MaxRequests)

VARIABLES
  cache,     \* keys of _idempotency, in the order of the dict
  expired,   \* those whose expires_at has passed
  table,     \* _idempotency_locks: the lock of each key
  holder,    \* of each lock, None if it is not locked
  waiters,   \* of each lock, the first one is awake if it is not locked
  key,       \* of each request
  lockOf,    \* the lock a request waits for or holds
  stage,     \* where each request is suspended
  attempt,   \* attempts of each request so far
  tries,     \* runs of the agent for each key since it was last forgotten
  lost       \* keys whose lock was removed while somebody waited for it

cacheVars == <<cache, expired>>
lockVars == <<table, holder, waiters>>
requestVars == <<key, lockOf, stage, attempt>>
vars == <<cacheVars, lockVars, requestVars, tries, lost>>

Requests == 1..MaxRequests

(* Lock objects: enough for one to be free whenever one is made.           *)
Locks == Keys \cup Requests
Running(r) == stage[r] = "running"
Live == Range(cache) \ expired
Unlocked(l) == holder[l] = None

TypeOK ==
  /\ cache \in Seq(Keys) /\ Len(cache) <= MaxEntries
  /\ expired \subseteq Range(cache)
  /\ table \in [Keys -> Locks \cup {None}]
  /\ holder \in [Locks -> Requests \cup {None}]
  /\ waiters \in [Locks -> Seq(Requests)]
  /\ key \in [Requests -> Keys \cup {None}]
  /\ lockOf \in [Requests -> Locks \cup {None}]
  /\ stage \in [Requests -> {"idle", "waiting", "running"}]
  /\ attempt \in [Requests -> 0..MaxAttempts]
  /\ tries \in [Keys -> Nat]
  /\ lost \subseteq Keys
  /\ \A r \in Requests : Running(r) <=> \E l \in Locks : holder[l] = r

Init ==
  /\ cache = <<>> /\ expired = {}
  /\ table = [k \in Keys |-> None]
  /\ holder = [l \in Locks |-> None]
  /\ waiters = [l \in Locks |-> <<>>]
  /\ key = [r \in Requests |-> None]
  /\ lockOf = [r \in Requests |-> None]
  /\ stage = [r \in Requests |-> "idle"]
  /\ attempt = [r \in Requests |-> 0]
  /\ tries = [k \in Keys |-> 0]
  /\ lost = {}

-----------------------------------------------------------------------------
(* Entering: the lock of the key, then the cache                           *)

(* The lock named after the key, unless that is still in use although it   *)
(* was removed from the table.                                             *)
InUse == {table[k] : k \in Keys} \cup {lockOf[r] : r \in Requests}
NewLock(k) == IF k \notin InUse THEN k ELSE CHOOSE l \in Locks : l \notin InUse
LockFor(k) == IF table[k] = None THEN NewLock(k) ELSE table[k]

(* s without the elements of D, the others in their order: what pop leaves *)
(* of a dict, and remove of the queue of a lock.                           *)
Without(s, D) ==
  LET left == {i \in DOMAIN s : s[i] \notin D}
      place(i) == Cardinality({h \in left : h <= i})
  IN  [j \in 1..Cardinality(left) |-> s[CHOOSE i \in left : place(i) = j]]

(* The state of a request that is over.                                    *)
Leave(r) ==
  /\ key' = [key EXCEPT ![r] = None]
  /\ lockOf' = [lockOf EXCEPT ![r] = None]
  /\ stage' = [stage EXCEPT ![r] = "idle"]
  /\ attempt' = [attempt EXCEPT ![r] = 0]

(* Nothing is promised, or counted, of a key whose lock was lost.          *)
CountTry(k, n) == tries' = [tries EXCEPT ![k] = IF k \in lost THEN 0 ELSE n]

(* Mutant of Answered: who gets the lock does not look at the cache again. *)
AnsweredNever(k) == FALSE

Answered(k) == k \in Live

(* _trigger_internal up to the first call of the agent, by a request that  *)
(* has just been given lock l; with an answer it leaves at once.           *)
Begin(r, k, l) ==
  IF Answered(k)
    THEN Leave(r) /\ UNCHANGED <<holder, cacheVars, tries>>
    ELSE /\ holder' = [holder EXCEPT ![l] = r]
         /\ cache' = Without(cache, {k})
         /\ expired' = expired \ {k}
         /\ CountTry(k, IF k \in expired THEN 1 ELSE tries[k] + 1)
         /\ key' = [key EXCEPT ![r] = k]
         /\ lockOf' = [lockOf EXCEPT ![r] = l]
         /\ stage' = [stage EXCEPT ![r] = "running"]
         /\ attempt' = [attempt EXCEPT ![r] = 1]

(* A new request takes the first free name. The lock is given at once if   *)
(* nobody has it and nobody waits for it.                                  *)
Arrive(r, k) ==
  /\ stage[r] = "idle" /\ \A q \in 1..(r - 1) : stage[q] # "idle"
  /\ table' = [table EXCEPT ![k] = LockFor(k)]
  /\ LET l == LockFor(k) IN
       IF Unlocked(l) /\ waiters[l] = <<>>
         THEN Begin(r, k, l) /\ UNCHANGED waiters
         ELSE /\ waiters' = [waiters EXCEPT ![l] = Append(@, r)]
              /\ key' = [key EXCEPT ![r] = k]
              /\ lockOf' = [lockOf EXCEPT ![r] = l]
              /\ stage' = [stage EXCEPT ![r] = "waiting"]
              /\ UNCHANGED <<holder, cacheVars, attempt, tries>>
  /\ UNCHANGED lost

(* The first waiter of a lock that was released gets to run.               *)
Awake(r) ==
  /\ stage[r] = "waiting"
  /\ Unlocked(lockOf[r]) /\ Head(waiters[lockOf[r]]) = r

Wake(r) ==
  /\ Awake(r)
  /\ LET l == lockOf[r] IN
       /\ waiters' = [waiters EXCEPT ![l] = Without(@, {r})]
       /\ Begin(r, key[r], l)
  /\ UNCHANGED <<table, lost>>

-----------------------------------------------------------------------------
(* Running the agent                                                       *)

(* A timeout or a connection error, with an attempt left: the agent is run *)
(* again, after a delay in which nothing changes for the others. What timed*)
(* out may have done its work.                                             *)
Retry(r) ==
  /\ Running(r)
  /\ attempt[r] < MaxAttempts
  /\ attempt' = [attempt EXCEPT ![r] = @ + 1]
  /\ CountTry(key[r], tries[key[r]] + 1)
  /\ UNCHANGED <<cacheVars, lockVars, key, lockOf, stage, lost>>

(* A key that is in the dict already keeps its place.                      *)
WithEntry(k) == IF k \in Range(cache) THEN cache ELSE Append(cache, k)

MayRemove(l) == l # None /\ Unlocked(l)

(* record_idempotency and _trim_idempotency_cache: expired entries go, then*)
(* the oldest ones, each with its lock if it is not locked, and locks      *)
(* without an entry if there are too many. asyncio's lock is not locked    *)
(* while the waiter it was released to has not run yet.                    *)
RecordIdempotency(k) ==
  LET alive == Without(WithEntry(k), expired \ {k})
      excess == IF Len(alive) > MaxEntries THEN Len(alive) - MaxEntries ELSE 0
      kept == SubSeq(alive, excess + 1, Len(alive))
      forgotten == Range(WithEntry(k)) \ Range(kept)
      first == {j \in forgotten : MayRemove(table[j])}
      left == {j \in Keys \ first : table[j] # None}
      second == IF Cardinality(left) <= 2 * MaxEntries THEN {}
                ELSE {j \in left \ Range(kept) : MayRemove(table[j])}
      removed == first \cup second
      losing == {j \in removed : waiters[table[j]] # <<>>}
  IN  /\ cache' = kept
      /\ expired' = {}
      /\ table' = [j \in Keys |-> IF j \in removed THEN None ELSE table[j]]
      /\ lost' = lost \cup losing
      /\ tries' = [j \in Keys |-> IF j \in forgotten \cup losing THEN 0 ELSE tries[j]]

(* Mutant of Release: the lock is left locked.                             *)
ReleaseNothing(r) ==
  /\ Leave(r)
  /\ UNCHANGED <<holder, waiters>>

Release(r) ==
  /\ holder' = [holder EXCEPT ![lockOf[r]] = None]
  /\ Leave(r)
  /\ UNCHANGED waiters

(* The result, or the error of the last attempt, is recorded for an hour.  *)
Concludes(r) ==
  /\ Running(r)
  /\ RecordIdempotency(key[r])
  /\ Release(r)

(* A request that is cancelled leaves no result: what it ran is forgotten. *)
Cancelled(r) ==
  /\ \/ /\ stage[r] = "waiting"
        /\ waiters' = [waiters EXCEPT ![lockOf[r]] = Without(@, {r})]
        /\ Leave(r)
        /\ UNCHANGED <<holder, tries>>
     \/ /\ Running(r)
        /\ Release(r)
        /\ CountTry(key[r], 0)
  /\ UNCHANGED <<cacheVars, table, lost>>

(* An hour passes.                                                         *)
Expire ==
  /\ \E k \in Live : expired' = expired \cup {k}
  /\ UNCHANGED <<cache, lockVars, requestVars, tries, lost>>

-----------------------------------------------------------------------------
Next ==
  \/ \E r \in Requests :
       (\E k \in Keys : Arrive(r, k)) \/ Wake(r) \/ Retry(r) \/ Concludes(r) \/ Cancelled(r)
  \/ Expire

(* What a request that is awake or running does to its stage.              *)
MovesOn(r) ==
  /\ Awake(r) \/ Running(r)
  /\ \E to \in {"running", "idle"} \ {stage[r]} : stage' = [stage EXCEPT ![r] = to]

(* Woken tasks run, and a run ends: the agent returns, the attempts time   *)
(* out (without timeout_seconds, by the run timeout of the agent) and are  *)
(* used up, or the request is cancelled.                                   *)
Fairness == \A r \in Requests : WF_stage(MovesOn(r))

Spec == Init /\ [][Next]_vars /\ Fairness

-----------------------------------------------------------------------------
(* Properties                                                              *)

(* However many requests carry one key, one of them runs the agent at a    *)
(* time, and together they run it no more often than one request may, until*)
(* the key is forgotten: it expired, was pushed out of the cache, or its   *)
(* request was cancelled. This breaks only where the lock was removed from *)
(* the table between its release and the step of the waiter it was released*)
(* to (_trigger_with_idempotency_lock, _trim_idempotency_cache).           *)
OneRunPerKey ==
  \A k \in Keys \ lost :
    /\ Cardinality({r \in Requests : Running(r) /\ key[r] = k}) <= 1
    /\ tries[k] <= MaxAttempts

(* Every request is answered or cancelled, in spite of the requests that   *)
(* keep coming, removed locks and cancelled waiters: nobody is left waiting*)
(* for a lock.                                                             *)
EveryRequestEnds == \A r \in Requests : stage[r] # "idle" ~> stage[r] = "idle"
=============================================================================
