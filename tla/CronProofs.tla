----------------------------- MODULE CronProofs -----------------------------
(***************************************************************************)
(* Proofs about CronTrigger for every number of fires, records and days and*)
(* every configuration: its types, that runs do not overlap and none of the*)
(* agent begins under an open breaker, the daily limit as far as the ledger*)
(* is stored, and that an open breaker latches.                            *)
(***************************************************************************)
EXTENDS CronTrigger, FiniteSetTheorems, TLAPS

USE LedgerViewAssumption, CronAssumption

Records == [kind : Kinds, status : Statuses, run : Run]

(* Fires take turns.                                                       *)
OneFire == \A f, g \in Fires : stage[f] # "idle" /\ stage[g] # "idle" => f = g

(* A fire is marked as one that ran something while it does.               *)
RanInv ==
  \A f \in Fires :
    /\ stage[f] \in Acting => run[f].ran
    /\ stage[f] \in {"idle"} \cup Checking => ~run[f].ran

ClosedInv == \A f \in Fires : stage[f] \in {"agent", "fallback"} => ~open

(* The breaker opens on a full window, and no run of the agent has ended   *)
(* since.                                                                  *)
LatchInv ==
  open =>
    /\ Cardinality(stored) >= Window
    /\ \A r \in 1..accepted :
         openedAt < r /\ records[r].kind = "run" => records[r].status # "success"

IInv == TypeOK /\ OneFire /\ RanInv /\ ClosedInv /\ LatchInv /\ DailyLimitWhenSeen

-----------------------------------------------------------------------------
(* The ledger                                                              *)

(* Sets of records, or of fires, have a size.                              *)
LEMMA SizeFacts ==
  ASSUME NEW n \in Nat, NEW T, T \subseteq 1..n, NEW S, S \subseteq T
  PROVE  /\ IsFiniteSet(T) /\ Cardinality(T) \in Nat
         /\ IsFiniteSet(S) /\ Cardinality(S) \in Nat
         /\ Cardinality(S) <= Cardinality(T)
<1>1. IsFiniteSet(1..n)
  BY FS_Interval
<1>2. IsFiniteSet(T)
  BY <1>1, FS_Subset
<1>3. IsFiniteSet(S) /\ Cardinality(S) <= Cardinality(T)
  BY <1>2, FS_Subset
<1>4. QED
  BY <1>2, <1>3, FS_CardinalityType

LEMMA StoredFacts ==
  ASSUME TypeOK
  PROVE  accepted \in Nat /\ stored \subseteq 1..accepted /\ Cardinality(stored) \in Nat
<1>1. accepted \in Nat /\ stored \subseteq 1..accepted
  BY DEF TypeOK, LedgerTypeOK, accepted, stored
<1>2. QED
  BY <1>1, SizeFacts

(* What a record changes: it comes last, and nothing stored is touched.    *)
LEMMA RecordFacts ==
  ASSUME TypeOK, NEW kind \in Kinds, NEW status \in Statuses, NEW of \in Run,
         Record(kind, status, of)
  PROVE  LET new == [kind |-> kind, status |-> status, run |-> IF of.ran THEN of ELSE NoRun]
         IN  /\ accepted < MaxRecords /\ accepted' = accepted + 1
             /\ \A r \in 1..accepted : records'[r] = records[r]
             /\ records'[accepted + 1] = new
             /\ UNCHANGED <<storedOn, batchEnds>>
             /\ stored \subseteq stored'
             /\ LedgerTypeOK(Records, Days)'
<1> DEFINE new == [kind |-> kind, status |-> status, run |-> IF of.ran THEN of ELSE NoRun]
<1>1. /\ records \in Seq(Records) /\ accepted = Len(records)
      /\ storedOn \in [1..MaxRecords -> Days \cup {0}] /\ batchEnds \subseteq stored
  BY DEF TypeOK, LedgerTypeOK, accepted, Records
<1>2. new \in Records
  <2>1. NoRun \in Run
    BY DEF NoRun, Run, Days
  <2>2. QED
    BY <2>1 DEF Records
<1>3. /\ accepted < MaxRecords /\ records' = Append(records, new)
      /\ UNCHANGED <<storedOn, batchEnds>>
  BY DEF Record, RecordExecution
<1> HIDE DEF new
<1>4. /\ accepted' = accepted + 1 /\ records' \in Seq(Records)
      /\ \A r \in 1..accepted : records'[r] = records[r]
      /\ records'[accepted + 1] = new
  BY <1>1, <1>2, <1>3 DEF accepted
<1>5. stored \subseteq stored'
  BY <1>1, <1>3, <1>4 DEF stored
<1>6. accepted' <= MaxRecords
  BY <1>1, <1>3, <1>4
<1>7. LedgerTypeOK(Records, Days)'
  BY <1>1, <1>3, <1>4, <1>5, <1>6 DEF LedgerTypeOK
<1>8. QED
  BY <1>3, <1>4, <1>5, <1>7 DEF new

(* The types a record keeps.                                               *)
LEMMA RecordTypes ==
  ASSUME TypeOK, NEW kind \in Kinds, NEW status \in Statuses, NEW of \in Run,
         Record(kind, status, of)
  PROVE  LedgerTypeOK(Records, Days)' /\ accepted' \in Nat /\ accepted <= accepted'
<1>1. accepted \in Nat
  BY DEF TypeOK, LedgerTypeOK, accepted
<1>2. LedgerTypeOK(Records, Days)' /\ accepted' = accepted + 1
  BY RecordFacts
<1>3. QED
  BY <1>1, <1>2

(* A batch adds to what is stored and changes nothing of it.               *)
LEMMA StoreFacts ==
  ASSUME TypeOK, StoreBatch(today)
  PROVE  /\ UNCHANGED records
         /\ stored \subseteq stored'
         /\ LedgerTypeOK(Records, Days)'
<1>1. /\ records \in Seq(Records) /\ accepted = Len(records) /\ accepted <= MaxRecords
      /\ storedOn \in [1..MaxRecords -> Days \cup {0}] /\ batchEnds \subseteq stored
      /\ today \in Days
  BY DEF TypeOK, LedgerTypeOK, accepted, Records
<1>2. PICK S \in SUBSET Storable :
        /\ storedOn' = [r \in 1..MaxRecords |-> IF r \in S THEN today ELSE storedOn[r]]
        /\ batchEnds' = batchEnds \cup {r \in S : \A s \in S : s <= r}
  BY DEF StoreBatch
<1>3. records' = records /\ accepted' = accepted
  BY DEF StoreBatch, accepted
<1>4. today # 0 /\ 1..accepted \subseteq 1..MaxRecords /\ S \subseteq 1..accepted
  BY <1>1, <1>2 DEF Days, Storable
<1>5. stored' = stored \cup S
  BY <1>1, <1>2, <1>3, <1>4 DEF stored
<1>6. storedOn' \in [1..MaxRecords -> Days \cup {0}]
  BY <1>1, <1>2
<1>7. QED
  BY <1>1, <1>2, <1>3, <1>5, <1>6 DEF LedgerTypeOK

-----------------------------------------------------------------------------
(* The steps of a run, by what they do                                     *)

(* The run is recorded. Only the agent makes a success.                    *)
Ends(f, status) ==
  /\ stage[f] \in Checking \cup Acting
  /\ status \in Statuses /\ (status = "success" => stage[f] = "agent")
  /\ Finish(f, status, run[f])
  /\ UNCHANGED <<run, excused, breakerVars, slot>>

(* The checks have passed, or something raised.                            *)
Begins(f, s) ==
  /\ \/ stage[f] = "count" /\ s \in {"agent", "fallback"}
        /\ CountedRuns(run[f].on) < MaxDailyRuns /\ ~open
     \/ stage[f] \in Checking \cup {"agent", "fallback"} /\ s = "rescue"
  /\ Begin(f, s)
  /\ UNCHANGED <<breakerVars, slot>>

Advances(f) ==
  /\ stage[f] = "cooldown"
  /\ Proceed(f, "count")
  /\ UNCHANGED <<breakerVars, slot>>

Leaves(f) == UpdateCircuitBreaker(f) \/ UpdateFails(f)

LEMMA RunsCases ==
  ASSUME TypeOK, NEW f \in Fires, Runs(f)
  PROVE  /\ UNCHANGED <<enabled, notes, today>>
         /\ \/ \E status \in Statuses : Ends(f, status)
            \/ \E s \in Acting : Begins(f, s)
            \/ Advances(f)
            \/ Leaves(f)
<1>1. {"failed", "skipped", "fallback", "success"} \subseteq Statuses
  BY DEF Statuses
<1>2. CASE CheckCooldown(f)
  <2>1. Ends(f, "skipped") \/ Advances(f)
    BY <1>2, <1>1 DEF CheckCooldown, Skip, Ends, Advances, Checking
  <2>2. QED
    BY <1>1, <1>2, <2>1 DEF CheckCooldown
<1>3. CASE CheckDailyRuns(f)
  <2>1. CASE Skip(f)
    <3>1. Ends(f, "skipped")
      BY <1>1, <1>3, <2>1 DEF CheckDailyRuns, Skip, Ends, Checking
    <3>2. QED
      BY <1>1, <1>3, <3>1 DEF CheckDailyRuns
  <2>2. CASE ~Skip(f)
    <3>1. ~(CountedRuns(run[f].on) >= MaxDailyRuns) /\ ~open
      BY <1>3, <2>2 DEF CheckDailyRuns, BreakerAllows
    <3>2. PICK p \in Paths : Begin(f, p)
      BY <1>3, <2>2, <3>1 DEF CheckDailyRuns, BreakerAllows
    <3>3. CountedRuns(run[f].on) < MaxDailyRuns
      <4>1. CountedRuns(run[f].on) \in Nat
        <5>1. {r \in stored : storedOn[r] = run[f].on} \subseteq stored
          OBVIOUS
        <5>2. QED
          BY <5>1, StoredFacts, SizeFacts DEF CountedRuns
      <4>2. QED
        BY <3>1, <4>1
    <3>4. Begins(f, p) /\ p \in Acting
      BY <1>3, <3>1, <3>2, <3>3 DEF CheckDailyRuns, Begins, Acting
    <3>5. QED
      BY <1>3, <3>4 DEF CheckDailyRuns
  <2>3. QED
    BY <2>1, <2>2
<1>4. CASE Fails(f)
  <2>1. HandleFailure(f) /\ stage[f] \in Checking \cup {"agent", "fallback"}
        /\ UNCHANGED <<enabled, breakerVars, slot, notes, today>>
    BY <1>4 DEF Fails
  <2>2. CASE Strategy = "never"
    <3>1. Finish(f, "failed", run[f]) /\ UNCHANGED <<run, excused>>
      BY <2>1, <2>2 DEF HandleFailure
    <3>2. Ends(f, "failed")
      BY <1>1, <2>1, <3>1 DEF Ends, Acting
    <3>3. QED
      BY <1>1, <2>1, <3>2
  <2>3. CASE Strategy # "never" /\ ~HasFallback
    <3>1. Skip(f)
      BY <2>1, <2>3 DEF HandleFailure
    <3>2. Ends(f, "skipped")
      BY <1>1, <2>1, <3>1 DEF Ends, Acting, Skip
    <3>3. QED
      BY <1>1, <2>1, <3>2
  <2>4. CASE Strategy # "never" /\ HasFallback
    <3>1. Begin(f, "rescue")
      BY <2>1, <2>4 DEF HandleFailure
    <3>2. Begins(f, "rescue") /\ "rescue" \in Acting
      BY <2>1, <3>1 DEF Begins, Acting
    <3>3. QED
      BY <2>1, <3>2
  <2>5. QED
    BY <2>2, <2>3, <2>4
<1>5. CASE AgentReturns(f)
  <2>1. Ends(f, "success")
    BY <1>1, <1>5 DEF AgentReturns, Ends, Acting
  <2>2. QED
    BY <1>1, <1>5, <2>1 DEF AgentReturns
<1>6. CASE FallbackReturns(f)
  <2>1. Ends(f, "fallback")
    BY <1>1, <1>6 DEF FallbackReturns, Ends, Acting
  <2>2. QED
    BY <1>1, <1>6, <2>1 DEF FallbackReturns
<1>7. CASE RescueFails(f) \/ Cancelled(f)
  <2>1. Ends(f, "failed")
    BY <1>1, <1>7 DEF RescueFails, Cancelled, Ends, Acting
  <2>2. QED
    BY <1>1, <1>7, <2>1 DEF RescueFails, Cancelled
<1>8. CASE Leaves(f)
  BY <1>8 DEF Leaves, UpdateCircuitBreaker, UpdateFails
<1>9. QED
  BY <1>2, <1>3, <1>4, <1>5, <1>6, <1>7, <1>8 DEF Runs, Leaves

(* Steps that leave the fires alone: the ledger is told of something, or   *)
(* stores, or time passes.                                                 *)
Aside == PauseTrigger \/ ResumeTrigger \/ RecordManagementAction \/ TriggerNow
           \/ LedgerStores \/ NewDay \/ UNCHANGED vars

LEMMA AsideFacts ==
  ASSUME TypeOK, Aside
  PROVE  /\ UNCHANGED <<stage, run, slot, breakerVars, excused>>
         /\ \/ UNCHANGED ledgerVars
            \/ Record("operator", "success", NoRun)
            \/ StoreBatch(today)
  BY DEF Aside, PauseTrigger, ResumeTrigger, SetEnabled, RecordManagementAction, TriggerNow,
         LedgerStores, NewDay, vars, breakerVars, ledgerVars

LEMMA NextCases ==
  ASSUME TypeOK, [Next]_vars
  PROVE  \/ Aside
         \/ \E f \in Fires : Fire(f)
         \/ \E f \in Fires : (\E status \in Statuses : Ends(f, status))
                               /\ UNCHANGED <<enabled, notes, today>>
         \/ \E f \in Fires : (\E s \in Acting : Begins(f, s)) /\ UNCHANGED <<enabled, notes, today>>
         \/ \E f \in Fires : Advances(f) /\ UNCHANGED <<enabled, notes, today>>
         \/ \E f \in Fires : Leaves(f) /\ UNCHANGED <<enabled, notes, today>>
  BY RunsCases DEF Next, Aside

-----------------------------------------------------------------------------
(* Types, and fires that take turns                                        *)

LEMMA StageTypes ==
  /\ Checking \subseteq Stages /\ Acting \subseteq Stages
  /\ "evaluating" \in Stages /\ "idle" \in Stages
  /\ "idle" \notin Checking \cup Acting /\ "evaluating" \notin Checking \cup Acting
  /\ Checking \cap Acting = {}
  BY DEF Stages, Checking, Acting

(* The fire that is taken on finds all others idle.                        *)
LEMMA FireFacts ==
  ASSUME IInv, NEW f \in Fires, Fire(f)
  PROVE  /\ \A g \in Fires : stage[g] = "idle"
         /\ run' = [run EXCEPT ![f].on = today] /\ run' \in [Fires -> Run]
         /\ run'[f] = [on |-> today, ran |-> FALSE]
         /\ \E s \in Checking \cup {"evaluating"} : stage' = [stage EXCEPT ![f] = s]
         /\ UNCHANGED ledgerVars \/ Record("run", "skipped", run'[f])
         /\ slot' = TRUE
         /\ UNCHANGED <<enabled, breakerVars, notes, today, excused>>
<1>1. /\ stage[f] = "idle" /\ ~slot /\ slot' = TRUE
      /\ run' = [run EXCEPT ![f].on = today]
      /\ UNCHANGED <<enabled, breakerVars, notes, today, excused>>
  BY DEF Fire, SlotFree
<1>2. /\ \A g \in Fires : stage[g] = "idle"
      /\ run \in [Fires -> Run] /\ today \in Days
  BY <1>1 DEF IInv, TypeOK
<1>3. ~run[f].ran
  BY <1>1 DEF IInv, RanInv
<1>4. run' \in [Fires -> Run] /\ run'[f] = [on |-> today, ran |-> FALSE]
  BY <1>1, <1>2, <1>3 DEF Run
<1>5. /\ \E s \in Checking \cup {"evaluating"} : stage' = [stage EXCEPT ![f] = s]
      /\ UNCHANGED ledgerVars \/ Record("run", "skipped", run'[f])
  BY DEF Fire, Goto, Finish, Checking
<1>6. QED
  BY <1>1, <1>2, <1>4, <1>5

(* Where a run that leaves goes, and what becomes of the breaker.          *)
LEMMA LeaveFacts ==
  ASSUME TypeOK, NEW f \in Fires, Leaves(f)
  PROVE  /\ stage[f] = "evaluating" /\ stage' = [stage EXCEPT ![f] = "idle"]
         /\ run' = [run EXCEPT ![f] = NoRun] /\ slot' = FALSE
         /\ UNCHANGED <<ledgerVars, excused>>
         /\ \/ UNCHANGED <<open, openedAt>>
            \/ open' = FALSE /\ openedAt' = 0
            \/ /\ open' = TRUE /\ openedAt' = IF open THEN openedAt ELSE accepted
               /\ \E W \in Newest(Window) : Cardinality(W) >= Window
<1>1. CASE UpdateFails(f)
  BY <1>1 DEF UpdateFails, Release, Goto, breakerVars
<1>2. CASE UpdateCircuitBreaker(f)
  <2>1. PICK W \in Newest(Window) : open' = TooManyFailures(W)
    BY <1>2 DEF UpdateCircuitBreaker
  <2>2. open' \in BOOLEAN /\ (open' => Cardinality(W) >= Window)
    BY <2>1 DEF TooManyFailures
  <2>3. QED
    BY <1>2, <2>1, <2>2 DEF UpdateCircuitBreaker, Release, Goto
<1>3. QED
  BY <1>1, <1>2 DEF Leaves

LEMMA TypeStep ==
  ASSUME IInv, [Next]_vars
  PROVE  TypeOK'
<1>0. TypeOK /\ OneFire
  BY DEF IInv
<1>1. /\ stage \in [Fires -> Stages] /\ run \in [Fires -> Run] /\ today \in Days
      /\ openedAt \in 0..accepted /\ accepted \in Nat /\ excused \subseteq Days
      /\ LedgerTypeOK(Records, Days) /\ notes \in 0..MaxRecords
  BY <1>0 DEF TypeOK, Records, LedgerTypeOK, accepted
<1>2. CASE Aside
  <2>1. /\ UNCHANGED <<stage, run, slot, open, openedAt, excused>>
        /\ \/ UNCHANGED ledgerVars
           \/ Record("operator", "success", NoRun)
           \/ StoreBatch(today)
    BY <1>0, <1>2, AsideFacts DEF breakerVars
  <2>2. LedgerTypeOK(Records, Days)' /\ accepted' \in Nat /\ accepted <= accepted'
    <3>1. CASE UNCHANGED ledgerVars
      BY <1>1, <3>1 DEF LedgerTypeOK, ledgerVars, accepted, stored
    <3>2. CASE Record("operator", "success", NoRun)
      <4>1. "operator" \in Kinds /\ "success" \in Statuses /\ NoRun \in Run
        BY DEF Kinds, Statuses, NoRun, Run, Days
      <4>2. QED
        BY <1>0, <3>2, <4>1, RecordTypes
    <3>3. CASE StoreBatch(today)
      BY <1>0, <1>1, <3>3, StoreFacts DEF accepted
    <3>4. QED
      BY <2>1, <3>1, <3>2, <3>3
  <2>3. notes' \in 0..MaxRecords
    <3>1. CASE PauseTrigger \/ ResumeTrigger
      <4>1. PICK value : SetEnabled(value)
        BY <3>1 DEF PauseTrigger, ResumeTrigger
      <4>2. Cardinality({f \in Fires : stage[f] \in Checking \cup Acting}) \in Nat
        <5>1. IsFiniteSet(Fires)
          BY FS_Interval DEF Fires
        <5>2. {f \in Fires : stage[f] \in Checking \cup Acting} \subseteq Fires
          OBVIOUS
        <5>3. QED
          BY <5>1, <5>2, FS_Subset, FS_CardinalityType
      <4>3. notes' = notes + 1 /\ accepted + Owed < MaxRecords
        BY <4>1 DEF SetEnabled, HasRoom
      <4>4. QED
        BY <1>1, <4>2, <4>3 DEF Owed
    <3>2. CASE RecordManagementAction
      BY <1>1, <3>2 DEF RecordManagementAction
    <3>3. CASE TriggerNow \/ LedgerStores \/ NewDay \/ UNCHANGED vars
      BY <1>1, <3>3 DEF TriggerNow, LedgerStores, NewDay, vars
    <3>4. QED
      BY <1>2, <3>1, <3>2, <3>3 DEF Aside
  <2>4. today' \in Days
    BY <1>1, <1>2 DEF Aside, PauseTrigger, ResumeTrigger, SetEnabled, RecordManagementAction,
         TriggerNow, LedgerStores, NewDay, vars, Days
  <2>5. enabled' \in BOOLEAN
    BY <1>0, <1>2 DEF TypeOK, Aside, PauseTrigger, ResumeTrigger, SetEnabled,
         RecordManagementAction, TriggerNow, LedgerStores, NewDay, vars
  <2>6. QED
    BY <1>0, <1>1, <2>1, <2>2, <2>3, <2>4, <2>5 DEF TypeOK, Records
<1>3. ASSUME NEW f \in Fires, Fire(f) PROVE TypeOK'
  <2>1. PICK s \in Checking \cup {"evaluating"} : stage' = [stage EXCEPT ![f] = s]
    BY <1>3, FireFacts
  <2>2. /\ run' \in [Fires -> Run] /\ slot' = TRUE
        /\ UNCHANGED <<enabled, open, openedAt, notes, today, excused>>
        /\ UNCHANGED ledgerVars \/ Record("run", "skipped", run'[f])
    BY <1>3, FireFacts DEF breakerVars
  <2>3. LedgerTypeOK(Records, Days)' /\ accepted' \in Nat /\ accepted <= accepted'
    <3>1. CASE UNCHANGED ledgerVars
      BY <1>1, <3>1 DEF LedgerTypeOK, ledgerVars, accepted, stored
    <3>2. CASE Record("run", "skipped", run'[f])
      <4>1. "run" \in Kinds /\ "skipped" \in Statuses /\ run'[f] \in Run
        BY <2>2 DEF Kinds, Statuses
      <4>2. QED
        BY <1>0, <3>2, <4>1, RecordTypes
    <3>3. QED
      BY <2>2, <3>1, <3>2
  <2>4. stage' \in [Fires -> Stages] /\ stage'[f] # "idle"
    BY <1>1, <2>1, StageTypes
  <2>5. QED
    BY <1>0, <1>1, <2>2, <2>3, <2>4 DEF TypeOK, Records
<1>4. ASSUME NEW f \in Fires, NEW status \in Statuses, Ends(f, status),
             UNCHANGED <<enabled, notes, today>>
      PROVE  TypeOK'
  <2>1. /\ stage' = [stage EXCEPT ![f] = "evaluating"]
        /\ stage[f] \in Checking \cup Acting
        /\ Record("run", status, run[f])
        /\ UNCHANGED <<run, excused, open, openedAt, slot>>
    BY <1>4 DEF Ends, Finish, Goto, breakerVars
  <2>2. LedgerTypeOK(Records, Days)' /\ accepted' \in Nat /\ accepted <= accepted'
    <3>1. "run" \in Kinds /\ run[f] \in Run
      BY <1>1 DEF Kinds
    <3>2. QED
      BY <1>0, <2>1, <3>1, RecordTypes
  <2>3. /\ stage' \in [Fires -> Stages] /\ stage[f] # "idle" /\ stage'[f] # "idle"
    BY <1>1, <2>1, StageTypes
  <2>4. QED
    BY <1>0, <1>1, <1>4, <2>1, <2>2, <2>3 DEF TypeOK, Records
<1>5. ASSUME NEW f \in Fires, NEW s \in Acting, Begins(f, s),
             UNCHANGED <<enabled, notes, today>>
      PROVE  TypeOK'
  <2>1. /\ stage' = [stage EXCEPT ![f] = s] /\ run' = [run EXCEPT ![f].ran = TRUE]
        /\ stage[f] \in Checking \cup Acting
        /\ UNCHANGED <<records, storedOn, batchEnds, open, openedAt, slot>>
        /\ excused' = excused \/ excused' = excused \cup {run[f].on}
    BY <1>5 DEF Begins, Begin, Goto, breakerVars, ledgerVars, Checking, Acting
  <2>2. run' \in [Fires -> Run] /\ run[f].on \in Days
    BY <1>1, <2>1 DEF Run
  <2>3. /\ stage' \in [Fires -> Stages] /\ stage[f] # "idle" /\ stage'[f] # "idle"
    BY <1>1, <2>1, StageTypes
  <2>4. LedgerTypeOK(Records, Days)' /\ accepted' = accepted
    BY <1>1, <2>1 DEF LedgerTypeOK, accepted, stored
  <2>5. QED
    BY <1>0, <1>1, <1>5, <2>1, <2>2, <2>3, <2>4 DEF TypeOK, Records
<1>6. ASSUME NEW f \in Fires, Advances(f), UNCHANGED <<enabled, notes, today>>
      PROVE  TypeOK'
  <2>1. /\ stage' = [stage EXCEPT ![f] = "count"] /\ stage[f] = "cooldown"
        /\ UNCHANGED <<records, storedOn, batchEnds, run, excused, open, openedAt, slot>>
    BY <1>6 DEF Advances, Proceed, Goto, breakerVars, ledgerVars
  <2>2. stage' \in [Fires -> Stages] /\ stage'[f] # "idle"
    BY <1>1, <2>1 DEF Stages, Checking
  <2>3. LedgerTypeOK(Records, Days)' /\ accepted' = accepted
    BY <1>1, <2>1 DEF LedgerTypeOK, accepted, stored
  <2>4. QED
    BY <1>0, <1>1, <1>6, <2>1, <2>2, <2>3 DEF TypeOK, Records
<1>7. ASSUME NEW f \in Fires, Leaves(f), UNCHANGED <<enabled, notes, today>>
      PROVE  TypeOK'
  <2>1. /\ stage' = [stage EXCEPT ![f] = "idle"] /\ stage[f] = "evaluating"
        /\ run' = [run EXCEPT ![f] = NoRun] /\ slot' = FALSE
        /\ UNCHANGED <<records, storedOn, batchEnds, excused>>
    BY <1>0, <1>7, LeaveFacts DEF ledgerVars
  <2>5. open' \in BOOLEAN /\ openedAt' \in 0..accepted
    <3>1. \/ UNCHANGED <<open, openedAt>>
          \/ open' = FALSE /\ openedAt' = 0
          \/ open' = TRUE /\ openedAt' \in {openedAt, accepted}
      BY <1>0, <1>7, LeaveFacts
    <3>2. open \in BOOLEAN
      BY <1>0 DEF TypeOK
    <3>3. openedAt \in 0..accepted /\ accepted \in Nat
      BY <1>1
    <3>4. open' \in BOOLEAN
      BY <3>1, <3>2
    <3>5. openedAt' \in {openedAt, 0, accepted}
      BY <3>1
    <3>6. QED
      BY <3>3, <3>4, <3>5
  <2>2. stage' \in [Fires -> Stages] /\ run' \in [Fires -> Run]
    BY <1>1, <2>1, StageTypes DEF NoRun, Run, Days
  <2>3. \A g \in Fires : stage'[g] = "idle"
    BY <1>0, <1>1, <2>1 DEF OneFire
  <2>4. LedgerTypeOK(Records, Days)' /\ accepted' = accepted
    BY <1>1, <2>1 DEF LedgerTypeOK, accepted, stored
  <2>6. QED
    BY <1>0, <1>1, <1>7, <2>1, <2>2, <2>3, <2>4, <2>5 DEF TypeOK, Records
<1>8. QED
  BY <1>0, <1>2, <1>3, <1>4, <1>5, <1>6, <1>7, NextCases

(* A run that takes a step is alone, and stays so.                         *)
Steps(f) ==
  (\E status \in Statuses : Ends(f, status)) \/ (\E s \in Acting : Begins(f, s))
    \/ Advances(f) \/ Leaves(f)

LEMMA AloneFacts ==
  ASSUME IInv, NEW f \in Fires, Fire(f) \/ Steps(f)
  PROVE  \A g \in Fires : g # f => stage[g] = "idle" /\ stage'[g] = "idle"
<1>0. TypeOK /\ OneFire
  BY DEF IInv
<1>1. stage \in [Fires -> Stages]
  BY <1>0 DEF TypeOK
<1>2. CASE Fire(f)
  <2>1. /\ \A g \in Fires : stage[g] = "idle"
        /\ \E s \in Checking \cup {"evaluating"} : stage' = [stage EXCEPT ![f] = s]
    BY <1>2, FireFacts
  <2>2. QED
    BY <1>1, <2>1
<1>3. CASE Steps(f)
  <2>1. stage[f] # "idle" /\ \E s \in Stages : stage' = [stage EXCEPT ![f] = s]
    <3>1. CASE \E status \in Statuses : Ends(f, status)
      BY <3>1, StageTypes DEF Ends, Finish, Goto
    <3>2. CASE \E s \in Acting : Begins(f, s)
      BY <3>2, StageTypes DEF Begins, Begin, Goto, Checking, Acting
    <3>3. CASE Advances(f)
      BY <3>3 DEF Advances, Proceed, Goto, Stages, Checking
    <3>4. CASE Leaves(f)
      BY <1>0, <3>4, LeaveFacts, StageTypes
    <3>5. QED
      BY <1>3, <3>1, <3>2, <3>3, <3>4 DEF Steps
  <2>2. QED
    BY <1>0, <1>1, <2>1 DEF OneFire
<1>4. QED
  BY <1>2, <1>3

LEMMA StepCases ==
  ASSUME TypeOK, [Next]_vars
  PROVE  Aside \/ \E f \in Fires : Fire(f) \/ Steps(f)
  BY NextCases DEF Steps

LEMMA OneFireStep ==
  ASSUME IInv, [Next]_vars
  PROVE  OneFire'
<1>0. TypeOK
  BY DEF IInv
<1>1. CASE Aside
  <2>1. stage' = stage
    BY <1>0, <1>1, AsideFacts
  <2>2. QED
    BY <2>1 DEF IInv, OneFire
<1>2. ASSUME NEW f \in Fires, Fire(f) \/ Steps(f) PROVE OneFire'
  BY <1>2, AloneFacts DEF OneFire
<1>3. QED
  BY <1>0, <1>1, <1>2, StepCases

LEMMA RanStep ==
  ASSUME IInv, [Next]_vars
  PROVE  RanInv'
<1>0. TypeOK /\ RanInv
  BY DEF IInv
<1>1. stage \in [Fires -> Stages] /\ run \in [Fires -> Run]
  BY <1>0 DEF TypeOK
<1>2. CASE Aside
  <2>1. stage' = stage /\ run' = run
    BY <1>0, <1>2, AsideFacts
  <2>2. QED
    BY <1>0, <2>1 DEF RanInv
<1>3. ASSUME NEW f \in Fires, Fire(f) PROVE RanInv'
  <2>1. PICK s \in Checking \cup {"evaluating"} : stage' = [stage EXCEPT ![f] = s]
    BY <1>3, FireFacts
  <2>2. run' = [run EXCEPT ![f].on = today] /\ ~run'[f].ran
    <3>1. run' = [run EXCEPT ![f].on = today] /\ run'[f] = [on |-> today, ran |-> FALSE]
      BY <1>3, FireFacts
    <3>2. QED
      BY <3>1
  <2>3. s \notin Acting
    BY <2>1, StageTypes
  <2>4. QED
    BY <1>0, <1>1, <2>1, <2>2, <2>3 DEF RanInv
<1>4. ASSUME NEW f \in Fires, NEW status \in Statuses, Ends(f, status) PROVE RanInv'
  <2>1. stage' = [stage EXCEPT ![f] = "evaluating"] /\ run' = run
    BY <1>4 DEF Ends, Finish, Goto
  <2>2. QED
    BY <1>0, <1>1, <2>1, StageTypes DEF RanInv
<1>5. ASSUME NEW f \in Fires, NEW s \in Acting, Begins(f, s) PROVE RanInv'
  <2>1. stage' = [stage EXCEPT ![f] = s] /\ run' = [run EXCEPT ![f].ran = TRUE]
    BY <1>5 DEF Begins, Begin, Goto
  <2>2. run'[f].ran = TRUE /\ \A g \in Fires : g # f => run'[g] = run[g]
    BY <1>1, <2>1 DEF Run
  <2>3. QED
    BY <1>0, <1>1, <2>1, <2>2, StageTypes DEF RanInv
<1>6. ASSUME NEW f \in Fires, Advances(f) PROVE RanInv'
  <2>1. stage' = [stage EXCEPT ![f] = "count"] /\ stage[f] = "cooldown" /\ run' = run
    BY <1>6 DEF Advances, Proceed, Goto
  <2>2. QED
    BY <1>0, <1>1, <2>1 DEF RanInv, Checking, Acting
<1>7. ASSUME NEW f \in Fires, Leaves(f) PROVE RanInv'
  <2>1. stage' = [stage EXCEPT ![f] = "idle"] /\ run' = [run EXCEPT ![f] = NoRun]
    BY <1>0, <1>7, LeaveFacts
  <2>2. ~NoRun.ran
    BY DEF NoRun
  <2>3. QED
    BY <1>0, <1>1, <2>1, <2>2, StageTypes DEF RanInv
<1>8. QED
  BY <1>0, <1>2, <1>3, <1>4, <1>5, <1>6, <1>7, NextCases

-----------------------------------------------------------------------------
(* The breaker                                                             *)

(* The breaker changes when a run leaves, and all others are idle then.    *)
LEMMA ClosedStep ==
  ASSUME IInv, [Next]_vars
  PROVE  ClosedInv'
<1>0. TypeOK /\ ClosedInv
  BY DEF IInv
<1>1. stage \in [Fires -> Stages]
  BY <1>0 DEF TypeOK
<1>2. CASE Aside
  <2>1. stage' = stage /\ open' = open
    BY <1>0, <1>2, AsideFacts DEF breakerVars
  <2>2. QED
    BY <1>0, <2>1 DEF ClosedInv
<1>3. ASSUME NEW f \in Fires, Fire(f) \/ Steps(f) PROVE ClosedInv'
  <2>1. \A g \in Fires : g # f => stage'[g] = "idle"
    BY <1>3, AloneFacts
  <2>2. stage'[f] \in {"agent", "fallback"} => ~open'
    <3>1. CASE Fire(f)
      <4>1. PICK s \in Checking \cup {"evaluating"} : stage' = [stage EXCEPT ![f] = s]
        BY <3>1, FireFacts
      <4>2. QED
        BY <1>1, <4>1 DEF Checking
    <3>2. CASE \E status \in Statuses : Ends(f, status)
      BY <1>1, <3>2 DEF Ends, Finish, Goto
    <3>3. CASE \E s \in Acting : Begins(f, s)
      <4>1. PICK s \in Acting : Begins(f, s)
        BY <3>3
      <4>2. stage'[f] = s /\ open' = open /\ (s = "rescue" \/ ~open)
        BY <1>1, <4>1 DEF Begins, Begin, Goto, breakerVars
      <4>3. QED
        BY <4>2
    <3>4. CASE Advances(f)
      BY <1>1, <3>4 DEF Advances, Proceed, Goto
    <3>5. CASE Leaves(f)
      BY <1>0, <1>1, <3>5, LeaveFacts
    <3>6. QED
      BY <1>3, <3>1, <3>2, <3>3, <3>4, <3>5 DEF Steps
  <2>3. QED
    BY <2>1, <2>2 DEF ClosedInv
<1>4. QED
  BY <1>0, <1>2, <1>3, StepCases

(* What keeps the breaker from closing is kept by all that leaves it alone *)
(* and records no success of a run.                                        *)
LEMMA LatchKept ==
  ASSUME TypeOK, TypeOK', LatchInv, UNCHANGED <<open, openedAt>>, stored \subseteq stored',
         \A r \in 1..accepted : records'[r] = records[r],
         accepted' \in {accepted, accepted + 1},
         open /\ accepted' = accepted + 1 /\ records'[accepted + 1].kind = "run"
           => records'[accepted + 1].status # "success"
  PROVE  LatchInv'
<1> SUFFICES ASSUME open'
             PROVE  LatchInv'
  BY DEF LatchInv
<1>1. open
  OBVIOUS
<1>2. Cardinality(stored') >= Window
  <2>1. accepted' \in Nat /\ stored' \subseteq 1..accepted'
    BY DEF TypeOK, LedgerTypeOK, accepted, stored
  <2>2. Cardinality(stored) <= Cardinality(stored') /\ Cardinality(stored') \in Nat
    BY <2>1, SizeFacts
  <2>3. Cardinality(stored) \in Nat /\ Cardinality(stored) >= Window
    BY <1>1, StoredFacts DEF LatchInv
  <2>4. QED
    BY <2>2, <2>3
<1>3. ASSUME NEW r \in 1..accepted', openedAt' < r, records'[r].kind = "run"
      PROVE  records'[r].status # "success"
  <2>0. accepted \in Nat
    BY StoredFacts
  <2>1. CASE r \in 1..accepted
    BY <1>1, <1>3, <2>1 DEF LatchInv
  <2>2. CASE r = accepted + 1
    BY <1>1, <1>3, <2>0, <2>2
  <2>3. QED
    BY <2>0, <2>1, <2>2
<1>4. QED
  BY <1>2, <1>3 DEF LatchInv

LEMMA LatchStep ==
  ASSUME IInv, TypeOK', [Next]_vars
  PROVE  LatchInv'
<1>0. TypeOK /\ LatchInv /\ accepted \in Nat
  BY StoredFacts DEF IInv
<1>1. ASSUME UNCHANGED <<open, openedAt>>, UNCHANGED ledgerVars
      PROVE  LatchInv'
  <2>1. UNCHANGED <<records, storedOn>>
    BY <1>1 DEF ledgerVars
  <2>2. stored' = stored /\ accepted' = accepted
    BY <2>1 DEF stored, accepted
  <2>3. QED
    BY <1>0, <1>1, <2>1, <2>2, LatchKept
<1>2. ASSUME UNCHANGED <<open, openedAt>>,
             NEW kind \in Kinds, NEW status \in Statuses, NEW of \in Run, Record(kind, status, of),
             open /\ kind = "run" => status # "success"
      PROVE  LatchInv'
  <2>1. /\ accepted' = accepted + 1 /\ \A r \in 1..accepted : records'[r] = records[r]
        /\ records'[accepted + 1].kind = kind /\ records'[accepted + 1].status = status
        /\ stored \subseteq stored'
    <3> DEFINE new == [kind |-> kind, status |-> status, run |-> IF of.ran THEN of ELSE NoRun]
    <3>1. /\ accepted' = accepted + 1 /\ \A r \in 1..accepted : records'[r] = records[r]
          /\ records'[accepted + 1] = new /\ stored \subseteq stored'
      BY <1>0, <1>2, RecordFacts
    <3>2. new.kind = kind /\ new.status = status
      OBVIOUS
    <3>3. QED
      BY <3>1, <3>2
  <2>2. QED
    BY <1>0, <1>2, <2>1, LatchKept
<1>3. CASE Aside
  <2>1. UNCHANGED <<open, openedAt>>
    BY <1>0, <1>3, AsideFacts DEF breakerVars
  <2>2. CASE Record("operator", "success", NoRun)
    <3>1. "operator" \in Kinds /\ "success" \in Statuses /\ NoRun \in Run
      BY DEF Kinds, Statuses, NoRun, Run, Days
    <3>2. QED
      BY <1>2, <2>1, <2>2, <3>1
  <2>3. CASE StoreBatch(today)
    <3>1. records' = records /\ stored \subseteq stored'
      BY <1>0, <2>3, StoreFacts
    <3>2. accepted' = accepted
      BY <3>1 DEF accepted
    <3>3. QED
      BY <1>0, <2>1, <3>1, <3>2, LatchKept
  <2>4. QED
    BY <1>0, <1>1, <1>3, <2>1, <2>2, <2>3, AsideFacts
<1>4. ASSUME NEW f \in Fires, Fire(f) PROVE LatchInv'
  <2>1. UNCHANGED <<open, openedAt>> /\ run'[f] \in Run
    BY <1>4, FireFacts DEF breakerVars
  <2>2. CASE Record("run", "skipped", run'[f])
    <3>1. "run" \in Kinds /\ "skipped" \in Statuses
      BY DEF Kinds, Statuses
    <3>2. QED
      BY <1>2, <2>1, <2>2, <3>1
  <2>3. QED
    BY <1>1, <1>4, <2>1, <2>2, FireFacts
<1>5. ASSUME NEW f \in Fires, NEW status \in Statuses, Ends(f, status) PROVE LatchInv'
  <2>1. /\ UNCHANGED <<open, openedAt>> /\ Record("run", status, run[f])
        /\ status = "success" => stage[f] = "agent"
    BY <1>5 DEF Ends, Finish, breakerVars
  <2>2. "run" \in Kinds /\ run[f] \in Run
    BY <1>0 DEF Kinds, TypeOK
  <2>3. open => status # "success"
    BY <2>1 DEF IInv, ClosedInv
  <2>4. QED
    BY <1>2, <2>1, <2>2, <2>3
<1>6. ASSUME NEW f \in Fires, Advances(f) \/ \E s \in Acting : Begins(f, s) PROVE LatchInv'
  <2>1. UNCHANGED <<open, openedAt>> /\ UNCHANGED ledgerVars
    BY <1>6 DEF Advances, Proceed, Begins, Begin, breakerVars
  <2>2. QED
    BY <1>1, <2>1
<1>7. ASSUME NEW f \in Fires, Leaves(f) PROVE LatchInv'
  <2>1. UNCHANGED ledgerVars
    BY <1>0, <1>7, LeaveFacts
  <2>2. CASE UNCHANGED <<open, openedAt>>
    BY <1>1, <2>1, <2>2
  <2>3. CASE open' = FALSE
    BY <2>3 DEF LatchInv
  <2>4. CASE /\ open' = TRUE /\ openedAt' = IF open THEN openedAt ELSE accepted
             /\ \E W \in Newest(Window) : Cardinality(W) >= Window
    <3>1. CASE open
      BY <1>1, <2>1, <2>4, <3>1
    <3>2. CASE ~open
      <4>1. stored' = stored /\ accepted' = accepted /\ openedAt' = accepted
        BY <2>1, <2>4, <3>2 DEF ledgerVars, stored, accepted
      <4>2. Cardinality(stored) >= Window
        <5>1. PICK W \in Newest(Window) : Cardinality(W) >= Window
          BY <2>4
        <5>2. W \subseteq stored
          BY <5>1 DEF Newest
        <5>3. Cardinality(W) <= Cardinality(stored) /\ Cardinality(W) \in Nat
          BY <1>0, <5>2, StoredFacts, SizeFacts
        <5>4. QED
          BY <1>0, <5>1, <5>3, StoredFacts
      <4>3. QED
        BY <1>0, <4>1, <4>2 DEF LatchInv
    <3>3. QED
      BY <3>1, <3>2
  <2>5. QED
    BY <1>0, <1>7, <2>2, <2>3, <2>4, LeaveFacts
<1>8. QED
  BY <1>0, <1>3, <1>4, <1>5, <1>6, <1>7, NextCases

-----------------------------------------------------------------------------
(* The daily limit                                                         *)

(* What is recorded of a day grows by the runs that were run on it.        *)
LEMMA RanOnFacts ==
  ASSUME TypeOK, NEW kind \in Kinds, NEW status \in Statuses, NEW of \in Run,
         Record(kind, status, of), NEW d \in Days
  PROVE  /\ of.ran /\ of.on = d => RanOn(d)' = RanOn(d) \cup {accepted + 1}
         /\ ~(of.ran /\ of.on = d) => RanOn(d)' = RanOn(d)
<1> DEFINE last == IF of.ran THEN of ELSE NoRun
           new == [kind |-> kind, status |-> status, run |-> last]
<1>0. accepted \in Nat
  BY StoredFacts
<1>1. /\ accepted' = accepted + 1 /\ \A r \in 1..accepted : records'[r] = records[r]
      /\ records'[accepted + 1] = new
  BY RecordFacts
<1>2. records'[accepted + 1].run = last
  BY <1>1
<1>3. (last.ran /\ last.on = d) <=> (of.ran /\ of.on = d)
  BY DEF NoRun
<1> HIDE DEF last, new
<1>4. 1..accepted' = (1..accepted) \cup {accepted + 1}
  BY <1>0, <1>1
<1>5. RanOn(d)' = {r \in 1..accepted' : records'[r].run.ran /\ records'[r].run.on = d}
  BY DEF RanOn
<1>6. QED
  BY <1>1, <1>2, <1>3, <1>4, <1>5 DEF RanOn

LEMMA RanOnKept ==
  ASSUME UNCHANGED records, NEW d \in Days
  PROVE  RanOn(d)' = RanOn(d)
  BY DEF RanOn, accepted

(* Both halves of the limit have a size.                                   *)
LEMMA LimitTypes ==
  ASSUME TypeOK, NEW d \in Days
  PROVE  /\ RanOn(d) \subseteq 1..accepted /\ IsFiniteSet(RanOn(d))
         /\ Cardinality(RanOn(d)) \in Nat /\ Cardinality(RunningFor(d)) \in Nat
<1>1. RanOn(d) \subseteq 1..accepted /\ RunningFor(d) \subseteq 1..MaxFires
  BY DEF RanOn, RunningFor, Fires
<1>2. accepted \in Nat
  BY StoredFacts
<1>3. QED
  BY <1>1, <1>2, SizeFacts

(* A fire that ran something for the day and is recorded moves from what   *)
(* runs to what ran.                                                       *)
LEMMA EndKeepsLimit ==
  ASSUME IInv, NEW f \in Fires, NEW status \in Statuses, Ends(f, status), NEW d \in Days
  PROVE  Cardinality(RanOn(d)') + Cardinality(RunningFor(d)')
           = Cardinality(RanOn(d)) + Cardinality(RunningFor(d))
<1>0. TypeOK /\ RanInv /\ stage \in [Fires -> Stages] /\ run[f] \in Run
  BY DEF IInv, TypeOK
<1>1. /\ stage' = [stage EXCEPT ![f] = "evaluating"] /\ run' = run
      /\ Record("run", status, run[f]) /\ stage[f] \in Checking \cup Acting
  BY DEF Ends, Finish, Goto
<1>2. "run" \in Kinds
  BY DEF Kinds
<1>3. \A g \in Fires : g # f => stage[g] = "idle" /\ stage'[g] = "idle"
  BY AloneFacts DEF Steps
<1>4. RunningFor(d)' = {}
  <2>1. \A g \in Fires : stage'[g] \notin Acting
    BY <1>0, <1>1, <1>3, StageTypes
  <2>2. QED
    BY <2>1 DEF RunningFor
<1>5. CASE run[f].ran /\ run[f].on = d
  <2>1. RunningFor(d) = {f}
    <3>1. stage[f] \in Acting
      BY <1>0, <1>1, <1>5 DEF RanInv
    <3>2. QED
      BY <1>3, <1>5, <3>1, StageTypes DEF RunningFor
  <2>2. RanOn(d)' = RanOn(d) \cup {accepted + 1}
    BY <1>0, <1>1, <1>2, <1>5, RanOnFacts
  <2>3. Cardinality(RanOn(d) \cup {accepted + 1}) = Cardinality(RanOn(d)) + 1
    <3>1. accepted \in Nat /\ RanOn(d) \subseteq 1..accepted /\ IsFiniteSet(RanOn(d))
      BY <1>0, StoredFacts, LimitTypes
    <3>2. accepted + 1 \notin RanOn(d)
      BY <3>1
    <3>3. QED
      BY <3>1, <3>2, FS_AddElement
  <2>4. Cardinality({f}) = 1 /\ Cardinality({}) = 0
    BY FS_Singleton, FS_EmptySet
  <2>5. Cardinality(RanOn(d)) \in Nat
    BY <1>0, LimitTypes
  <2>6. QED
    BY <1>4, <2>1, <2>2, <2>3, <2>4, <2>5
<1>6. CASE ~(run[f].ran /\ run[f].on = d)
  <2>1. RanOn(d)' = RanOn(d)
    BY <1>0, <1>1, <1>2, <1>6, RanOnFacts
  <2>2. RunningFor(d) = {}
    BY <1>3, <1>6, StageTypes DEF RunningFor
  <2>3. QED
    BY <1>4, <2>1, <2>2
<1>7. QED
  BY <1>5, <1>6

(* A fire that begins on a day that is not excused is within the limit:    *)
(* nothing else runs, and all that ran was counted.                        *)
LEMMA BeginKeepsLimit ==
  ASSUME IInv, NEW f \in Fires, NEW s \in Acting, Begins(f, s), NEW d \in Days, d \notin excused'
  PROVE  ~(Cardinality(RanOn(d)') + Cardinality(RunningFor(d)') > MaxDailyRuns)
<1>0. /\ TypeOK /\ RanInv /\ DailyLimitWhenSeen
      /\ stage \in [Fires -> Stages] /\ run \in [Fires -> Run]
  BY DEF IInv, TypeOK
<1>1. /\ stage' = [stage EXCEPT ![f] = s] /\ run' = [run EXCEPT ![f].ran = TRUE]
      /\ records' = records /\ Begin(f, s)
  BY DEF Begins, Begin, Goto, ledgerVars
<1>2. RanOn(d)' = RanOn(d)
  BY <1>1, RanOnKept
<1>3. d \notin excused
  BY <1>1 DEF Begin
<1>4. ~(Cardinality(RanOn(d)) + Cardinality(RunningFor(d)) > MaxDailyRuns)
  BY <1>0, <1>3 DEF DailyLimitWhenSeen
<1>5. /\ \A g \in Fires : g # f => run'[g] = run[g]
      /\ run'[f].on = run[f].on /\ run'[f].ran
  BY <1>0, <1>1 DEF Run
<1>6. CASE run[f].on # d \/ stage[f] \in Acting
  <2>1. stage[f] \in Acting => run[f].ran
    BY <1>0 DEF RanInv
  <2>2. RunningFor(d)' = RunningFor(d)
    BY <1>0, <1>1, <1>5, <1>6, <2>1 DEF RunningFor
  <2>3. QED
    BY <1>2, <1>4, <2>2
<1>7. CASE run[f].on = d /\ stage[f] \notin Acting
  <2>1. ~(\E r \in RanOn(d) : storedOn[r] # d) /\ ~(s = "rescue" /\ stage[f] \in Checking)
    BY <1>1, <1>7 DEF Begin
  <2>2. CountedRuns(d) < MaxDailyRuns
    BY <1>7, <2>1 DEF Begins, Acting
  <2>3. RanOn(d) \subseteq {r \in stored : storedOn[r] = d}
    BY <2>1 DEF RanOn, stored, Days
  <2>4. Cardinality(RanOn(d)) <= CountedRuns(d) /\ CountedRuns(d) \in Nat
    <3>1. accepted \in Nat /\ {r \in stored : storedOn[r] = d} \subseteq 1..accepted
      BY <1>0, StoredFacts
    <3>2. QED
      BY <2>3, <3>1, SizeFacts DEF CountedRuns
  <2>5. RunningFor(d)' \subseteq {f}
    <3>1. \A g \in Fires : g # f => stage'[g] = "idle"
      BY AloneFacts DEF Steps
    <3>2. QED
      BY <3>1, StageTypes DEF RunningFor
  <2>6. Cardinality(RunningFor(d)') <= 1 /\ Cardinality(RunningFor(d)') \in Nat
    <3>1. IsFiniteSet({f}) /\ Cardinality({f}) = 1
      BY FS_Singleton
    <3>2. QED
      BY <2>5, <3>1, FS_Subset, FS_CardinalityType
  <2>7. Cardinality(RanOn(d)) \in Nat
    BY <1>0, LimitTypes
  <2>8. QED
    BY <1>2, <2>2, <2>4, <2>6, <2>7
<1>8. QED
  BY <1>6, <1>7

LEMMA LimitStep ==
  ASSUME IInv, [Next]_vars
  PROVE  DailyLimitWhenSeen'
<1>0. /\ TypeOK /\ RanInv /\ DailyLimitWhenSeen
      /\ stage \in [Fires -> Stages] /\ run \in [Fires -> Run]
  BY DEF IInv, TypeOK
<1> SUFFICES ASSUME NEW d \in Days, d \notin excused'
             PROVE  ~(Cardinality(RanOn(d)') + Cardinality(RunningFor(d)') > MaxDailyRuns)
  BY DEF DailyLimitWhenSeen
<1>1. ASSUME d \notin excused, RanOn(d)' = RanOn(d), RunningFor(d)' = RunningFor(d)
      PROVE  ~(Cardinality(RanOn(d)') + Cardinality(RunningFor(d)') > MaxDailyRuns)
  BY <1>0, <1>1 DEF DailyLimitWhenSeen
<1>2. CASE Aside
  <2>1. /\ UNCHANGED <<stage, run, excused>>
        /\ \/ UNCHANGED ledgerVars
           \/ Record("operator", "success", NoRun)
           \/ StoreBatch(today)
    BY <1>0, <1>2, AsideFacts
  <2>2. RunningFor(d)' = RunningFor(d)
    BY <2>1 DEF RunningFor
  <2>3. RanOn(d)' = RanOn(d)
    <3>1. CASE Record("operator", "success", NoRun)
      <4>1. "operator" \in Kinds /\ "success" \in Statuses /\ NoRun \in Run /\ ~NoRun.ran
        BY DEF Kinds, Statuses, NoRun, Run, Days
      <4>2. QED
        BY <1>0, <3>1, <4>1, RanOnFacts
    <3>2. CASE UNCHANGED ledgerVars \/ StoreBatch(today)
      BY <3>2, RanOnKept DEF ledgerVars, StoreBatch
    <3>3. QED
      BY <2>1, <3>1, <3>2
  <2>4. QED
    BY <1>1, <2>1, <2>2, <2>3
<1>3. ASSUME NEW f \in Fires, Fire(f)
      PROVE  ~(Cardinality(RanOn(d)') + Cardinality(RunningFor(d)') > MaxDailyRuns)
  <2>1. /\ \A g \in Fires : stage[g] = "idle"
        /\ run'[f] \in Run /\ run'[f] = [on |-> today, ran |-> FALSE]
        /\ UNCHANGED ledgerVars \/ Record("run", "skipped", run'[f])
        /\ excused' = excused
    BY <1>3, FireFacts
  <2>2. ~run'[f].ran
    BY <2>1
  <2>3. RanOn(d)' = RanOn(d)
    <3>1. CASE Record("run", "skipped", run'[f])
      <4>1. "run" \in Kinds /\ "skipped" \in Statuses
        BY DEF Kinds, Statuses
      <4>2. QED
        BY <1>0, <2>1, <2>2, <3>1, <4>1, RanOnFacts
    <3>2. CASE UNCHANGED ledgerVars
      BY <3>2, RanOnKept DEF ledgerVars
    <3>3. QED
      BY <2>1, <3>1, <3>2
  <2>4. RunningFor(d) = {} /\ RunningFor(d)' = {}
    <3>1. \A g \in Fires : g # f => stage'[g] = "idle"
      BY <1>3, AloneFacts
    <3>2. QED
      BY <2>1, <2>2, <3>1, StageTypes DEF RunningFor
  <2>5. QED
    BY <1>1, <2>1, <2>3, <2>4
<1>4. ASSUME NEW f \in Fires, NEW status \in Statuses, Ends(f, status)
      PROVE  ~(Cardinality(RanOn(d)') + Cardinality(RunningFor(d)') > MaxDailyRuns)
  <2>1. d \notin excused
    BY <1>4 DEF Ends
  <2>2. QED
    BY <1>0, <1>4, <2>1, EndKeepsLimit DEF DailyLimitWhenSeen
<1>5. ASSUME NEW f \in Fires, NEW s \in Acting, Begins(f, s)
      PROVE  ~(Cardinality(RanOn(d)') + Cardinality(RunningFor(d)') > MaxDailyRuns)
  BY <1>5, BeginKeepsLimit
<1>6. ASSUME NEW f \in Fires, Advances(f) \/ Leaves(f)
      PROVE  ~(Cardinality(RanOn(d)') + Cardinality(RunningFor(d)') > MaxDailyRuns)
  <2>1. /\ UNCHANGED <<records, excused>>
        /\ stage[f] \notin Acting /\ stage'[f] \notin Acting
    <3>1. CASE Advances(f)
      BY <1>0, <3>1 DEF Advances, Proceed, Goto, ledgerVars, Acting
    <3>2. CASE Leaves(f)
      BY <1>0, <3>2, LeaveFacts DEF ledgerVars, Acting
    <3>3. QED
      BY <1>6, <3>1, <3>2
  <2>2. \A g \in Fires : g # f => stage[g] = "idle" /\ stage'[g] = "idle"
    BY <1>6, AloneFacts DEF Steps
  <2>3. RunningFor(d) = {} /\ RunningFor(d)' = {}
    BY <2>1, <2>2, StageTypes DEF RunningFor
  <2>4. QED
    BY <1>1, <2>1, <2>3, RanOnKept
<1>7. QED
  BY <1>0, <1>2, <1>3, <1>4, <1>5, <1>6, NextCases

-----------------------------------------------------------------------------
(* The invariant, and the theorems                                         *)

LEMMA InitIInv == Init => IInv
<1> SUFFICES ASSUME Init PROVE IInv
  OBVIOUS
<1>1. records = <<>> /\ accepted = 0 /\ batchEnds = {} /\ storedOn \in [1..MaxRecords -> Days \cup {0}]
  BY DEF Init, LedgerInit, accepted
<1>2. LedgerTypeOK(Records, Days)
  BY <1>1 DEF LedgerTypeOK
<1>3. TypeOK
  <2>1. /\ stage \in [Fires -> Stages] /\ \A f \in Fires : stage[f] = "idle"
        /\ run \in [Fires -> Run]
    BY DEF Init, Stages, NoRun, Run, Days
  <2>2. today \in Days /\ notes \in 0..MaxRecords /\ openedAt \in 0..accepted
    BY <1>1 DEF Init, Days
  <2>3. enabled \in BOOLEAN /\ open \in BOOLEAN /\ slot \in BOOLEAN /\ ~slot /\ excused \subseteq Days
    BY DEF Init
  <2>4. QED
    BY <1>2, <2>1, <2>2, <2>3 DEF TypeOK, Records
<1>4. OneFire /\ ClosedInv /\ LatchInv
  BY DEF Init, OneFire, ClosedInv, LatchInv
<1>5. RanInv
  BY DEF Init, RanInv, NoRun, Acting
<1>6. DailyLimitWhenSeen
  <2> SUFFICES ASSUME NEW d \in Days
               PROVE  ~(Cardinality(RanOn(d)) + Cardinality(RunningFor(d)) > MaxDailyRuns)
    BY DEF DailyLimitWhenSeen
  <2>1. RanOn(d) = {} /\ RunningFor(d) = {}
    BY <1>1 DEF Init, RanOn, RunningFor, Acting
  <2>2. QED
    BY <2>1, FS_EmptySet
<1>7. QED
  BY <1>3, <1>4, <1>5, <1>6 DEF IInv

(* The inductive invariant: types, fires that take turns, a breaker that   *)
(* stays closed for the run that found it so, what keeps it open, and the  *)
(* daily limit.                                                            *)
THEOREM CronInvariance == Spec => []IInv
<1>1. IInv /\ [Next]_vars => IInv'
  <2> SUFFICES ASSUME IInv, [Next]_vars PROVE IInv'
    OBVIOUS
  <2>1. TypeOK'
    BY TypeStep
  <2>2. QED
    BY <2>1, OneFireStep, RanStep, ClosedStep, LatchStep, LimitStep DEF IInv
<1>2. QED
  BY InitIInv, <1>1, PTL DEF Spec

(* What the registry holds of a trigger keeps its types.                   *)
THEOREM CronTypeOK == Spec => []TypeOK
<1>1. IInv => TypeOK
  BY DEF IInv
<1>2. QED
  BY CronInvariance, <1>1, PTL

(* Runs of one trigger never overlap, and none of the agent or the drawn   *)
(* fallback is under way while the breaker is open.                        *)
THEOREM CronRunsGuarded == Spec => []RunsGuarded
<1>1. IInv => RunsGuarded
  <2> SUFFICES ASSUME IInv PROVE RunsGuarded
    OBVIOUS
  <2> DEFINE busy == {f \in Fires : stage[f] # "idle"}
  <2>1. Cardinality(busy) <= 1
    <3>1. CASE busy = {}
      BY <3>1, FS_EmptySet
    <3>2. CASE busy # {}
      <4>1. PICK f \in busy : TRUE
        BY <3>2
      <4>2. busy = {f}
        BY <4>1 DEF IInv, OneFire
      <4>3. QED
        BY <4>2, FS_Singleton
    <3>3. QED
      BY <3>1, <3>2
  <2>2. QED
    BY <2>1 DEF RunsGuarded, IInv, ClosedInv
<1>2. QED
  BY CronInvariance, <1>1, PTL

(* More runs than max_daily_runs on a day take one that the ledger had not *)
(* stored on its day, or one whose checks raised.                          *)
THEOREM CronDailyLimitWhenSeen == Spec => []DailyLimitWhenSeen
<1>1. IInv => DailyLimitWhenSeen
  BY DEF IInv
<1>2. QED
  BY CronInvariance, <1>1, PTL

(* An open breaker only closes on a success that is older than its opening,*)
(* an operator's, or a fallback's.                                         *)
THEOREM CronBreakerLatches == Spec => BreakerLatches
<1> DEFINE Latched ==
      open /\ ~open' =>
        \A W \in Newest(Window) : ~TooManyFailures(W) =>
          \E r \in W :
            /\ Succeeded(r)
            /\ r <= openedAt \/ records[r].kind = "operator" \/ records[r].status = "fallback"
<1>1. IInv => Latched
  <2> SUFFICES ASSUME IInv, open, NEW W \in Newest(Window), ~TooManyFailures(W)
               PROVE  \E r \in W :
                        /\ Succeeded(r)
                        /\ r <= openedAt \/ records[r].kind = "operator"
                                         \/ records[r].status = "fallback"
    OBVIOUS
  <2>1. TypeOK /\ LatchInv
    BY DEF IInv
  <2>2. /\ accepted \in Nat /\ stored \subseteq 1..accepted /\ Cardinality(stored) \in Nat
        /\ Cardinality(stored) >= Window
    BY <2>1, StoredFacts DEF LatchInv
  <2>3. W \subseteq stored /\ Cardinality(W) = Window
    BY <2>2 DEF Newest
  <2>4. PICK r \in W : Succeeded(r)
    <3>1. SUFFICES ASSUME \A r \in W : ~Succeeded(r) PROVE FALSE
      OBVIOUS
    <3>2. {r \in W : ~Succeeded(r)} = W
      BY <3>1
    <3>3. 2 * Cardinality(W) > Cardinality(W)
      BY <2>3
    <3>4. QED
      BY <2>3, <3>2, <3>3 DEF TooManyFailures
  <2>5. r \in 1..accepted /\ records[r].kind \in Kinds
    <3>1. r \in 1..accepted
      BY <2>2, <2>3
    <3>2. records \in Seq(Records) /\ accepted = Len(records)
      BY <2>1 DEF TypeOK, LedgerTypeOK, accepted, Records
    <3>3. records[r] \in Records
      BY <3>1, <3>2
    <3>4. QED
      BY <3>1, <3>3 DEF Records
  <2>6. openedAt < r /\ records[r].kind = "run" => records[r].status # "success"
    BY <2>1, <2>5 DEF LatchInv
  <2>7. openedAt \in Nat
    BY <2>1, <2>2 DEF TypeOK
  <2>8. QED
    BY <2>2, <2>4, <2>5, <2>6, <2>7 DEF Succeeded, Kinds
<1>2. QED
  BY CronInvariance, <1>1, PTL DEF Spec, BreakerLatches
=============================================================================
