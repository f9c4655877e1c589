---------------------------- MODULE CronTrigger ----------------------------
(***************************************************************************)
(* One cron trigger (src/owlclaw/triggers/cron.py) in one process: Hatchet *)
(* fires it, a run slot keeps runs apart, governance looks at what the     *)
(* ledger has stored, the agent or the fallback handler runs, and the run  *)
(* is recorded and the circuit breaker evaluated before the slot is given  *)
(* back. What governance and the breaker look at is the LedgerView.        *)
(***************************************************************************)
EXTENDS LedgerView

CONSTANTS MaxFires,      \* bound: fires of the trigger at a time
          MaxDays,       \* bound: days
          Window,        \* CircuitBreaker.window_size
          LookBack,      \* limit of _get_last_successful_execution
          MaxDailyRuns,  \* max_daily_runs
          HasCooldown,   \* cooldown_seconds > 0
          Paths,         \* what migration_weight lets the draw choose
          Strategy,      \* fallback_strategy
          HasFallback    \* there is a fallback_handler

ASSUME CronAssumption ==
  /\ MaxFires \in Nat
  /\ MaxDays \in Nat \ {0}
  /\ Window \in Nat \ {0} /\ LookBack \in Nat \ {0}
  /\ MaxDailyRuns \in Nat
  /\ HasCooldown \in BOOLEAN /\ HasFallback \in BOOLEAN
  /\ Paths # {} /\ Paths \subseteq {"agent", "fallback"}
  /\ Strategy \in {"never", "on_failure"}

VARIABLES
  enabled,    \* config.enabled
  open,       \* the event is in CircuitBreaker._open_events
  slot,       \* the trigger is in _active_runs
  stage,      \* where each fire is suspended
  run,        \* of each fire: the day it fired on, whether anything was run
  notes,      \* tasks that are going to record a pause or a resume
  today,
  openedAt,   \* records accepted when the breaker last opened
  excused     \* days on which the daily limit missed a run: see Begin

breakerVars == <<open, openedAt>>
vars == <<enabled, breakerVars, slot, stage, run, notes, ledgerVars, today, excused>>

Days == 1..MaxDays
Fires == 1..MaxFires
Checking == {"cooldown", "count"}
Acting == {"agent", "fallback", "rescue"}
Stages == {"idle", "evaluating"} \cup Checking \cup Acting
Statuses == {"success", "fallback", "failed", "skipped"}
Kinds == {"run", "operator"}
Run == [on : Days, ran : BOOLEAN]
NoRun == [on |-> 1, ran |-> FALSE]

TypeOK ==
  /\ enabled \in BOOLEAN /\ open \in BOOLEAN /\ slot \in BOOLEAN
  /\ stage \in [Fires -> Stages] /\ (slot <=> \E f \in Fires : stage[f] # "idle")
  /\ run \in [Fires -> Run]
  /\ notes \in 0..MaxRecords
  /\ LedgerTypeOK([kind : Kinds, status : Statuses, run : Run], Days)
  /\ today \in Days
  /\ openedAt \in 0..accepted
  /\ excused \subseteq Days

Init ==
  /\ enabled \in BOOLEAN   \* register: FALSE if cron is off in the settings
  /\ open = FALSE /\ openedAt = 0
  /\ slot = FALSE
  /\ stage = [f \in Fires |-> "idle"] /\ run = [f \in Fires |-> NoRun]
  /\ notes = 0
  /\ LedgerInit
  /\ today = 1
  /\ excused = {}

-----------------------------------------------------------------------------
(* The ledger and time                                                     *)

Record(kind, status, of) ==
  RecordExecution([kind |-> kind, status |-> status, run |-> IF of.ran THEN of ELSE NoRun])

LedgerStores ==
  /\ StoreBatch(today)
  /\ UNCHANGED <<enabled, breakerVars, slot, stage, run, notes, today, excused>>

NewDay ==
  /\ today < MaxDays
  /\ today' = today + 1
  /\ UNCHANGED <<enabled, breakerVars, slot, stage, run, notes, ledgerVars, excused>>

Succeeded(r) == records[r].status \in {"success", "fallback"}

-----------------------------------------------------------------------------
(* Operators                                                               *)

(* Records that are going to be accepted: nobody begins more than fit the  *)
(* bound.                                                                  *)
Owed == notes + Cardinality({f \in Fires : stage[f] \in Checking \cup Acting})
HasRoom == accepted + Owed < MaxRecords

(* pause_trigger and resume_trigger: the record is made by a task of its   *)
(* own. The Hatchet client has no pause_task: fires keep coming.           *)
SetEnabled(value) ==
  /\ HasRoom
  /\ enabled' = value
  /\ notes' = notes + 1
  /\ UNCHANGED <<breakerVars, slot, stage, run, ledgerVars, today, excused>>

PauseTrigger == SetEnabled(FALSE)
ResumeTrigger == SetEnabled(TRUE)

RecordManagementAction ==
  /\ notes > 0
  /\ notes' = notes - 1
  /\ Record("operator", "success", NoRun)
  /\ UNCHANGED <<enabled, breakerVars, slot, stage, run, today, excused>>

(* trigger_now asks Hatchet for a fire, which comes like any other, and    *)
(* records a success of its own.                                           *)
TriggerNow ==
  /\ HasRoom
  /\ Record("operator", "success", NoRun)
  /\ UNCHANGED <<enabled, breakerVars, slot, stage, run, notes, today,
                 excused>>

-----------------------------------------------------------------------------
(* _run_cron                                                               *)

Goto(f, s) == stage' = [stage EXCEPT ![f] = s]

(* The finally clause: the run is recorded, and the breaker asks the ledger*)
(* for the newest records.                                                 *)
Finish(f, status, of) ==
  /\ Record("run", status, of)
  /\ Goto(f, "evaluating")

(* Mutant of SlotFree: no look at the active runs.                         *)
SlotAlwaysFree == TRUE

SlotFree == ~slot

(* A new fire takes the first free name. One that finds the slot taken     *)
(* returns without a trace.                                                *)
Fire(f) ==
  /\ stage[f] = "idle" /\ \A g \in 1..(f - 1) : stage[g] # "idle"
  /\ HasRoom
  /\ SlotFree
  /\ slot' = TRUE
  /\ run' = [run EXCEPT ![f].on = today]
  /\ IF enabled
       THEN Goto(f, IF HasCooldown THEN "cooldown" ELSE "count") /\ UNCHANGED ledgerVars
       ELSE Finish(f, "skipped", run'[f])
  /\ UNCHANGED <<enabled, breakerVars, notes, today, excused>>

Skip(f) == Finish(f, "skipped", run[f]) /\ UNCHANGED <<run, excused>>
Proceed(f, s) == Goto(f, s) /\ UNCHANGED <<ledgerVars, run, excused>>

(* A success among the newest records is too young or old enough.          *)
CheckCooldown(f) ==
  /\ stage[f] = "cooldown"
  /\ \/ \E W \in Newest(LookBack) : (\E r \in W : Succeeded(r)) /\ Skip(f)
     \/ Proceed(f, "count")
  /\ UNCHANGED <<enabled, breakerVars, slot, notes, today>>

(* Mutant of CountedRuns: the limit looks at finished runs only.           *)
CountedSuccesses(day) == Cardinality({r \in stored : storedOn[r] = day /\ Succeeded(r)})

CountedRuns(day) == Cardinality({r \in stored : storedOn[r] = day})

(* What was run for the fires of a day: what is recorded, and what is not   *)
(* over.                                                                   *)
RanOn(day) == {r \in 1..accepted : records[r].run.ran /\ records[r].run.on = day}
RunningFor(day) == {f \in Fires : stage[f] \in Acting /\ run[f].ran /\ run[f].on = day}

(* Something is run for this fire. The daily limit missed an earlier run   *)
(* that is not stored on its day yet, or misses this one if the checks     *)
(* raised.                                                                 *)
Begin(f, s) ==
  /\ Goto(f, s)
  /\ run' = [run EXCEPT ![f].ran = TRUE]
  /\ excused' = IF \/ \E r \in RanOn(run[f].on) : storedOn[r] # run[f].on
                   \/ s = "rescue" /\ stage[f] \in Checking
                  THEN excused \cup {run[f].on} ELSE excused
  /\ UNCHANGED ledgerVars

(* Mutant of BreakerAllows: the breaker is not asked.                      *)
BreakerNotAsked == TRUE

BreakerAllows == ~open

(* The count of the day the trigger fired on, the breaker, and the draw    *)
(* between the agent and the fallback. max_daily_cost never refuses: the   *)
(* records of cron runs cost nothing.                                      *)
CheckDailyRuns(f) ==
  /\ stage[f] = "count"
  /\ IF CountedRuns(run[f].on) >= MaxDailyRuns \/ ~BreakerAllows
       THEN Skip(f)
       ELSE \E p \in Paths : IF p = "fallback" /\ ~HasFallback THEN Skip(f) ELSE Begin(f, p)
  /\ UNCHANGED <<enabled, breakerVars, slot, notes, today>>

(* _handle_failure. A run that failed and has no handler counts as skipped.*)
HandleFailure(f) ==
  CASE Strategy = "never" -> Finish(f, "failed", run[f]) /\ UNCHANGED <<run, excused>>
    [] Strategy # "never" /\ ~HasFallback -> Skip(f)
    [] OTHER -> Begin(f, "rescue")

(* The query of the ledger, the agent or the handler raises.               *)
Fails(f) ==
  /\ stage[f] \in Checking \cup {"agent", "fallback"}
  /\ HandleFailure(f)
  /\ UNCHANGED <<enabled, breakerVars, slot, notes, today>>

(* The agent returned, whatever its result says.                           *)
AgentReturns(f) ==
  /\ stage[f] = "agent"
  /\ Finish(f, "success", run[f])
  /\ UNCHANGED <<enabled, breakerVars, slot, run, notes, today, excused>>

FallbackReturns(f) ==
  /\ stage[f] \in {"fallback", "rescue"}
  /\ Finish(f, "fallback", run[f])
  /\ UNCHANGED <<enabled, breakerVars, slot, run, notes, today, excused>>

RescueFails(f) ==
  /\ stage[f] = "rescue"
  /\ Finish(f, "failed", run[f])
  /\ UNCHANGED <<enabled, breakerVars, slot, run, notes, today, excused>>

(* Cancelled by Hatchet: only the finally clause runs, and the run keeps   *)
(* the status it had, pending or running. No reader of the ledger tells    *)
(* these from failed.                                                      *)
Cancelled(f) ==
  /\ stage[f] \in Checking \cup Acting
  /\ Finish(f, "failed", run[f])
  /\ UNCHANGED <<enabled, breakerVars, slot, run, notes, today, excused>>

(* Mutant of Release: the finally clause ends without giving the slot back.*)
ReleaseNothing(f) ==
  /\ slot' = slot
  /\ Goto(f, "idle")
  /\ run' = [run EXCEPT ![f] = NoRun]

Release(f) ==
  /\ slot' = FALSE
  /\ Goto(f, "idle")
  /\ run' = [run EXCEPT ![f] = NoRun]

(* Mutant of TooManyFailures: what was skipped is left out.                *)
TooManyFailed(W) ==
  LET failed == {r \in W : ~Succeeded(r) /\ records[r].status # "skipped"}
  IN  Cardinality(W) >= Window /\ 2 * Cardinality(failed) > Cardinality(W)

(* evaluate, with the threshold of one half nobody configures.             *)
TooManyFailures(W) ==
  LET failed == {r \in W : ~Succeeded(r)}
  IN  Cardinality(W) >= Window /\ 2 * Cardinality(failed) > Cardinality(W)

UpdateCircuitBreaker(f) ==
  /\ stage[f] = "evaluating"
  /\ \E W \in Newest(Window) : open' = TooManyFailures(W)
  /\ openedAt' = IF ~open' THEN 0 ELSE IF open THEN openedAt ELSE accepted
  /\ Release(f)
  /\ UNCHANGED <<enabled, notes, ledgerVars, today, excused>>

(* The query raises, or the run is cancelled during it.                    *)
UpdateFails(f) ==
  /\ stage[f] = "evaluating"
  /\ Release(f)
  /\ UNCHANGED <<enabled, breakerVars, notes, ledgerVars, today, excused>>

-----------------------------------------------------------------------------
Runs(f) ==
  \/ CheckCooldown(f) \/ CheckDailyRuns(f) \/ Fails(f)
  \/ AgentReturns(f) \/ FallbackReturns(f) \/ RescueFails(f)
  \/ Cancelled(f)
  \/ UpdateCircuitBreaker(f) \/ UpdateFails(f)

Next ==
  \/ \E f \in Fires : Fire(f) \/ Runs(f)
  \/ PauseTrigger \/ ResumeTrigger \/ RecordManagementAction \/ TriggerNow
  \/ LedgerStores
  \/ NewDay

(* The queries are answered or raise; a run of the agent ends within its   *)
(* run timeout; that the user's handler ends, or Hatchet cancels the run,  *)
(* is assumed.                                                             *)
Fairness == \A f \in Fires : WF_vars(Runs(f))

Spec == Init /\ [][Next]_vars /\ Fairness

-----------------------------------------------------------------------------
(* Properties                                                              *)

(* One run at a time and none of the agent under an open breaker: runs of  *)
(* one trigger never overlap, however the fires do, and the breaker that a *)
(* run finds closed stays closed until that run ends (_acquire_run_slot;   *)
(* a second run that ended meanwhile could have opened it).                *)
RunsGuarded ==
  /\ Cardinality({f \in Fires : stage[f] # "idle"}) <= 1
  /\ \A f \in Fires : stage[f] \in {"agent", "fallback"} => ~open

(* The daily limit holds as far as the ledger is up to date: more runs than*)
(* max_daily_runs on one day take a run that began before the record of an *)
(* earlier one was stored on that day, or one whose checks raised, which   *)
(* the fallback handler then ran for.                                      *)
DailyLimitWhenSeen ==
  \A d \in Days :
    Cardinality(RanOn(d)) + Cardinality(RunningFor(d)) > MaxDailyRuns => d \in excused

(* A breaker that is open latches: the skipped runs it causes count as     *)
(* failures, so no run ended since can close it but one that the fallback  *)
(* handled because the checks raised. It takes a success recorded before it*)
(* opened and stored later, or a pause, a resume or a manual trigger, which*)
(* count as successes.                                                     *)
BreakerLatches ==
  [][open /\ ~open' =>
       \A W \in Newest(Window) : ~TooManyFailures(W) =>
         \E r \in W :
           /\ Succeeded(r)
           /\ r <= openedAt \/ records[r].kind = "operator" \/ records[r].status = "fallback"]_vars

(* Every run gives the slot back, however it ends: the trigger is not      *)
(* blocked for good (the nested finally of _run_cron).                     *)
SlotComesBack == slot ~> ~slot
=============================================================================
