----------------------------- MODULE Visibility -----------------------------
(***************************************************************************)
(* Whether an agent is offered one expensive capability                    *)
(* (src/owlclaw/governance/visibility.py): the filter asks the budget and  *)
(* the circuit breaker (governance/constraints) side by side, each of which*)
(* queries the ledger and then acts on the answer, and the other           *)
(* constraints, which keep no state. The runs of the agent ask it, one run *)
(* at a time, through a cache of answers (agent/runtime/runtime.py,        *)
(* _get_visible_tools), and so does the application for whoever looks at   *)
(* the agent (app.py, get_visible_capabilities), without one.              *)
(*                                                                         *)
(* The model only calls a tool it was offered. Costs are those of the      *)
(* current month.                                                          *)
(***************************************************************************)
EXTENDS LedgerView, SequencesExt

CONSTANTS Agent, Viewers,  \* who asks the filter
          Confirmed,       \* the sets of confirmed capabilities runs come with
          MaxCached,       \* entries of _visible_tools_cache (64)
          Threshold,       \* failure_threshold
          Cost,            \* estimated_cost, above high_cost_threshold
          Limit,           \* budget limit of the agent, 0 is taken for none
          MaxSpent,        \* bound: cost in the ledger
          FailPolicy       \* what an evaluator that fails counts as

ASSUME VisibilityAssumption ==
  /\ Agent \notin Viewers
  /\ MaxCached \in Nat \ {0} /\ Threshold \in Nat \ {0} /\ Cost \in Nat \ {0}
  /\ Limit \in Nat \ {0} /\ MaxSpent \in Nat
  /\ FailPolicy \in {"open", "close"}

VARIABLES
  breaker,    \* state in CircuitBreakerConstraint._states
  recovered,  \* the recovery timeout of an open breaker has passed
  trials,     \* showings in spite of failures since it last did: see Sure
  reserved,   \* the used cost each reservation that is left was made on
  spent,      \* cost of the agent that is stored in the ledger
  ask,        \* the evaluations in progress
  cache,      \* _visible_tools_cache, the entry used last at the end
  run         \* the run that holds the run lock

breakerVars == <<breaker, recovered, trials>>
budgetVars == <<reserved, spent>>
runVars == <<cache, run>>
vars == <<ledgerVars, breakerVars, budgetVars, ask, runVars>>

Askers == Viewers \cup {Agent}
BreakerSteps == {"off", "asking", "failing", "fine", "shown", "hidden"}
BudgetSteps == {"off", "asking", "read", "shown", "hidden"}
Answers == {"shown", "hidden"}
Ask == [breaker : BreakerSteps, budget : BudgetSteps, used : 0..MaxSpent, sure : BOOLEAN]
NoAsk == [breaker |-> "off", budget |-> "off", used |-> 0, sure |-> FALSE]
Entry == [for : Confirmed, offer : BOOLEAN]
Run == [stage : {"asking", "running"}, for : Confirmed, offer : BOOLEAN, warned : BOOLEAN]
NoRun == [stage |-> "idle"]

TypeOK ==
  /\ LedgerTypeOK({"success", "error"}, {1})
  /\ breaker \in {"closed", "open", "half_open"} /\ recovered \in BOOLEAN
  /\ trials \in Nat
  /\ reserved \in Seq(0..MaxSpent) /\ spent \in 0..MaxSpent
  /\ ask \in [Askers -> Ask]
  /\ \A a \in Askers : ask[a].breaker = "off" <=> ask[a].budget = "off"
  /\ cache \in Seq(Entry) /\ Len(cache) <= MaxCached
  /\ \A i, j \in DOMAIN cache : cache[i].for = cache[j].for => i = j
  /\ run \in Run \cup {NoRun}
  /\ run.stage = "asking" <=> ask[Agent] # NoAsk

Init ==
  /\ LedgerInit
  /\ breaker = "closed" /\ recovered = FALSE /\ trials = 0
  /\ reserved = <<>> /\ spent = 0
  /\ ask = [a \in Askers |-> NoAsk]
  /\ cache = <<>>
  /\ run = NoRun

-----------------------------------------------------------------------------
(* The circuit breaker                                                     *)

Failing(W) == Cardinality(W) = Threshold /\ \A r \in W : records[r] = "error"

(* Whatever the order of a batch, the last calls in the ledger failed. An  *)
(* evaluation is sure if they had when it began and no success was stored  *)
(* since.                                                                  *)
Sure == \A W \in Newest(Threshold) : Failing(W)

(* Mutant of Recover: the breaker stays open behind the trial.             *)
RecoverNothing == breaker' = breaker

Recover == breaker' = "half_open"

(* filter_capabilities starts both evaluations. An open breaker answers at *)
(* once, from memory; otherwise the ledger is asked.                       *)
FilterBegins(a) ==
  LET answer == IF breaker # "open" THEN "asking"
                ELSE IF recovered THEN "shown" ELSE "hidden"
  IN  /\ ask' = [ask EXCEPT ![a] = [breaker |-> answer, budget |-> "asking",
                                    used |-> 0, sure |-> answer = "asking" /\ Sure]]
      /\ IF answer = "shown" THEN Recover ELSE breaker' = breaker
      /\ trials' = IF answer = "shown" /\ Sure THEN trials + 1 ELSE trials
      /\ UNCHANGED <<ledgerVars, recovered, budgetVars>>

BreakerTo(a, step) ==
  ask' = [ask EXCEPT ![a].breaker = step, ![a].sure = @ /\ step \notin Answers]
BudgetTo(a, step, used) == ask' = [ask EXCEPT ![a].budget = step, ![a].used = used]

(* The ledger answers, and the evaluation goes on later.                   *)
BreakerReads(a) ==
  /\ ask[a].breaker = "asking"
  /\ \E W \in Newest(Threshold) : BreakerTo(a, IF Failing(W) THEN "failing" ELSE "fine")
  /\ UNCHANGED <<ledgerVars, breakerVars, budgetVars, runVars>>

BreakerConcludes(a) ==
  /\ \/ /\ ask[a].breaker = "failing"
        /\ BreakerTo(a, "hidden")
        /\ breaker' = "open" /\ recovered' = FALSE
        /\ UNCHANGED trials
     \/ /\ ask[a].breaker = "fine"
        /\ BreakerTo(a, "shown")
        /\ trials' = IF ask[a].sure THEN trials + 1 ELSE trials
        /\ UNCHANGED <<breaker, recovered>>
  /\ UNCHANGED <<ledgerVars, budgetVars, runVars>>

RecoveryElapses ==
  /\ breaker = "open" /\ ~recovered
  /\ recovered' = TRUE
  /\ trials' = 0
  /\ UNCHANGED <<ledgerVars, breaker, budgetVars, ask, runVars>>

-----------------------------------------------------------------------------
(* The budget                                                              *)

(* The cost is read before the lock of the reservations is taken.          *)
BudgetReads(a) ==
  /\ ask[a].budget = "asking"
  /\ BudgetTo(a, "read", spent)
  /\ UNCHANGED <<ledgerVars, breakerVars, budgetVars, runVars>>

(* Mutant of Remaining: what others have reserved is left out.             *)
RemainingUnreserved(used) == Limit - used

Remaining(used) == Limit - used - Cost * Len(reserved)

BudgetConcludes(a) ==
  /\ ask[a].budget = "read"
  /\ IF Remaining(ask[a].used) < Cost
       THEN BudgetTo(a, "hidden", 0) /\ UNCHANGED reserved
       ELSE /\ BudgetTo(a, "shown", 0)
            /\ reserved' = Append(reserved, ask[a].used)
  /\ UNCHANGED <<ledgerVars, breakerVars, spent, runVars>>

(* Reservations last equally long: the oldest one runs out first.          *)
ReservationExpires ==
  /\ reserved # <<>>
  /\ reserved' = Tail(reserved)
  /\ UNCHANGED <<ledgerVars, breakerVars, spent, ask, runVars>>

(* A call of the model is stored with its cost.                            *)
CostStored ==
  /\ spent < MaxSpent
  /\ spent' = spent + 1
  /\ UNCHANGED <<ledgerVars, breakerVars, reserved, ask, runVars>>

-----------------------------------------------------------------------------
(* The filter                                                              *)

(* A query raises, or takes longer than evaluator_timeout_seconds.         *)
EvaluatorFails(a) ==
  LET answer == IF FailPolicy = "close" THEN "hidden" ELSE "shown"
  IN  /\ \/ ask[a].breaker \notin Answers \cup {"off"} /\ BreakerTo(a, answer)
         \/ ask[a].budget \notin Answers \cup {"off"} /\ BudgetTo(a, answer, 0)
      /\ UNCHANGED <<ledgerVars, breakerVars, budgetVars, runVars>>

Answered(a) == ask[a].breaker \in Answers /\ ask[a].budget \in Answers
AllShow(a) == ask[a].breaker = "shown" /\ ask[a].budget = "shown"

View(v) ==
  /\ ask[v] = NoAsk
  /\ FilterBegins(v)
  /\ UNCHANGED runVars

(* The answer is shown, or whoever asked has gone.                         *)
ViewEnds(v) ==
  /\ ask[v] # NoAsk
  /\ ask' = [ask EXCEPT ![v] = NoAsk]
  /\ UNCHANGED <<ledgerVars, breakerVars, budgetVars, runVars>>

-----------------------------------------------------------------------------
(* Runs of the agent                                                       *)

Hits(c) == {i \in DOMAIN cache : cache[i].for = c}

(* Mutant of Remember: the size is looked at before the entry is added.    *)
RememberLate(c, offer) ==
  LET new == Append(cache, [for |-> c, offer |-> offer])
  IN  cache' = IF Len(cache) > MaxCached THEN Tail(new) ELSE new

(* A new entry comes in at the end, at the price of the first. There was   *)
(* none when the run began, and no other run has added one since.          *)
Remember(c, offer) ==
  LET new == Append(cache, [for |-> c, offer |-> offer])
  IN  cache' = IF Len(new) > MaxCached THEN Tail(new) ELSE new

(* An entry that is used goes to the end.                                  *)
MoveToEnd(i) == cache' = Append(RemoveAt(cache, i), cache[i])

(* The answer for the same confirmed capabilities is used again, however   *)
(* old it is: nothing but its eviction removes it.                         *)
RunBegins(c) ==
  /\ run = NoRun
  /\ LET begun(stage, offer) ==
           [stage |-> stage, for |-> c, offer |-> offer,
            warned |-> Sure /\ ~(breaker = "open" /\ recovered)]
     IN \/ \E i \in Hits(c) :
             /\ run' = begun("running", cache[i].offer)
             /\ MoveToEnd(i)
             /\ UNCHANGED <<ledgerVars, breakerVars, budgetVars, ask>>
        \/ /\ Hits(c) = {}
           /\ run' = begun("asking", FALSE)
           /\ FilterBegins(Agent)
           /\ UNCHANGED cache

(* The other constraints have their say as well.                           *)
RunIsOffered ==
  /\ run.stage = "asking" /\ Answered(Agent)
  /\ \E others \in BOOLEAN :
       LET offer == AllShow(Agent) /\ others
       IN  /\ run' = [run EXCEPT !.stage = "running", !.offer = offer]
           /\ Remember(run.for, offer)
  /\ ask' = [ask EXCEPT ![Agent] = NoAsk]
  /\ UNCHANGED <<ledgerVars, breakerVars, budgetVars>>

(* A call of the tool, once it is over. Every status but error counts as a *)
(* success.                                                                *)
ExecuteTool ==
  /\ run.stage = "running" /\ run.offer
  /\ \E status \in {"success", "error"} : RecordExecution(status)
  /\ UNCHANGED <<breakerVars, budgetVars, ask, runVars>>

(* The decision loop is over, or the run was cancelled or timed out.       *)
RunEnds ==
  /\ run # NoRun
  /\ run' = NoRun
  /\ ask' = [ask EXCEPT ![Agent] = NoAsk]
  /\ UNCHANGED <<ledgerVars, breakerVars, budgetVars, cache>>

LedgerStores ==
  /\ StoreBatch(1)
  /\ ask' = [a \in Askers |-> [ask[a] EXCEPT !.sure = @ /\ Sure']]
  /\ UNCHANGED <<breakerVars, budgetVars, runVars>>

-----------------------------------------------------------------------------
Next ==
  \/ \E a \in Askers :
       \/ BreakerReads(a) \/ BreakerConcludes(a)
       \/ BudgetReads(a) \/ BudgetConcludes(a)
       \/ EvaluatorFails(a)
  \/ \E v \in Viewers : View(v) \/ ViewEnds(v)
  \/ \E c \in Confirmed : RunBegins(c)
  \/ RunIsOffered \/ ExecuteTool \/ RunEnds
  \/ RecoveryElapses \/ ReservationExpires \/ CostStored \/ LedgerStores

Spec == Init /\ [][Next]_vars

-----------------------------------------------------------------------------
(* Properties                                                              *)

(* However many evaluations are under way, one of them at most shows the   *)
(* capability on trial each time the recovery timeout has passed, as long  *)
(* as the last calls in the ledger failed (CircuitBreakerConstraint:       *)
(* half-open is set before anybody else can look).                         *)
OneTrialPerRecovery == trials <= 1

(* Each reservation that is left fits the budget with those made before it *)
(* and with the cost it was made on, in whatever order evaluations read the*)
(* cost, took the lock and were dropped. It is the cost stored after that  *)
(* reading that may exceed the budget, and nothing else.                   *)
ReservationsFit == \A i \in DOMAIN reserved : reserved[i] + Cost * i <= Limit

(* "hide capability after consecutive failures" (circuit_breaker.py:1): no *)
(* run is offered the capability if, when it began, the last calls in the  *)
(* ledger had failed and no trial was due.                                 *)
HiddenAfterFailures == run.stage = "running" /\ run.offer => ~run.warned
=============================================================================
