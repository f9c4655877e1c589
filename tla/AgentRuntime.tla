---------------------------- MODULE AgentRuntime ----------------------------
(***************************************************************************)
(* The entry to the agent (src/owlclaw/agent/runtime/runtime.py, methods   *)
(* trigger_event and run) with the state that operators change by signals  *)
(* (src/owlclaw/triggers/signal), kept in memory as app.py wires it.       *)
(*                                                                         *)
(* Triggers call trigger_event concurrently. A call takes the pending      *)
(* instructions, is skipped while the agent is paused, queues for the run  *)
(* lock, puts the environment variables of the skills into the process     *)
(* environment, and runs: a heartbeat first looks for events, everything   *)
(* else goes straight to the decision loop, under the run timeout.         *)
(***************************************************************************)
EXTENDS Naturals, Sequences, SequencesExt

CONSTANTS Runs,             \* calls of trigger_event at a time, one run each
          MaxPending,       \* max_pending_instructions
          MaxInstructions,  \* bound: instruct signals
          OwnEnv            \* the environment the process started with

ASSUME RuntimeAssumption ==
  /\ MaxPending \in Nat \ {0}
  /\ MaxInstructions \in Nat
  /\ OwnEnv \notin Runs
  /\ "nothing" \notin Runs \cup {OwnEnv}

VARIABLES
  paused,       \* AgentState.paused
  issued,       \* instructions added so far, named 1, 2, ... in this order
  pending,      \* AgentState.pending_instructions, oldest first
  evicted,      \* instructions pushed out of a full list
  kind,         \* what each call was triggered by ("signal" between calls)
  stage,        \* how far each call is: "paused" if the guard skipped it,
                \* "over" if it left run, whatever its result (or never began)
  carried,      \* payload["signal_instructions"] of each call
  lock,         \* _run_lock: its holder, then the calls waiting for it
  env,          \* whose variables the process environment holds
  saved         \* _run_env_restore: what to put back, "nothing" if empty

signalVars == <<paused, issued, pending, evicted>>
callVars == <<kind, carried>>
envVars == <<env, saved>>
vars == <<signalVars, callVars, stage, lock, envVars>>

Kinds == {"signal", "heartbeat", "event"}
Ended == {"paused", "over"}
Stages == {"waiting", "checking", "looping", "hung"} \cup Ended
Environments == Runs \cup {OwnEnv}
Instructions == 1..MaxInstructions

TypeOK ==
  /\ paused \in BOOLEAN
  /\ issued \in 0..MaxInstructions
  /\ pending \in Seq(Instructions) /\ Len(pending) <= MaxPending
  /\ evicted \in SUBSET Instructions
  /\ kind \in [Runs -> Kinds]
  /\ stage \in [Runs -> Stages]
  /\ carried \in [Runs -> SUBSET Instructions]
  /\ lock \in Seq(Runs)
  /\ env \in Environments
  /\ saved \in Environments \cup {"nothing"}

Init ==
  /\ paused = FALSE
  /\ issued = 0
  /\ pending = <<>> /\ evicted = {}
  /\ kind = [r \in Runs |-> "signal"]
  /\ stage = [r \in Runs |-> "over"]
  /\ carried = [r \in Runs |-> {}]
  /\ lock = <<>>
  /\ env = OwnEnv
  /\ saved = "nothing"

-----------------------------------------------------------------------------
(* Signals                                                                 *)

Pause ==
  /\ ~paused
  /\ paused' = TRUE
  /\ UNCHANGED <<issued, pending, evicted, callVars, stage, lock, envVars>>

Resume ==
  /\ paused
  /\ paused' = FALSE
  /\ UNCHANGED <<issued, pending, evicted, callVars, stage, lock, envVars>>

(* Mutant of MakeRoom: the newest instruction goes.                        *)
MakeRoomAtEnd(list) ==
  IF Len(list) < MaxPending THEN list ELSE SubSeq(list, 1, Len(list) - 1)

(* Mutant of MakeRoom: a list that is just full stays as it is.            *)
MakeRoomLate(list) == IF Len(list) <= MaxPending THEN list ELSE Tail(list)

(* A full list gives up its oldest instruction.                            *)
MakeRoom(list) == IF Len(list) < MaxPending THEN list ELSE Tail(list)

(* add_instruction. An instruction that has expired still takes up room.   *)
Instruct ==
  /\ issued < MaxInstructions
  /\ issued' = issued + 1
  /\ pending' = Append(MakeRoom(pending), issued')
  /\ evicted' = evicted \cup (Range(pending) \ Range(MakeRoom(pending)))
  /\ UNCHANGED <<paused, callVars, stage, lock, envVars>>

-----------------------------------------------------------------------------
(* trigger_event                                                           *)

Goto(r, s) == stage' = [stage EXCEPT ![r] = s]

(* Mutant of ConsumeInstructions: consumed instructions stay in the list.  *)
ConsumeKeeps(r) ==
  /\ \E live \in SUBSET Range(pending) : carried' = [carried EXCEPT ![r] = live]
  /\ UNCHANGED pending

(* consume_instructions: the call takes those that have not expired by now,*)
(* and the list is empty afterwards. Nothing else looks at expires_at.     *)
ConsumeInstructions(r) ==
  /\ \E live \in SUBSET Range(pending) : carried' = [carried EXCEPT ![r] = live]
  /\ pending' = <<>>

(* Mutant of PausedFor: the guard looks at heartbeats only.                *)
PausedForHeartbeat(k) == paused /\ k = "heartbeat"

PausedFor(k) == paused /\ k # "signal"

(* A new call in the place of one that ended. It does not suspend before it*)
(* waits for the run lock: with the state in memory none of the awaits on  *)
(* the way blocks.                                                         *)
TriggerEvent(r, k) ==
  /\ stage[r] \in Ended
  /\ kind' = [kind EXCEPT ![r] = k]
  /\ ConsumeInstructions(r)
  /\ IF PausedFor(k)
       THEN Goto(r, "paused") /\ UNCHANGED lock
       ELSE Goto(r, "waiting") /\ lock' = Append(lock, r)
  /\ UNCHANGED <<paused, issued, evicted, envVars>>

-----------------------------------------------------------------------------
(* run, under the run lock                                                 *)

Holds(r) == lock # <<>> /\ Head(lock) = r

(* Mutant of InjectSkillEnv: the value to put back is saved again although *)
(* one is saved already.                                                   *)
InjectSavesAgain(r) ==
  /\ saved' = env
  /\ env' = r

(* _inject_skill_env_for_run: an original that is saved already stays.     *)
InjectSkillEnv(r) ==
  /\ saved' = IF saved = "nothing" THEN env ELSE saved
  /\ env' = r

(* _restore_skill_env_after_run                                            *)
RestoreSkillEnv ==
  /\ env' = IF saved = "nothing" THEN env ELSE saved
  /\ saved' = "nothing"

(* Mutant of Begin: a run does not wait for the lock.                      *)
BeginUnlocked(r) ==
  /\ stage[r] = "waiting"
  /\ InjectSkillEnv(r)
  /\ Goto(r, IF kind[r] = "heartbeat" THEN "checking" ELSE "looping")
  /\ UNCHANGED <<signalVars, callVars, lock>>

(* The lock is acquired. A heartbeat that brings its own events, or has no *)
(* checker, goes to the decision loop like the others.                     *)
Begin(r) ==
  /\ stage[r] = "waiting"
  /\ Holds(r)
  /\ InjectSkillEnv(r)
  /\ \/ Goto(r, "looping")
     \/ kind[r] = "heartbeat" /\ Goto(r, "checking")
  /\ UNCHANGED <<signalVars, callVars, lock>>

(* check_events found something to do.                                     *)
EventsFound(r) ==
  /\ stage[r] = "checking"
  /\ Goto(r, "looping")
  /\ UNCHANGED <<signalVars, callVars, lock, envVars>>

(* A call leaves run: its context goes, and the next one gets the lock.    *)
Leave(r) ==
  /\ Goto(r, "over")
  /\ carried' = [carried EXCEPT ![r] = {}]
  /\ kind' = [kind EXCEPT ![r] = "signal"]
  /\ \E i \in DOMAIN lock : lock[i] = r /\ lock' = RemoveAt(lock, i)
  /\ UNCHANGED signalVars

(* heartbeat_no_events: the run ends without a decision loop.              *)
NoEvents(r) ==
  /\ stage[r] = "checking"
  /\ RestoreSkillEnv
  /\ Leave(r)

(* The decision loop returns or raises.                                    *)
LoopEnds(r) ==
  /\ stage[r] = "looping"
  /\ RestoreSkillEnv
  /\ Leave(r)

(* A tool or a model does not answer.                                      *)
LoopHangs(r) ==
  /\ stage[r] = "looping"
  /\ Goto(r, "hung")
  /\ UNCHANGED <<signalVars, callVars, lock, envVars>>

(* Mutant of RunTimeout: the timeout does not reach a hanging tool.        *)
RunTimeoutBetweenCalls(r) ==
  /\ stage[r] = "looping"
  /\ RestoreSkillEnv
  /\ Leave(r)

(* run_timeout_seconds have passed.                                        *)
RunTimeout(r) ==
  /\ stage[r] \in {"looping", "hung"}
  /\ RestoreSkillEnv
  /\ Leave(r)

(* The caller cancels: an API request that timed out, a Hatchet task, the  *)
(* end of the application. While a heartbeat checks for events no handler  *)
(* puts the environment back.                                              *)
Cancel(r) ==
  /\ stage[r] \in {"waiting", "checking", "looping", "hung"}
  /\ IF stage[r] \in {"looping", "hung"} THEN RestoreSkillEnv ELSE UNCHANGED envVars
  /\ Leave(r)

RunStep(r) ==
  \/ Begin(r) \/ EventsFound(r) \/ NoEvents(r) \/ LoopEnds(r)

Next ==
  \/ Pause \/ Resume \/ Instruct
  \/ \E r \in Runs : \/ \E k \in Kinds : TriggerEvent(r, k)
                     \/ RunStep(r)
                     \/ LoopHangs(r) \/ RunTimeout(r) \/ Cancel(r)

Spec == Init /\ [][Next]_vars

(* The event loop runs what can run, event checks answer, and the timer of *)
(* the run timeout fires. Nobody owes a trigger, a signal or a cancel.     *)
FairSpec == Spec /\ \A r \in Runs : WF_vars(RunStep(r)) /\ WF_vars(RunTimeout(r))

-----------------------------------------------------------------------------
(* A run that checks for events or decides finds the environment of its own*)
(* skills: no other run has put its variables there or taken them away.    *)
EnvBelongsToRun ==
  \A r \in Runs : stage[r] \in {"checking", "looping", "hung"} => env = r

(* A run that reached the decision loop leaves the environment the process *)
(* started with, whatever earlier runs left behind: the saved original is  *)
(* never overwritten by a value some run has put there.                    *)
RunRestoresEnv ==
  [][\A r \in Runs :
       stage[r] \in {"looping", "hung"} /\ stage'[r] \in Ended => env' = OwnEnv]_vars

(* An instruction is given to one call at most, and then it is not pending *)
(* any more.                                                               *)
InstructionGivenOnce ==
  \A r \in Runs :
     /\ carried[r] \cap (Range(pending) \cup evicted) = {}
     /\ \A q \in Runs \ {r} : carried[r] \cap carried[q] = {}

(* The instructions that make room are older than all that stay.           *)
NewestInstructionsStay == \A i \in evicted, j \in Range(pending) : i < j

(* A pause takes effect: if it stays, the runs it found under way or in the*)
(* queue end, and from then on only manual triggers run.                   *)
PauseTakesEffect ==
  (<>[]paused) =>
     <>[](\A r \in Runs : stage[r] \in {"waiting", "checking", "looping", "hung"}
                            => kind[r] = "signal")

(* Every call that queues for the lock ends, also behind a run that hangs. *)
EveryCallEnds ==
  \A r \in Runs : stage[r] = "waiting" ~> stage[r] \in Ended

(* What the instruction table says of itself ("injected into next agent    *)
(* run"): a call that took instructions is not skipped for the pause.      *)
InstructionsReachARun ==
  \A r \in Runs : stage[r] = "paused" => carried[r] = {}
=============================================================================
