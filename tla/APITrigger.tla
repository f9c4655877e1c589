----------------------------- MODULE APITrigger -----------------------------
(***************************************************************************)
(* Asynchronous runs of the API trigger (src/owlclaw/triggers/api/server.py*)
(* ): a request is answered with a run id, a task runs the agent and writes*)
(* the outcome into a bounded table, clients ask for it, and stop cancels  *)
(* the tasks it finds while requests still come in.                        *)
(*                                                                         *)
(* What precedes a run (authentication, body, rate limits, governance)     *)
(* decides whether it is accepted and is left out, and so are synchronous  *)
(* requests, which leave nothing in the server. Recording in the ledger    *)
(* does not suspend.                                                       *)
(***************************************************************************)
EXTENDS Naturals, FiniteSets, Sequences, SequencesExt

CONSTANTS MaxRuns,   \* bound: accepted runs
          MaxTable,  \* runs_cache_maxsize
          Clients    \* each asks one question at a time

ASSUME APIAssumption == MaxRuns \in Nat /\ MaxTable \in Nat \ {0}

VARIABLES
  table,    \* _runs, in the order of the dict
  task,     \* the background task of each run
  tracked,  \* _background_tasks
  doomed,   \* runs whose task was told to cancel
  server,   \* the server, or where stop is suspended
  late,     \* runs accepted while stop was under way
  ask,      \* the entry each client's question is about
  told      \* what each client knows of the run it asks about

runVars == <<table, task, tracked, doomed>>
askVars == <<ask, told>>
vars == <<runVars, server, late, askVars>>

Runs == 1..MaxRuns
Outcomes == {"completed", "failed", "cancelled"}
Entry == [run : Runs, status : Outcomes \cup {"pending"}, whole : BOOLEAN]
NoAsk == [run |-> 0]
Serving == server # "down"
Stopping == server \in {"cancelling", "closing"}
Alive(r) == task[r] \in {"created", "calling"}
Accepted == {r \in Runs : task[r] # "none"}
At(r) == {i \in DOMAIN table : table[i].run = r}
Place(r) == CHOOSE i \in At(r) : TRUE

(* The table exceeds its bound only by entries that were written again     *)
(* after they had been evicted, and an id stands in it once.               *)
TypeOK ==
  /\ table \in Seq(Entry)
  /\ \A r \in Runs : Cardinality(At(r)) <= 1 /\ (At(r) # {} => r \in Accepted)
  /\ Cardinality({i \in DOMAIN table : table[i].whole}) <= MaxTable
  /\ task \in [Runs -> {"none", "created", "calling", "over", "never"}]
  /\ tracked \subseteq {r \in Runs : Alive(r)}
  /\ doomed \subseteq {r \in Runs : Alive(r)} /\ late \subseteq Accepted
  /\ server \in {"down", "up", "cancelling", "closing"}
  /\ ask \in [Clients -> Entry \cup {NoAsk}]
  /\ told \in [Clients -> [run : 0..MaxRuns, answer : Outcomes \cup {"pending", "gone"}]]

Init ==
  /\ table = <<>>
  /\ task = [r \in Runs |-> "none"]
  /\ tracked = {} /\ doomed = {}
  /\ server = "down"
  /\ late = {}
  /\ ask = [c \in Clients |-> NoAsk]
  /\ told = [c \in Clients |-> [run |-> 0, answer |-> "pending"]]

-----------------------------------------------------------------------------
(* Runs                                                                    *)

(* Mutant of MakeRoom: one entry too many is left.                         *)
MakeRoomLate ==
  IF Len(table) <= MaxTable THEN table
  ELSE SubSeq(table, Len(table) - MaxTable + 1, Len(table))

(* The oldest entries go until there is room, pending or not.              *)
MakeRoom ==
  IF Len(table) < MaxTable THEN table
  ELSE SubSeq(table, Len(table) - MaxTable + 2, Len(table))

(* _handle_async, up to the answer with the run id. uvicorn serves what has*)
(* reached it until it has shut down.                                      *)
Accept(r) ==
  /\ Serving
  /\ task[r] = "none" /\ \A q \in 1..(r - 1) : q \in Accepted
  /\ table' = Append(MakeRoom, [run |-> r, status |-> "pending", whole |-> TRUE])
  /\ task' = [task EXCEPT ![r] = "created"]
  /\ tracked' = tracked \cup {r}
  /\ late' = IF Stopping THEN late \cup {r} ELSE late
  /\ UNCHANGED <<doomed, server, askVars>>

TaskBegins(r) ==
  /\ task[r] = "created" /\ r \notin doomed
  /\ task' = [task EXCEPT ![r] = "calling"]
  /\ UNCHANGED <<table, tracked, doomed, server, late, askVars>>

(* The outcome goes into the entry, or into a new one at the end if the    *)
(* run's was evicted; that one has nothing of what the run came with.      *)
Report(r, status) ==
  table' = IF At(r) = {}
             THEN Append(table, [run |-> r, status |-> status, whole |-> FALSE])
             ELSE [i \in DOMAIN table |-> IF i \in At(r) THEN [table[i] EXCEPT !.status = status]
                                                         ELSE table[i]]

TaskEnds(r, how) ==
  /\ task' = [task EXCEPT ![r] = how]
  /\ tracked' = tracked \ {r}
  /\ doomed' = doomed \ {r}

(* The agent returns, or raises.                                           *)
TaskReports(r) ==
  /\ task[r] = "calling" /\ r \notin doomed
  /\ \E status \in {"completed", "failed"} : Report(r, status)
  /\ TaskEnds(r, "over")
  /\ UNCHANGED <<server, late, askVars>>

(* A task that is cancelled before its first step never gets to report.    *)
CancelArrives(r) ==
  /\ r \in doomed
  /\ IF task[r] = "created"
       THEN TaskEnds(r, "never") /\ UNCHANGED table
       ELSE TaskEnds(r, "over") /\ Report(r, "cancelled")
  /\ UNCHANGED <<server, late, askVars>>

-----------------------------------------------------------------------------
(* start and stop                                                          *)

Start ==
  /\ server = "down"
  /\ server' = "up"
  /\ UNCHANGED <<runVars, late, askVars>>

StopBegins ==
  /\ server = "up"
  /\ doomed' = tracked
  /\ server' = IF tracked = {} THEN "closing" ELSE "cancelling"
  /\ UNCHANGED <<table, task, tracked, late, askVars>>

(* Mutant of TasksEnded: the cancelled tasks are not waited for.           *)
TasksNotAwaited == TRUE

TasksEnded == doomed = {}

(* gather is over, and the tasks of runs accepted meanwhile are forgotten. *)
StopForgetsTasks ==
  /\ server = "cancelling" /\ TasksEnded
  /\ tracked' = {}
  /\ server' = "closing"
  /\ UNCHANGED <<table, task, doomed, late, askVars>>

(* uvicorn has answered what it was asked and shuts down.                  *)
ServerCloses ==
  /\ server = "closing" /\ \A c \in Clients : ask[c] = NoAsk
  /\ server' = "down"
  /\ UNCHANGED <<runVars, late, askVars>>

-----------------------------------------------------------------------------
(* _get_run_result                                                         *)

(* A client that knows the outcome of the run does not forget it for being *)
(* told that the run is unknown; asking about another run, it starts anew. *)
Tell(c, r, answer) ==
  LET known == told[c].run = r /\ told[c].answer \in Outcomes
  IN  told' = IF known /\ answer = "gone" THEN told
              ELSE [told EXCEPT ![c] = [run |-> r, answer |-> answer]]

(* Mutant of Touch: the entry that was read is put in the place of the     *)
(* present one.                                                            *)
TouchWithStale(entry) == table' = Append(RemoveAt(table, Place(entry.run)), entry)

(* move_to_end                                                             *)
Touch(entry) ==
  LET i == Place(entry.run) IN table' = Append(RemoveAt(table, i), table[i])

(* The entry is read, and the answer given at once, unless the client has  *)
(* to be authenticated by a provider that suspends. An entry that was      *)
(* written again does not ask for it.                                      *)
AskResult(c, r) ==
  /\ Serving /\ ask[c] = NoAsk /\ r \in Accepted
  /\ IF At(r) = {}
       THEN Tell(c, r, "gone") /\ UNCHANGED <<ask, table>>
       ELSE LET entry == table[Place(r)]
            IN  \/ Tell(c, r, entry.status) /\ Touch(entry) /\ UNCHANGED ask
                \/ /\ entry.whole
                   /\ ask' = [ask EXCEPT ![c] = entry]
                   /\ UNCHANGED <<told, table>>
  /\ UNCHANGED <<task, tracked, doomed, server, late>>

(* The entry that was read is answered with, even if another took its place*)
(* meanwhile. If the run is no longer in the table, move_to_end raises. A  *)
(* client that is refused learns nothing.                                  *)
AnswerResult(c) ==
  /\ ask[c] # NoAsk
  /\ \/ At(ask[c].run) # {} /\ Tell(c, ask[c].run, ask[c].status) /\ Touch(ask[c])
     \/ UNCHANGED <<told, table>>
  /\ ask' = [ask EXCEPT ![c] = NoAsk]
  /\ UNCHANGED <<task, tracked, doomed, server, late>>

-----------------------------------------------------------------------------
Next ==
  \/ \E r \in Runs : Accept(r) \/ TaskBegins(r) \/ TaskReports(r) \/ CancelArrives(r)
  \/ Start \/ StopBegins \/ StopForgetsTasks \/ ServerCloses
  \/ \E c \in Clients : AnswerResult(c) \/ \E r \in Runs : AskResult(c, r)

Spec == Init /\ [][Next]_vars

-----------------------------------------------------------------------------
(* Properties                                                              *)

(* When stop has returned, the runs it found are over and none of them is  *)
(* left pending in the table, but those whose task was cancelled before its*)
(* first step. Runs accepted while stop waited escape it (stop clears      *)
(* _background_tasks without cancelling them).                             *)
StopSettlesRuns ==
  server = "down" =>
    \A r \in Accepted \ late :
      /\ ~Alive(r)
      /\ task[r] = "over" => \A i \in At(r) : table[i].status # "pending"

(* A client that keeps asking about a run, one question at a time, sees it *)
(* go forward: once told its outcome, or that it is not known, it is never *)
(* told that the run is pending, nor another outcome; in spite of entries  *)
(* that are read before an await and answered after it, evicted, and       *)
(* written again (_get_run_result against _background).                    *)
AnswersGoForward ==
  [][\A c \in Clients :
       told'[c].run = told[c].run =>
         /\ told[c].answer \in Outcomes => told'[c].answer = told[c].answer
         /\ told[c].answer = "gone" => told'[c].answer # "pending"]_vars
=============================================================================
