------------------------- MODULE AgentRuntimeProofs -------------------------
(***************************************************************************)
(* Proofs about AgentRuntime for every number of concurrent calls and every*)
(* limit: its types, that the run lock keeps the process environment with  *)
(* the run that set it, that a finished run leaves the original behind, and*)
(* that an instruction is given once and the newest ones are kept.         *)
(***************************************************************************)
EXTENDS AgentRuntime, SequenceTheorems, TLAPS

-----------------------------------------------------------------------------
(* Sequences                                                               *)

(* The numbers in s grow from each place to the next.                      *)
Increasing(s) == \A i, j \in 1..Len(s) : i < j => s[i] < s[j]

(* Appending adds one element.                                             *)
LEMMA RangeAppend ==
  ASSUME NEW S, NEW s \in Seq(S), NEW e \in S
  PROVE  Range(Append(s, e)) = Range(s) \cup {e}
<1>1. Append(s, e) = s \o <<e>>
  BY AppendIsConcat
<1>2. Range(s \o <<e>>) = Range(s) \cup Range(<<e>>)
  BY RangeConcatenation
<1>3. Range(<<e>>) = {e}
  BY DEF Range
<1>4. QED
  BY <1>1, <1>2, <1>3

(* Taking off the head: the two parts of the split after one element.      *)
LEMMA HeadTail ==
  ASSUME NEW S, NEW s \in Seq(S), s # <<>>
  PROVE  /\ Head(s) \in S
         /\ Tail(s) \in Seq(S) /\ Len(Tail(s)) = Len(s) - 1
         /\ Range(s) = {Head(s)} \cup Range(Tail(s))
<1>1. /\ Head(s) \in S
      /\ Tail(s) \in Seq(S) /\ Len(Tail(s)) = Len(s) - 1
  BY HeadTailProperties
<1>2. s = <<Head(s)>> \o Tail(s)
  OBVIOUS
<1>3. Range(<<Head(s)>> \o Tail(s)) = Range(<<Head(s)>>) \cup Range(Tail(s))
  <2>1. <<Head(s)>> \in Seq(S) /\ Tail(s) \in Seq(S)
    BY <1>1
  <2> DEFINE h == <<Head(s)>>
             t == Tail(s)
  <2> HIDE DEF h, t
  <2>2. h \in Seq(S) /\ t \in Seq(S)
    BY <2>1 DEF h, t
  <2>3. Range(h \o t) = Range(h) \cup Range(t)
    BY <2>2, RangeConcatenation
  <2>4. QED
    BY <2>3 DEF h, t
<1>4. Range(<<Head(s)>>) = {Head(s)}
  BY DEF Range
<1>5. QED
  BY <1>1, <1>2, <1>3, <1>4

(* An increasing sequence stays so when a larger number is appended.       *)
LEMMA IncreasingAppend ==
  ASSUME NEW s \in Seq(Nat), NEW e \in Nat, Increasing(s),
         \A x \in Range(s) : x < e
  PROVE  Increasing(Append(s, e))
<1>1. SUFFICES ASSUME NEW i \in 1..(Len(s) + 1), NEW j \in 1..(Len(s) + 1), i < j
               PROVE  Append(s, e)[i] < Append(s, e)[j]
  <2>1. Len(Append(s, e)) = Len(s) + 1
    OBVIOUS
  <2>2. QED
    BY <2>1 DEF Increasing
<1>2. i \in 1..Len(s) /\ Append(s, e)[i] = s[i]
  BY <1>1
<1>3. CASE j <= Len(s)
  BY <1>1, <1>2, <1>3 DEF Increasing
<1>4. CASE j = Len(s) + 1
  BY <1>2, <1>4 DEF Range
<1>5. QED
  BY <1>3, <1>4

(* The head of an increasing sequence is below its tail, which increases.  *)
LEMMA IncreasingTail ==
  ASSUME NEW s \in Seq(Nat), s # <<>>, Increasing(s)
  PROVE  /\ Increasing(Tail(s))
         /\ \A x \in Range(Tail(s)) : Head(s) < x
<1>1. /\ Head(s) = s[1] /\ 1 \in 1..Len(s)
      /\ Tail(s) \in Seq(Nat) /\ Len(Tail(s)) = Len(s) - 1
      /\ \A i \in 1..Len(Tail(s)) : Tail(s)[i] = s[i + 1] /\ i + 1 \in 1..Len(s)
  OBVIOUS
<1>2. QED
  BY <1>1 DEF Increasing, Range

-----------------------------------------------------------------------------

USE RuntimeAssumption

Inside == {"checking", "looping", "hung"}

(* The lock's queue has no call twice, it holds the calls that wait or run,*)
(* and the one that runs is at its head.                                   *)
LockInv ==
  /\ \A i, j \in DOMAIN lock : lock[i] = lock[j] => i = j
  /\ \A r \in Runs : stage[r] \in Inside \cup {"waiting"} => r \in Range(lock)
  /\ \A r \in Range(lock) : stage[r] \in Inside \cup {"waiting"}
  /\ \A r \in Runs : stage[r] \in Inside => lock # <<>> /\ lock[1] = r

(* What is saved, if anything is, is the original environment.             *)
SavedInv ==
  /\ saved \in {"nothing", OwnEnv}
  /\ saved = "nothing" => env = OwnEnv

(* All instructions anyone holds were issued, and the list is in order.    *)
IssuedInv ==
  /\ Increasing(pending)
  /\ Range(pending) \subseteq 1..issued
  /\ evicted \subseteq 1..issued
  /\ \A r \in Runs : carried[r] \subseteq 1..issued

RunInv == LockInv /\ SavedInv /\ EnvBelongsToRun
          /\ \A r \in Runs : stage[r] \in Inside => saved = OwnEnv
InstructionInv == IssuedInv /\ InstructionGivenOnce /\ NewestInstructionsStay

IInv == TypeOK /\ RunInv /\ InstructionInv

-----------------------------------------------------------------------------
(* A list that made room holds what it held, in order, and has room.       *)
LEMMA MakeRoomFacts ==
  ASSUME NEW list \in Seq(Instructions), Len(list) <= MaxPending, Increasing(list)
  PROVE  LET kept == MakeRoom(list)
         IN  /\ kept \in Seq(Instructions) /\ Len(kept) < MaxPending
             /\ Increasing(kept)
             /\ Range(kept) \subseteq Range(list)
             /\ \A i \in Range(list) \ Range(kept), j \in Range(kept) : i < j
<1>1. CASE Len(list) < MaxPending
  BY <1>1 DEF MakeRoom
<1>2. CASE Len(list) >= MaxPending
  <2>1. list \in Seq(Nat) /\ list # <<>>
    BY <1>2 DEF Instructions
  <2>2. MakeRoom(list) = Tail(list)
    BY <1>2 DEF MakeRoom
  <2>3. /\ Tail(list) \in Seq(Instructions) /\ Len(Tail(list)) = Len(list) - 1
        /\ Range(list) = {Head(list)} \cup Range(Tail(list))
    BY <2>1, HeadTail
  <2>4. Increasing(Tail(list)) /\ \A x \in Range(Tail(list)) : Head(list) < x
    BY <2>1, IncreasingTail
  <2>5. QED
    BY <2>2, <2>3, <2>4
<1>3. QED
  BY <1>1, <1>2

(* Taking the call at place i out of the queue: the others keep their      *)
(* order, and none is lost.                                                *)
LEMMA RemoveAtFacts ==
  ASSUME NEW S, NEW s \in Seq(S), NEW i \in DOMAIN s,
         \A j, k \in DOMAIN s : s[j] = s[k] => j = k
  PROVE  LET t == RemoveAt(s, i)
         IN  /\ t \in Seq(S)
             /\ \A j, k \in DOMAIN t : t[j] = t[k] => j = k
             /\ Range(t) = Range(s) \ {s[i]}
             /\ s[1] # s[i] => t # <<>> /\ t[1] = s[1]
<1> DEFINE t == RemoveAt(s, i)
           at(j) == IF j < i THEN j ELSE j + 1
<1>1. /\ t \in Seq(S) /\ Len(t) = Len(s) - 1
      /\ \A j \in 1..Len(t) : t[j] = s[at(j)]
  <2> DEFINE front == SubSeq(s, 1, i - 1)
             back  == SubSeq(s, i + 1, Len(s))
  <2>1. /\ front \in Seq(S) /\ Len(front) = i - 1
        /\ \A j \in 1..(i - 1) : front[j] = s[j]
    OBVIOUS
  <2>2. /\ back \in Seq(S) /\ Len(back) = Len(s) - i
        /\ \A j \in 1..(Len(s) - i) : back[j] = s[i + j]
    OBVIOUS
  <2>3. t = front \o back
    BY DEF RemoveAt
  <2> HIDE DEF front, back, t
  <2>4. t \in Seq(S) /\ Len(t) = Len(s) - 1
    BY <2>1, <2>2, <2>3
  <2>5. ASSUME NEW j \in 1..Len(t)
        PROVE  t[j] = s[at(j)]
    <3>1. CASE j < i
      BY <3>1, <2>1, <2>2, <2>3, <2>4
    <3>2. CASE j >= i
      <4>1. j - (i - 1) \in 1..(Len(s) - i) /\ i + (j - (i - 1)) = j + 1
        BY <3>2, <2>4
      <4>2. (front \o back)[j] = back[j - Len(front)]
        BY <4>1, <3>2, <2>1, <2>2
      <4>3. back[j - (i - 1)] = s[j + 1]
        BY <4>1, <2>2
      <4>4. QED
        BY <4>2, <4>3, <3>2, <2>1, <2>3
    <3>3. QED
      BY <3>1, <3>2, <2>4
  <2>6. QED
    BY <2>4, <2>5
<1> HIDE DEF t
<1>2. \A j \in 1..Len(t) : at(j) \in DOMAIN s /\ at(j) # i
  BY <1>1
<1>3. \A j, k \in 1..Len(t) : at(j) = at(k) => j = k
  BY <1>1
<1>4. ASSUME NEW j \in 1..Len(t), NEW k \in 1..Len(t), t[j] = t[k]
      PROVE  j = k
  <2>1. s[at(j)] = s[at(k)] /\ at(j) \in DOMAIN s /\ at(k) \in DOMAIN s
    BY <1>1, <1>2, <1>4
  <2>2. at(j) = at(k)
    BY <2>1
  <2>3. QED
    BY <1>3, <2>2
<1>5. Range(t) \subseteq Range(s) \ {s[i]}
  BY <1>1, <1>2 DEF Range
<1>6. ASSUME NEW k \in DOMAIN s, k # i
      PROVE  s[k] \in Range(t)
  <2>1. PICK j \in 1..Len(t) : at(j) = k
    <3>1. CASE k < i
      BY <1>1, <3>1
    <3>2. CASE k > i
      <4>1. k - 1 \in 1..Len(t) /\ at(k - 1) = k
        BY <1>1, <3>2
      <4>2. QED
        BY <4>1
    <3>3. QED
      BY <1>6, <3>1, <3>2
  <2>2. QED
    BY <1>1, <2>1 DEF Range
<1>7. Range(t) = Range(s) \ {s[i]}
  <2>1. Range(s) = {s[k] : k \in DOMAIN s}
    BY DEF Range
  <2>2. Range(s) \ {s[i]} \subseteq Range(t)
    BY <1>6, <2>1
  <2>3. QED
    BY <1>5, <2>2
<1>8. s[1] # s[i] => t # <<>> /\ t[1] = s[1]
  BY <1>1
<1>9. QED
  BY <1>1, <1>4, <1>7, <1>8 DEF t

-----------------------------------------------------------------------------
LEMMA InitIInv == Init => IInv
<1> SUFFICES ASSUME Init PROVE IInv
  OBVIOUS
<1>1. TypeOK
  <2>1. kind \in [Runs -> Kinds] /\ stage \in [Runs -> Stages]
    BY DEF Init, Kinds, Stages, Ended
  <2>2. carried \in [Runs -> SUBSET Instructions]
    BY DEF Init
  <2>3. pending \in Seq(Instructions) /\ Len(pending) <= MaxPending /\ lock \in Seq(Runs)
    BY DEF Init
  <2>4. paused \in BOOLEAN /\ evicted \in SUBSET Instructions
    BY Zenon DEF Init
  <2>5. issued \in 0..MaxInstructions
    BY DEF Init
  <2>6. env \in Environments /\ saved \in Environments \cup {"nothing"}
    BY DEF Init, Environments
  <2>7. QED
    BY <2>1, <2>2, <2>3, <2>4, <2>5, <2>6 DEF TypeOK
<1>2. RunInv
  BY DEF Init, RunInv, LockInv, SavedInv, EnvBelongsToRun, Inside, Range
<1>3. InstructionInv
  BY DEF Init, InstructionInv, IssuedInv, InstructionGivenOnce,
         NewestInstructionsStay, Increasing, Range
<1>4. QED
  BY <1>1, <1>2, <1>3 DEF IInv

-----------------------------------------------------------------------------
(* Who leaves run leaves the queue of the lock, and nobody else does.      *)
LEMMA LeaveFacts ==
  ASSUME TypeOK, LockInv, NEW r \in Runs, Leave(r)
  PROVE  /\ lock' \in Seq(Runs)
         /\ kind' \in [Runs -> Kinds] /\ stage' \in [Runs -> Stages]
         /\ carried' \in [Runs -> SUBSET Instructions]
         /\ LockInv'
<1>1. PICK i \in DOMAIN lock : lock[i] = r /\ lock' = RemoveAt(lock, i)
  BY DEF Leave
<1>2. /\ lock \in Seq(Runs)
      /\ \A j, k \in DOMAIN lock : lock[j] = lock[k] => j = k
  BY DEF TypeOK, LockInv
<1>3. /\ lock' \in Seq(Runs)
      /\ \A j, k \in DOMAIN lock' : lock'[j] = lock'[k] => j = k
      /\ Range(lock') = Range(lock) \ {r}
      /\ lock[1] # r => lock' # <<>> /\ lock'[1] = lock[1]
  BY <1>1, <1>2, RemoveAtFacts
<1>4. /\ kind' \in [Runs -> Kinds] /\ stage' \in [Runs -> Stages]
      /\ carried' \in [Runs -> SUBSET Instructions]
  BY DEF Leave, Goto, TypeOK, Kinds, Stages, Ended
<1>5. /\ stage'[r] = "over"
      /\ \A q \in Runs \ {r} : stage'[q] = stage[q]
  BY DEF Leave, Goto, TypeOK
<1>6. \A q \in Range(lock') : q \in Runs \ {r} /\ q \in Range(lock)
  <2>1. Range(lock) \subseteq Runs
    BY <1>2 DEF Range
  <2>2. QED
    BY <2>1, <1>3
<1>7. LockInv'
  BY <1>3, <1>5, <1>6 DEF LockInv, Inside
<1>8. QED
  BY <1>3, <1>4, <1>7

(* Nobody else is inside while a call is that holds the lock.              *)
LEMMA OneInside ==
  ASSUME LockInv, NEW r \in Runs, NEW q \in Runs,
         lock[1] = r, stage[q] \in Inside
  PROVE  q = r
  BY DEF LockInv

LEMMA TypeStep == IInv /\ [Next]_vars => TypeOK'
<1> SUFFICES ASSUME IInv, [Next]_vars PROVE TypeOK'
  OBVIOUS
<1>0. TypeOK /\ LockInv
  BY DEF IInv, RunInv
<1>1. CASE Pause \/ Resume
  BY <1>1, <1>0, Zenon DEF Pause, Resume, TypeOK, callVars, envVars
<1>2. CASE Instruct
  <2>1. /\ pending \in Seq(Instructions) /\ Len(pending) <= MaxPending
        /\ Increasing(pending)
    BY DEF IInv, InstructionInv, IssuedInv, TypeOK
  <2>2. /\ MakeRoom(pending) \in Seq(Instructions) /\ Len(MakeRoom(pending)) < MaxPending
    BY <2>1, MakeRoomFacts
  <2>3. issued' \in Instructions /\ issued' \in 0..MaxInstructions
    BY <1>2, <1>0 DEF Instruct, TypeOK, Instructions
  <2>4. pending' \in Seq(Instructions) /\ Len(pending') <= MaxPending
    BY <1>2, <2>2, <2>3 DEF Instruct
  <2>5. evicted' \in SUBSET Instructions
    BY <1>2, <1>0 DEF Instruct, TypeOK, Range
  <2>6. QED
    BY <1>2, <1>0, <2>3, <2>4, <2>5 DEF Instruct, TypeOK, callVars, envVars
<1>3. ASSUME NEW r \in Runs, NEW k \in Kinds, TriggerEvent(r, k)
      PROVE  TypeOK'
  <2>0. kind' \in [Runs -> Kinds]
    BY <1>3, <1>0 DEF TriggerEvent, TypeOK
  <2>1. stage' \in [Runs -> Stages] /\ lock' \in Seq(Runs)
    <3>1. CASE PausedFor(k)
      BY <3>1, <1>3, <1>0 DEF TriggerEvent, TypeOK, Goto, Stages, Ended
    <3>2. CASE ~PausedFor(k)
      <4>1. lock' = Append(lock, r) /\ Goto(r, "waiting")
        BY <3>2, <1>3 DEF TriggerEvent
      <4>2. QED
        BY <4>1, <1>0 DEF TypeOK, Goto, Stages
    <3>3. QED
      BY <3>1, <3>2
  <2>2. carried' \in [Runs -> SUBSET Instructions]
    BY <1>3, <1>0 DEF TriggerEvent, ConsumeInstructions, TypeOK, Range
  <2>3. pending' \in Seq(Instructions) /\ Len(pending') <= MaxPending
    BY <1>3 DEF TriggerEvent, ConsumeInstructions
  <2>4. QED
    BY <1>3, <1>0, <2>0, <2>1, <2>2, <2>3 DEF TriggerEvent, TypeOK, envVars
<1>4. ASSUME NEW r \in Runs, Begin(r)
      PROVE  TypeOK'
  <2>1. env' \in Environments /\ saved' \in Environments \cup {"nothing"}
    BY <1>4, <1>0 DEF Begin, InjectSkillEnv, TypeOK, Environments
  <2>2. stage' \in [Runs -> Stages]
    BY <1>4, <1>0 DEF Begin, Goto, TypeOK, Stages
  <2>3. QED
    BY <1>4, <1>0, <2>1, <2>2 DEF Begin, TypeOK, signalVars, callVars
<1>5. ASSUME NEW r \in Runs, EventsFound(r) \/ LoopHangs(r)
      PROVE  TypeOK'
  <2>1. stage' \in [Runs -> Stages]
    BY <1>5, <1>0 DEF EventsFound, LoopHangs, Goto, TypeOK, Stages
  <2>2. QED
    BY <1>5, <1>0, <2>1 DEF EventsFound, LoopHangs, TypeOK, signalVars, callVars, envVars
<1>6. ASSUME NEW r \in Runs, Leave(r), RestoreSkillEnv \/ UNCHANGED envVars
      PROVE  TypeOK'
  <2>1. env' \in Environments /\ saved' \in Environments \cup {"nothing"}
    BY <1>6, <1>0 DEF RestoreSkillEnv, TypeOK, Environments, envVars
  <2>2. /\ lock' \in Seq(Runs)
        /\ kind' \in [Runs -> Kinds] /\ stage' \in [Runs -> Stages]
        /\ carried' \in [Runs -> SUBSET Instructions]
    BY <1>6, <1>0, LeaveFacts
  <2>3. QED
    BY <1>6, <1>0, <2>1, <2>2 DEF Leave, TypeOK, signalVars
<1>7. ASSUME NEW r \in Runs, NoEvents(r) \/ LoopEnds(r) \/ RunTimeout(r) \/ Cancel(r)
      PROVE  TypeOK'
  BY <1>6, <1>7 DEF NoEvents, LoopEnds, RunTimeout, Cancel
<1>8. CASE UNCHANGED vars
  BY <1>8, <1>0 DEF TypeOK, vars, signalVars, callVars, envVars
<1>9. QED
  BY <1>1, <1>2, <1>3, <1>4, <1>5, <1>7, <1>8 DEF Next, RunStep

-----------------------------------------------------------------------------
(* A call that ends inside the lock restores the environment.              *)
LEMMA RestoreFacts ==
  ASSUME IInv, NEW r \in Runs, Leave(r), stage[r] \in Inside, RestoreSkillEnv
  PROVE  RunInv' /\ env' = OwnEnv
<1>1. TypeOK /\ LockInv /\ lock[1] = r /\ saved = OwnEnv
  BY DEF IInv, RunInv, LockInv
<1>2. env' = OwnEnv /\ saved' = "nothing"
  BY <1>1 DEF RestoreSkillEnv
<1>3. \A q \in Runs : stage'[q] \notin Inside
  <2>1. stage'[r] = "over" /\ \A q \in Runs \ {r} : stage'[q] = stage[q]
    BY <1>1 DEF Leave, Goto, TypeOK
  <2>2. \A q \in Runs \ {r} : stage[q] \notin Inside
    BY <1>1, OneInside
  <2>3. QED
    BY <2>1, <2>2 DEF Inside
<1>4. LockInv'
  BY <1>1, LeaveFacts
<1>5. QED
  BY <1>2, <1>3, <1>4 DEF RunInv, SavedInv, EnvBelongsToRun, Inside

LEMMA RunStepInv == IInv /\ [Next]_vars => RunInv'
<1> SUFFICES ASSUME IInv, [Next]_vars PROVE RunInv'
  OBVIOUS
<1>0. /\ TypeOK /\ LockInv /\ SavedInv /\ EnvBelongsToRun
      /\ \A r \in Runs : stage[r] \in Inside => saved = OwnEnv
  BY DEF IInv, RunInv
<1>1. CASE UNCHANGED <<stage, lock, env, saved>>
  BY <1>0, <1>1 DEF RunInv, LockInv, SavedInv, EnvBelongsToRun
<1>2. ASSUME NEW r \in Runs, NEW k \in Kinds, TriggerEvent(r, k)
      PROVE  RunInv'
  <2>1. env' = env /\ saved' = saved /\ stage[r] \in Ended
    BY <1>2 DEF TriggerEvent, envVars
  <2>2. CASE stage' = [stage EXCEPT ![r] = "paused"] /\ lock' = lock
    <3>1. stage'[r] = "paused" /\ \A q \in Runs \ {r} : stage'[q] = stage[q]
      BY <1>0, <2>2 DEF TypeOK
    <3>2. r \notin Range(lock)
      BY <1>0, <2>1 DEF LockInv, Ended, Inside
    <3>3. \A q \in Range(lock) : q \in Runs
      BY <1>0 DEF TypeOK, Range
    <3>4. QED
      BY <1>0, <2>1, <2>2, <3>1, <3>2, <3>3
      DEF RunInv, LockInv, SavedInv, EnvBelongsToRun, Inside
  <2>3. CASE stage' = [stage EXCEPT ![r] = "waiting"] /\ lock' = Append(lock, r)
    <3>1. stage'[r] = "waiting" /\ \A q \in Runs \ {r} : stage'[q] = stage[q]
      BY <1>0, <2>3 DEF TypeOK
    <3>2. r \notin Range(lock)
      BY <1>0, <2>1 DEF LockInv, Ended, Inside
    <3>3. \A q \in Range(lock) : q \in Runs
      BY <1>0 DEF TypeOK, Range
    <3>4. Range(lock') = Range(lock) \cup {r}
      BY <1>0, <2>3, RangeAppend DEF TypeOK
    <3>5. \A i, j \in DOMAIN lock' : lock'[i] = lock'[j] => i = j
      <4>1. /\ lock \in Seq(Runs)
            /\ \A i, j \in DOMAIN lock : lock[i] = lock[j] => i = j
            /\ \A i \in DOMAIN lock : lock[i] # r
        BY <1>0, <3>2 DEF TypeOK, LockInv, Range
      <4>2. QED
        BY <2>3, <4>1
    <3>6. lock # <<>> => lock' # <<>> /\ lock'[1] = lock[1]
      BY <1>0, <2>3 DEF TypeOK
    <3>7. LockInv'
      BY <1>0, <3>1, <3>2, <3>3, <3>4, <3>5, <3>6 DEF LockInv, Inside
    <3>8. QED
      BY <1>0, <2>1, <3>1, <3>7 DEF RunInv, SavedInv, EnvBelongsToRun, Inside
  <2>4. QED
    BY <1>2, <2>2, <2>3 DEF TriggerEvent, Goto
<1>3. ASSUME NEW r \in Runs, Begin(r)
      PROVE  RunInv'
  <2>1. stage[r] = "waiting" /\ lock' = lock /\ lock # <<>> /\ lock[1] = r
    BY <1>3, <1>0 DEF Begin, Holds, TypeOK
  <2>2. stage'[r] \in Inside /\ \A q \in Runs \ {r} : stage'[q] = stage[q]
    BY <1>3, <1>0 DEF Begin, Goto, TypeOK, Inside
  <2>3. \A q \in Runs \ {r} : stage[q] \notin Inside
    BY <1>0, <2>1, OneInside
  <2>4. env' = r /\ saved' = OwnEnv
    BY <1>3, <1>0 DEF Begin, InjectSkillEnv, SavedInv
  <2>5. \A q \in Range(lock) : q \in Runs
    BY <1>0 DEF TypeOK, Range
  <2>6. LockInv'
    BY <1>0, <2>1, <2>2, <2>3, <2>5 DEF LockInv
  <2>7. QED
    BY <2>2, <2>3, <2>4, <2>6 DEF RunInv, SavedInv, EnvBelongsToRun, Inside
<1>4. ASSUME NEW r \in Runs, EventsFound(r) \/ LoopHangs(r)
      PROVE  RunInv'
  <2>1. /\ stage[r] \in Inside /\ stage'[r] \in Inside
        /\ \A q \in Runs \ {r} : stage'[q] = stage[q]
    BY <1>4, <1>0 DEF EventsFound, LoopHangs, Goto, TypeOK, Inside
  <2>2. lock' = lock /\ env' = env /\ saved' = saved
    BY <1>4 DEF EventsFound, LoopHangs, envVars
  <2>3. \A q \in Range(lock) : q \in Runs
    BY <1>0 DEF TypeOK, Range
  <2>4. LockInv'
    BY <1>0, <2>1, <2>2, <2>3 DEF LockInv
  <2>5. QED
    BY <1>0, <2>1, <2>2, <2>4 DEF RunInv, SavedInv, EnvBelongsToRun, Inside
<1>5. ASSUME NEW r \in Runs, NoEvents(r) \/ LoopEnds(r) \/ RunTimeout(r)
      PROVE  RunInv'
  BY <1>5, RestoreFacts DEF NoEvents, LoopEnds, RunTimeout, Inside
<1>6. ASSUME NEW r \in Runs, Cancel(r)
      PROVE  RunInv'
  <2>1. CASE stage[r] \in {"looping", "hung"}
    BY <1>6, <2>1, RestoreFacts DEF Cancel, Inside
  <2>2. CASE stage[r] \in {"waiting", "checking"}
    <3>1. env' = env /\ saved' = saved /\ Leave(r)
      BY <1>6, <2>2 DEF Cancel, envVars
    <3>2. LockInv'
      BY <1>0, <3>1, LeaveFacts
    <3>3. stage'[r] = "over" /\ \A q \in Runs \ {r} : stage'[q] = stage[q]
      BY <1>0, <3>1 DEF Leave, Goto, TypeOK
    <3>4. QED
      BY <1>0, <3>1, <3>2, <3>3 DEF RunInv, SavedInv, EnvBelongsToRun, Inside
  <2>3. QED
    BY <1>6, <2>1, <2>2 DEF Cancel
<1>7. CASE UNCHANGED vars
  BY <1>1, <1>7 DEF vars, envVars
<1>8. CASE Pause \/ Resume \/ Instruct
  BY <1>1, <1>8 DEF Pause, Resume, Instruct, envVars
<1>9. QED
  BY <1>2, <1>3, <1>4, <1>5, <1>6, <1>7, <1>8 DEF Next, RunStep

-----------------------------------------------------------------------------
LEMMA InstructionStep == IInv /\ [Next]_vars => InstructionInv'
<1> SUFFICES ASSUME IInv, [Next]_vars PROVE InstructionInv'
  OBVIOUS
<1>0. TypeOK /\ IssuedInv /\ InstructionGivenOnce /\ NewestInstructionsStay
  BY DEF IInv, InstructionInv
<1>1. CASE UNCHANGED <<issued, pending, evicted, carried>>
  BY <1>0, <1>1 DEF InstructionInv, IssuedInv, InstructionGivenOnce, NewestInstructionsStay
<1>2. CASE Instruct
  <2> DEFINE kept == MakeRoom(pending)
             gone == Range(pending) \ Range(kept)
  <2>1. /\ pending \in Seq(Instructions) /\ Len(pending) <= MaxPending
        /\ Increasing(pending) /\ issued \in Nat
    BY <1>0 DEF TypeOK, IssuedInv
  <2>2. /\ kept \in Seq(Instructions) /\ Increasing(kept)
        /\ Range(kept) \subseteq Range(pending)
        /\ \A i \in gone, j \in Range(kept) : i < j
    BY <2>1, MakeRoomFacts
  <2>3. issued' \in Instructions /\ issued' = issued + 1
    BY <1>2, <2>1 DEF Instruct, Instructions
  <2>4. /\ pending' = Append(kept, issued')
        /\ evicted' = evicted \cup gone
        /\ carried' = carried
    BY <1>2 DEF Instruct, callVars
  <2> HIDE DEF kept, gone
  <2>5. Range(pending') = Range(kept) \cup {issued'}
    BY <2>2, <2>3, <2>4, RangeAppend
  <2>6. gone \subseteq Range(pending) /\ Range(pending) \subseteq 1..issued
    BY <1>0 DEF gone, IssuedInv
  <2>7. Increasing(pending')
    <3>1. kept \in Seq(Nat) /\ \A x \in Range(kept) : x < issued'
      BY <2>1, <2>2, <2>3, <2>6 DEF Instructions
    <3>2. QED
      BY <2>2, <2>3, <2>4, <3>1, IncreasingAppend, <2>1
  <2>8. IssuedInv'
    <3>1. \A i \in 1..issued : i \in 1..issued'
      BY <2>1, <2>3
    <3>2. issued' \in 1..issued'
      BY <2>1, <2>3
    <3>3. Range(pending') \subseteq 1..issued'
      BY <2>2, <2>5, <2>6, <3>1, <3>2
    <3>4. evicted' \subseteq 1..issued' /\ \A r \in Runs : carried'[r] \subseteq 1..issued'
      BY <1>0, <2>4, <2>6, <3>1 DEF IssuedInv
    <3>5. QED
      BY <2>7, <3>3, <3>4 DEF IssuedInv
  <2>9. InstructionGivenOnce'
    <3>1. \A r \in Runs : issued' \notin carried[r]
      BY <1>0, <2>1, <2>3 DEF IssuedInv
    <3>2. QED
      BY <1>0, <2>2, <2>4, <2>5, <2>6, <3>1 DEF InstructionGivenOnce
  <2>10. NewestInstructionsStay'
    <3>1. \A i \in evicted' : i \in 1..issued
      BY <1>0, <2>4, <2>6 DEF IssuedInv
    <3>2. ASSUME NEW i \in evicted', NEW j \in Range(pending')
          PROVE  i < j
      <4>1. CASE j = issued'
        BY <2>1, <2>3, <3>1, <4>1
      <4>2. CASE j \in Range(kept)
        BY <1>0, <2>2, <2>4, <4>2 DEF NewestInstructionsStay
      <4>3. QED
        BY <2>5, <4>1, <4>2
    <3>3. QED
      BY <3>2 DEF NewestInstructionsStay
  <2>11. QED
    BY <2>8, <2>9, <2>10 DEF InstructionInv
<1>3. ASSUME NEW r \in Runs, NEW k \in Kinds, TriggerEvent(r, k)
      PROVE  InstructionInv'
  <2>1. /\ issued' = issued /\ evicted' = evicted /\ pending' = <<>>
    BY <1>3 DEF TriggerEvent, ConsumeInstructions
  <2>2. PICK live \in SUBSET Range(pending) : carried' = [carried EXCEPT ![r] = live]
    BY <1>3 DEF TriggerEvent, ConsumeInstructions
  <2>3. carried'[r] = live /\ \A q \in Runs \ {r} : carried'[q] = carried[q]
    BY <1>0, <2>2 DEF TypeOK
  <2>4. Range(pending') = {} /\ Increasing(pending')
    BY <2>1 DEF Range, Increasing
  <2>5. IssuedInv'
    BY <1>0, <2>1, <2>3, <2>4 DEF IssuedInv
  <2>6. live \cap evicted = {}
    <3>1. \A i \in evicted, j \in live : i < j /\ i \in Nat
      BY <1>0 DEF NewestInstructionsStay, TypeOK, Instructions
    <3>2. QED
      BY <3>1
  <2>7. InstructionGivenOnce'
    BY <1>0, <2>1, <2>3, <2>4, <2>6 DEF InstructionGivenOnce
  <2>8. NewestInstructionsStay'
    BY <2>4 DEF NewestInstructionsStay
  <2>9. QED
    BY <2>5, <2>7, <2>8 DEF InstructionInv
<1>4. ASSUME NEW r \in Runs, Leave(r)
      PROVE  InstructionInv'
  <2>1. /\ issued' = issued /\ evicted' = evicted /\ pending' = pending
        /\ carried' = [carried EXCEPT ![r] = {}]
    BY <1>4 DEF Leave, signalVars
  <2>2. carried'[r] = {} /\ \A q \in Runs \ {r} : carried'[q] = carried[q]
    BY <1>0, <2>1 DEF TypeOK
  <2>3. QED
    BY <1>0, <2>1, <2>2
    DEF InstructionInv, IssuedInv, InstructionGivenOnce, NewestInstructionsStay
<1>5. ASSUME NEW r \in Runs, RunStep(r) \/ LoopHangs(r) \/ RunTimeout(r) \/ Cancel(r)
      PROVE  InstructionInv'
  <2>1. CASE Leave(r)
    BY <1>4, <2>1
  <2>2. CASE UNCHANGED <<issued, pending, evicted, carried>>
    BY <1>1, <2>2
  <2>3. QED
    BY <1>5, <2>1, <2>2
    DEF RunStep, Begin, EventsFound, NoEvents, LoopEnds, LoopHangs, RunTimeout, Cancel,
        signalVars, callVars
<1>6. CASE UNCHANGED vars
  BY <1>1, <1>6 DEF vars, signalVars, callVars
<1>7. CASE Pause \/ Resume
  BY <1>1, <1>7 DEF Pause, Resume, callVars
<1>8. QED
  BY <1>2, <1>3, <1>5, <1>6, <1>7 DEF Next

-----------------------------------------------------------------------------
(* The inductive invariant.                                                *)
THEOREM RuntimeInvariance == Spec => []IInv
<1>1. IInv /\ [Next]_vars => IInv'
  BY TypeStep, RunStepInv, InstructionStep DEF IInv
<1>2. QED
  BY InitIInv, <1>1, PTL DEF Spec

(* The types hold in every state, so the list of instructions is bounded.  *)
THEOREM RuntimeTypeOK == Spec => []TypeOK
<1>1. IInv => TypeOK
  BY DEF IInv
<1>2. QED
  BY RuntimeInvariance, <1>1, PTL

(* Whoever checks for events or decides under the run lock finds the       *)
(* environment of its own run: _run_lock is enough for that.               *)
THEOREM RuntimeEnvBelongsToRun == Spec => []EnvBelongsToRun
<1>1. IInv => EnvBelongsToRun
  BY DEF IInv, RunInv
<1>2. QED
  BY RuntimeInvariance, <1>1, PTL

(* A run that ends in the decision loop leaves the original environment,   *)
(* also when a cancelled heartbeat left its own behind.                    *)
THEOREM RuntimeRestoresEnv == Spec => RunRestoresEnv
<1> DEFINE Restored == \A r \in Runs : stage[r] \in {"looping", "hung"} /\ stage'[r] \in Ended
                                         => env' = OwnEnv
<1>1. IInv /\ [Next]_vars => Restored
  <2> SUFFICES ASSUME IInv, [Next]_vars, NEW r \in Runs,
                      stage[r] \in {"looping", "hung"}, stage'[r] \in Ended
               PROVE  env' = OwnEnv
    OBVIOUS
  <2>1. TypeOK
    BY DEF IInv
  <2>2. stage'[r] # stage[r]
    BY DEF Ended
  <2>3. Leave(r) /\ RestoreSkillEnv
    <3>1. PICK q \in Runs : (\E k \in Kinds : TriggerEvent(q, k)) \/ RunStep(q) \/ LoopHangs(q)
                              \/ RunTimeout(q) \/ Cancel(q)
      BY <2>2 DEF Next, Pause, Resume, Instruct, vars
    <3>2. q = r
      BY <2>1, <2>2, <3>1
      DEF TriggerEvent, RunStep, Begin, EventsFound, NoEvents, LoopEnds, LoopHangs,
          RunTimeout, Cancel, Leave, Goto, TypeOK
    <3>3. CASE LoopEnds(r) \/ RunTimeout(r) \/ Cancel(r)
      BY <3>3 DEF LoopEnds, RunTimeout, Cancel
    <3>4. ~LoopHangs(r)
      BY <2>1 DEF LoopHangs, Goto, TypeOK, Ended
    <3>5. ~Begin(r) /\ ~EventsFound(r) /\ ~NoEvents(r)
      BY DEF Begin, EventsFound, NoEvents
    <3>6. \A k \in Kinds : ~TriggerEvent(r, k)
      BY DEF TriggerEvent, Ended
    <3>7. QED
      BY <3>1, <3>2, <3>3, <3>4, <3>5, <3>6 DEF RunStep
  <2>4. QED
    BY <2>3, RestoreFacts DEF Inside
<1>2. QED
  BY RuntimeInvariance, <1>1, PTL DEF Spec, RunRestoresEnv

(* An instruction is with one call at most, and then no longer pending.    *)
THEOREM RuntimeInstructionGivenOnce == Spec => []InstructionGivenOnce
<1>1. IInv => InstructionGivenOnce
  BY DEF IInv, InstructionInv
<1>2. QED
  BY RuntimeInvariance, <1>1, PTL

(* Instructions that made room are older than those that are kept.         *)
THEOREM RuntimeNewestInstructionsStay == Spec => []NewestInstructionsStay
<1>1. IInv => NewestInstructionsStay
  BY DEF IInv, InstructionInv
<1>2. QED
  BY RuntimeInvariance, <1>1, PTL
=============================================================================
