-------------------------- MODULE LuaThreadsProofs --------------------------
(***************************************************************************)
(* Proofs about Scheduler and LuaThreads for every number of threads and   *)
(* handles and every clock bound.                                          *)
(*                                                                         *)
(* First the scheduler by itself: the inductive invariant of run() and the *)
(* properties it gives.  Then a lua_thread and its coroutines: the handles *)
(* add nothing to what the scheduler may do, and each drives one coroutine *)
(* at a time, its own.                                                     *)
(***************************************************************************)
EXTENDS LuaThreads, TLAPS

(* Ids that have not been handed out name no coroutine yet, and the        *)
(* threads on the stack are the running ones.                              *)
FreshIds ==
  \A t \in Threads : t >= nextId => status[t] = "unborn"

StackRuns ==
  \A i \in DOMAIN stack : stack[i] < nextId /\ status[stack[i]] = "running"

(* run() has left behind every thread it resumed. *)
ResumedBehind ==
  iter # NoPass => \A t \in resumed : t < iter

(* What is owed to a thread stays owed until its turn: it keeps waiting,   *)
(* its task stays complete and the pause does not exclude it.              *)
OwedReady ==
  iter # NoPass =>
    \A t \in owed : status[t] = "yielded" /\ Resumable(t, inPause)

IInv ==
  /\ TypeOK
  /\ RunsOnce
  /\ FreshIds
  /\ StackRuns
  /\ ResumedBehind
  /\ DueThreadsAhead
  /\ OwedReady

USE SchedulerAssumption DEF SchedulerAssumption

----------------------------------------------------------------------------
(* Popping a slice drops the last element of the stack and nothing else. *)
LEMMA PopStack ==
  ASSUME stack \in Seq(Threads), stack # <<>>,
         stack' = SubSeq(stack, 1, Len(stack) - 1)
  PROVE  /\ Len(stack) \in Nat \ {0}
         /\ Top \in Threads
         /\ Top = stack[Len(stack)]
         /\ stack' \in Seq(Threads)
         /\ DOMAIN stack' = 1 .. Len(stack) - 1
         /\ DOMAIN stack = 1 .. Len(stack)
         /\ \A i \in DOMAIN stack' : stack'[i] = stack[i]
  BY DEF Top

(* The type invariant holds initially and every step keeps it. *)
LEMMA TypeInit == Init => TypeOK
  <1> SUFFICES ASSUME Init PROVE TypeOK
    OBVIOUS
  <1> USE DEF Init, Threads, Ends, Forever, NoTask, NoPass
  <1>1. nextId \in 1 .. MaxThreads + 1 /\ iter \in 0 .. MaxThreads + 1
    OBVIOUS
  <1>2. tasks \in [Threads -> Ends \cup {NoTask}]
    OBVIOUS
  <1>3. stack \in Seq(Threads)
    OBVIOUS
  <1>6. workInPause \in [Threads -> BOOLEAN]
    OBVIOUS
  <1>4. status \in [Threads -> {"unborn", "running", "yielded", "finished", "failed"}]
    OBVIOUS
  <1>5. inPause \in BOOLEAN /\ crashed \in BOOLEAN /\ erred \in BOOLEAN
    OBVIOUS
  <1>7. clock \in 0 .. MaxClock /\ resumed \subseteq Threads /\ owed \subseteq Threads
    OBVIOUS
  <1> QED
    BY <1>1, <1>2, <1>3, <1>4, <1>5, <1>6, <1>7 DEF TypeOK

LEMMA TypeStep == TypeOK /\ [Next]_vars => TypeOK'
  <1> SUFFICES ASSUME TypeOK, [Next]_vars PROVE TypeOK'
    OBVIOUS
  <1> USE DEF TypeOK, Threads, Ends, Forever, NoTask, NoPass, End, passVars
  <1>1. ASSUME NEW flag \in BOOLEAN, Start(flag) PROVE TypeOK'
    BY <1>1 DEF Start
  <1>2. ASSUME NEW end \in Ends, Wait(end) PROVE TypeOK'
    BY <1>2, PopStack DEF Wait, StoreTask, Leave, InThread
  <1>3. ASSUME NEW end \in Ends, NestedWait(end) PROVE TypeOK'
    BY <1>3 DEF NestedWait, StoreTask, InThread, Top
  <1>4. ASSUME Return \/ BareYield PROVE TypeOK'
    BY <1>4, PopStack DEF Return, BareYield, Leave, InThread
  <1>5. ASSUME Fail PROVE TypeOK'
    <2>1. stack' \in Seq(Threads) /\ Top \in Threads
      BY <1>5, PopStack DEF Fail, Leave, InThread
    <2>3. status' \in [Threads -> {"unborn", "running", "yielded", "finished", "failed"}]
      BY <1>5, <2>1 DEF Fail, Leave
    <2>4. inPause' \in BOOLEAN
      BY <1>5 DEF Fail, PassReturns, passVars
    <2>5. iter' \in 0 .. MaxThreads + 1
      <3>1. iter' = NoPass \/ iter' = iter
        BY <1>5 DEF Fail, PassReturns, passVars
      <3> QED
        BY <3>1, SchedulerAssumption DEF NoPass
    <2>7. erred' \in BOOLEAN
      BY <1>5 DEF Fail
    <2>6. resumed' \subseteq Threads /\ owed' \subseteq Threads
      <3>1. (resumed' = {} /\ owed' = {}) \/ (resumed' = resumed /\ owed' = owed)
        BY <1>5 DEF Fail, PassReturns, passVars
      <3> QED
        BY <3>1
    <2> QED
      BY <1>5, <2>1, <2>6, <2>3, <2>4, <2>5, <2>7 DEF Fail
  <1>6. ASSUME NEW t \in Threads, Terminate(t) PROVE TypeOK'
    BY <1>6 DEF Terminate
  <1>7. ASSUME NEW t \in Threads, NEW flag \in BOOLEAN, SetWorkInPause(t, flag)
        PROVE TypeOK'
    BY <1>7 DEF SetWorkInPause
  <1>8. ASSUME NEW paused \in BOOLEAN, BeginPass(paused) PROVE TypeOK'
    BY <1>8 DEF BeginPass, Pending
  <1>9. ASSUME ReapDead \/ Skip PROVE TypeOK'
    <2>1. iter' \in 0 .. MaxThreads + 1
      BY <1>9 DEF ReapDead, Skip, Advance
    <2> QED
      BY <1>9, <2>1 DEF ReapDead, Skip, AtEntry
  <1>10. ASSUME Resume PROVE TypeOK'
    <2>1. iter \in Threads /\ iter' \in 0 .. MaxThreads + 1
      BY <1>10 DEF Resume, Advance, AtEntry
    <2>2. stack' \in Seq(Threads)
      BY <1>10, <2>1 DEF Resume
    <2> QED
      BY <1>10, <2>1, <2>2 DEF Resume
  <1>11. ASSUME EndPass PROVE TypeOK'
    <2>1. inPause' \in BOOLEAN
      BY <1>11 DEF EndPass, PassReturns
    <2>2. iter' \in 0 .. MaxThreads + 1 /\ resumed' \subseteq Threads /\ owed' \subseteq Threads
      BY <1>11 DEF EndPass, PassReturns, NoPass
    <2> QED
      BY <1>11, <2>1, <2>2 DEF EndPass
  <1>14. ASSUME UseErased PROVE TypeOK'
    BY <1>14 DEF UseErased
  <1>12. ASSUME Tick PROVE TypeOK'
    <2>1. clock' \in 0 .. MaxClock
      BY <1>12 DEF Tick
    <2> QED
      BY <1>12, <2>1 DEF Tick
  <1>13. CASE UNCHANGED vars
    BY <1>13 DEF vars
  <1> QED
    BY <1>1, <1>2, <1>3, <1>4, <1>5, <1>6, <1>7, <1>8, <1>9, <1>10,
       <1>11, <1>12, <1>13, <1>14 DEF Next, Crashed

(* Every variable keeps its type in every behaviour. *)
THEOREM TypeCorrect == Spec => []TypeOK
  BY TypeInit, TypeStep, PTL DEF Spec

----------------------------------------------------------------------------
(* The stack and the ids: a thread is on the stack once, the threads on it *)
(* are the running ones, and ids not handed out stay unused.               *)
StackInv == RunsOnce /\ FreshIds /\ StackRuns

LEMMA StackStep == TypeOK /\ StackInv /\ [Next]_vars => StackInv'
  <1> SUFFICES ASSUME TypeOK, StackInv, [Next]_vars PROVE StackInv'
    OBVIOUS
  <1> USE DEF StackInv, RunsOnce, FreshIds, StackRuns
  <1>0. /\ stack \in Seq(Threads) /\ nextId \in 1 .. MaxThreads + 1
        /\ status \in [Threads -> {"unborn", "running", "yielded", "finished", "failed"}]
    BY DEF TypeOK
  <1>1. ASSUME NEW flag \in BOOLEAN, Start(flag) PROVE StackInv'
    <2>1. /\ DOMAIN stack = 1 .. Len(stack) /\ Len(stack) \in Nat
          /\ DOMAIN stack' = 1 .. Len(stack) + 1
          /\ \A i \in DOMAIN stack : stack'[i] = stack[i] /\ stack[i] \in Threads
          /\ stack'[Len(stack) + 1] = nextId
      BY <1>0, <1>1 DEF Start
    <2>2. nextId \in Threads /\ nextId' = nextId + 1
      BY <1>0, <1>1 DEF Start, Threads
    <2>3. status' = [status EXCEPT ![nextId] = "running"]
      BY <1>1 DEF Start
    <2>4. RunsOnce'
      <3>1. \A i \in DOMAIN stack : stack'[i] < nextId
        BY <2>1
      <3>2. \A i \in DOMAIN stack : stack'[i] # nextId
        BY <1>0, <2>1, <3>1 DEF Threads
      <3> QED
        BY <2>1, <3>2
    <2>5. FreshIds'
      BY <1>0, <2>2, <2>3 DEF Threads
    <2>6. ASSUME NEW i \in DOMAIN stack'
          PROVE stack'[i] < nextId' /\ status'[stack'[i]] = "running"
      <3>1. CASE i = Len(stack) + 1
        BY <1>0, <2>1, <2>2, <2>3, <3>1
      <3>2. CASE i \in DOMAIN stack
        <4>1. stack'[i] \in Threads /\ stack'[i] < nextId /\ status[stack'[i]] = "running"
          BY <2>1, <3>2
        <4> QED
          BY <1>0, <2>2, <2>3, <4>1 DEF Threads
      <3> QED
        BY <2>1, <3>1, <3>2
    <2> QED
      BY <2>4, <2>5, <2>6
  <1>2. ASSUME NEW outcome \in {"yielded", "finished", "failed"},
               InThread, Leave(outcome), nextId' = nextId
        PROVE StackInv'
    <2>1. /\ Top \in Threads /\ Top = stack[Len(stack)]
          /\ Len(stack) \in DOMAIN stack
          /\ DOMAIN stack' \subseteq DOMAIN stack \ {Len(stack)}
          /\ \A i \in DOMAIN stack' : stack'[i] = stack[i]
      BY <1>0, <1>2, PopStack DEF InThread, Leave
    <2>2. \A i \in DOMAIN stack : stack[i] \in Threads
      BY <1>0
    <2>3. status' = [status EXCEPT ![Top] = outcome] /\ Top < nextId
      BY <1>2, <2>1 DEF Leave
    <2>4. RunsOnce'
      BY <2>1
    <2>5. FreshIds'
      BY <1>0, <1>2, <2>1, <2>3 DEF Threads
    <2>6. StackRuns'
      BY <1>0, <1>2, <2>1, <2>2, <2>3
    <2> QED
      BY <2>4, <2>5, <2>6
  <1>3. ASSUME NEW end \in Ends, Wait(end) PROVE StackInv'
    BY <1>2, <1>3 DEF Wait
  <1>4. ASSUME Return \/ BareYield \/ Fail PROVE StackInv'
    BY <1>2, <1>4 DEF Return, BareYield, Fail
  <1>5. ASSUME Resume PROVE StackInv'
    <2>1. /\ iter \in Threads /\ stack = <<>> /\ stack' = <<iter>>
          /\ status[iter] = "yielded"
          /\ status' = [status EXCEPT ![iter] = "running"]
          /\ nextId' = nextId
      BY <1>5 DEF Resume, AtEntry
    <2>2. iter < nextId
      BY <1>0, <2>1 DEF Threads
    <2>3. FreshIds'
      BY <1>0, <2>1, <2>2 DEF Threads
    <2>4. DOMAIN stack' = {1} /\ stack'[1] = iter
      BY <2>1
    <2> QED
      BY <1>0, <2>1, <2>2, <2>3, <2>4
  <1>6. ASSUME UNCHANGED <<stack, status, nextId>> PROVE StackInv'
    BY <1>6
  <1>7. ASSUME \/ \E end \in Ends : NestedWait(end)
               \/ \E t \in Threads : Terminate(t)
               \/ \E t \in Threads, flag \in BOOLEAN : SetWorkInPause(t, flag)
               \/ \E paused \in BOOLEAN : BeginPass(paused)
               \/ ReapDead \/ Skip \/ EndPass \/ UseErased \/ Tick
               \/ UNCHANGED vars
        PROVE UNCHANGED <<stack, status, nextId>>
    BY <1>7 DEF NestedWait, Terminate, SetWorkInPause, BeginPass, ReapDead,
                Skip, EndPass, UseErased, Tick, vars
  <1> QED
    BY <1>1, <1>3, <1>4, <1>5, <1>6, <1>7 DEF Next, Crashed

----------------------------------------------------------------------------
(* The pass: what run() has resumed lies behind its iterator, what it owes *)
(* lies ahead and stays ready.                                             *)
PassInv == ResumedBehind /\ DueThreadsAhead /\ OwedReady

(* Storing or leaving a task never touches a thread that waits. *)
LEMMA OwedSurvives ==
  ASSUME TypeOK, StackInv, PassInv, iter' = iter, owed' \subseteq owed,
         resumed' = resumed, inPause' = inPause, clock' \in Int, clock' >= clock,
         \A t \in owed' : /\ tasks'[t] = tasks[t] /\ status'[t] = status[t]
                          /\ inPause /\ workInPause[t] => workInPause'[t]
  PROVE  PassInv'
  <1> USE DEF PassInv
  <1>1. ResumedBehind'
    BY DEF ResumedBehind
  <1>2. DueThreadsAhead'
    BY DEF DueThreadsAhead
  <1>3. ASSUME iter # NoPass, NEW t \in owed'
        PROVE status'[t] = "yielded" /\ Resumable(t, inPause)'
    <2>1. status[t] = "yielded" /\ Resumable(t, inPause)
      BY <1>3 DEF OwedReady
    <2>2. clock >= tasks[t] /\ tasks[t] \in Int
      BY <2>1 DEF Resumable, Complete, TypeOK, Threads, Ends, Forever, NoTask
    <2>3. clock' >= tasks'[t]
      BY <2>2 DEF TypeOK
    <2>4. (inPause => workInPause[t]) => (inPause' => workInPause'[t])
      OBVIOUS
    <2> QED
      BY <2>1, <2>3, <2>4 DEF Resumable, Complete
  <1>4. OwedReady'
    BY <1>3 DEF OwedReady
  <1> QED
    BY <1>1, <1>2, <1>4

(* The running thread is owed nothing: an owed thread waits. *)
LEMMA TopNotOwed ==
  ASSUME TypeOK, StackInv, PassInv, InThread, iter # NoPass
  PROVE  Top \in Threads /\ Top \notin owed
  <1>1. Len(stack) \in DOMAIN stack /\ Top = stack[Len(stack)] /\ Top \in Threads
    BY DEF TypeOK, InThread, Top
  <1>2. status[Top] = "running"
    BY <1>1 DEF StackInv, StackRuns
  <1> QED
    BY <1>1, <1>2 DEF PassInv, OwedReady

LEMMA PassStepInv == TypeOK /\ StackInv /\ PassInv /\ [Next]_vars => PassInv'
  <1> SUFFICES ASSUME TypeOK, StackInv, PassInv, [Next]_vars PROVE PassInv'
    OBVIOUS
  <1>0. clock \in Int /\ clock >= clock
    BY DEF TypeOK
  <1>n. ASSUME iter' = NoPass PROVE PassInv'
    BY <1>n DEF PassInv, ResumedBehind, DueThreadsAhead, OwedReady
  <1>1. ASSUME NEW flag \in BOOLEAN, Start(flag) PROVE PassInv'
    <2>1. \A t \in owed : iter # NoPass => t # nextId
      <3>1. nextId \in Threads
        BY <1>1 DEF Start, Threads, TypeOK
      <3>2. status[nextId] = "unborn"
        BY <3>1 DEF StackInv, FreshIds, TypeOK
      <3> QED
        BY <3>2 DEF PassInv, OwedReady
    <2>2. CASE iter = NoPass
      BY <1>1, <1>n, <2>2 DEF Start, passVars
    <2>3. CASE iter # NoPass
      <3>1. \A t \in owed : /\ tasks'[t] = tasks[t] /\ status'[t] = status[t]
                            /\ workInPause'[t] = workInPause[t]
        BY <1>1, <2>1, <2>3 DEF Start, TypeOK
      <3> QED
        BY <1>0, <1>1, <3>1, OwedSurvives DEF Start, passVars
    <2> QED
      BY <2>2, <2>3
  <1>2. ASSUME InThread, iter' = iter, UNCHANGED <<inPause, resumed, owed, clock, workInPause>>,
               \A t \in Threads \ {Top} : tasks'[t] = tasks[t] /\ status'[t] = status[t]
        PROVE PassInv'
    <2>1. CASE iter = NoPass
      BY <1>2, <1>n, <2>1
    <2>2. CASE iter # NoPass
      <3>1. \A t \in owed : tasks'[t] = tasks[t] /\ status'[t] = status[t]
        BY <1>2, <2>2, TopNotOwed DEF TypeOK
      <3> QED
        BY <1>0, <1>2, <3>1, OwedSurvives
    <2> QED
      BY <2>1, <2>2
  <1>3. ASSUME NEW end \in Ends, Wait(end) \/ NestedWait(end) PROVE PassInv'
    <2>1. InThread /\ UNCHANGED <<iter, inPause, resumed, owed, clock, workInPause>>
      BY <1>3 DEF Wait, NestedWait, passVars
    <2>2. \A t \in Threads \ {Top} : tasks'[t] = tasks[t] /\ status'[t] = status[t]
      BY <1>3 DEF Wait, NestedWait, StoreTask, Leave, TypeOK
    <2> QED
      BY <1>2, <2>1, <2>2
  <1>4. ASSUME Return \/ BareYield PROVE PassInv'
    <2>1. InThread /\ UNCHANGED <<iter, inPause, resumed, owed, clock, workInPause>>
      BY <1>4 DEF Return, BareYield, passVars
    <2>2. \A t \in Threads \ {Top} : tasks'[t] = tasks[t] /\ status'[t] = status[t]
      BY <1>4 DEF Return, BareYield, Leave, TypeOK
    <2> QED
      BY <1>2, <2>1, <2>2
  <1>5. ASSUME Fail PROVE PassInv'
    <2>1. CASE iter' = NoPass
      BY <1>n, <2>1
    <2>2. CASE UNCHANGED <<iter, owed>>
      <3>1. InThread /\ UNCHANGED <<iter, inPause, resumed, owed, clock, workInPause>>
        BY <1>5, <2>2 DEF Fail, PassReturns, passVars
      <3>2. \A t \in Threads \ {Top} : tasks'[t] = tasks[t] /\ status'[t] = status[t]
        BY <1>5 DEF Fail, Leave, TypeOK
      <3> QED
        BY <1>2, <3>1, <3>2
    <2> QED
      BY <1>5, <2>1, <2>2 DEF Fail, PassReturns, passVars
  <1>6. ASSUME NEW t \in Threads, Terminate(t) PROVE PassInv'
    <2>1. \A u \in owed' : /\ tasks'[u] = tasks[u] /\ status'[u] = status[u]
                           /\ workInPause'[u] = workInPause[u]
      BY <1>6 DEF Terminate, TypeOK
    <2>2. /\ iter' = iter /\ owed' \subseteq owed /\ resumed' = resumed
          /\ inPause' = inPause /\ clock' = clock
      BY <1>6 DEF Terminate
    <2> QED
      BY <1>0, <2>1, <2>2, OwedSurvives
  <1>7. ASSUME NEW t \in Threads, NEW flag \in BOOLEAN, SetWorkInPause(t, flag)
        PROVE PassInv'
    <2>1. \A u \in owed' : /\ tasks'[u] = tasks[u] /\ status'[u] = status[u]
                           /\ inPause /\ workInPause[u] => workInPause'[u]
      BY <1>7 DEF SetWorkInPause, TypeOK
    <2>2. /\ iter' = iter /\ owed' \subseteq owed /\ resumed' = resumed
          /\ inPause' = inPause /\ clock' = clock
      BY <1>7 DEF SetWorkInPause
    <2> QED
      BY <1>0, <2>1, <2>2, OwedSurvives
  <1>8. ASSUME NEW paused \in BOOLEAN, BeginPass(paused) PROVE PassInv'
    <2>1. ResumedBehind'
      BY <1>8 DEF BeginPass, ResumedBehind
    <2>2. \A t \in owed' : tasks'[t] # NoTask /\ t >= iter'
      BY <1>8 DEF BeginPass, IsNext, Pending, Threads
    <2>3. OwedReady'
      BY <1>8 DEF BeginPass, OwedReady, Resumable, Complete
    <2> QED
      BY <2>1, <2>2, <2>3 DEF PassInv, DueThreadsAhead
  <1>9. ASSUME ReapDead \/ Resume \/ Skip PROVE PassInv'
    <2>1. /\ iter \in Threads /\ iter \in Pending /\ iter # NoPass
          /\ iter' \in Int /\ iter' > iter
          /\ \A k \in Pending : k > iter => iter' <= k
      BY <1>9 DEF ReapDead, Resume, Skip, AtEntry, Advance, IsNext, Threads, NoPass, End, TypeOK
    <2>2. /\ resumed' \subseteq resumed \cup {iter} /\ owed' \subseteq owed
          /\ UNCHANGED <<inPause, clock, workInPause>>
      BY <1>9 DEF ReapDead, Resume, Skip
    <2>3. \A t \in Threads \ {iter} : tasks'[t] = tasks[t] /\ status'[t] = status[t]
      BY <1>9 DEF ReapDead, Resume, Skip, TypeOK
    <2>4. iter \notin owed'
      BY <1>9, <2>1 DEF ReapDead, Resume, Skip, PassInv, OwedReady
    <2>5. ResumedBehind'
      BY <2>1, <2>2 DEF ResumedBehind, PassInv, TypeOK, Threads
    <2>6. ASSUME NEW t \in owed'
          PROVE  /\ tasks'[t] # NoTask /\ t >= iter'
                 /\ status'[t] = "yielded" /\ Resumable(t, inPause)'
      <3>1. t \in Threads \ {iter} /\ t \in owed
        BY <2>2, <2>4 DEF TypeOK
      <3>2. /\ tasks[t] # NoTask /\ t >= iter
            /\ status[t] = "yielded" /\ Resumable(t, inPause)
        BY <2>1, <3>1 DEF PassInv, DueThreadsAhead, OwedReady
      <3>3. t \in Pending /\ t > iter
        BY <2>1, <3>1, <3>2 DEF Pending, Threads
      <3>4. t >= iter'
        BY <2>1, <3>3 DEF Pending, Threads
      <3>5. tasks'[t] = tasks[t] /\ status'[t] = status[t]
        BY <2>3, <3>1
      <3> QED
        BY <2>2, <3>2, <3>4, <3>5 DEF Resumable, Complete
    <2> QED
      BY <2>5, <2>6 DEF PassInv, DueThreadsAhead, OwedReady
  <1>10. ASSUME EndPass PROVE PassInv'
    BY <1>10, <1>n DEF EndPass, PassReturns
  <1>11. ASSUME Tick PROVE PassInv'
    <2>1. clock' \in Int /\ clock' >= clock
      BY <1>11 DEF Tick, TypeOK
    <2>2. UNCHANGED <<iter, owed, resumed, inPause, tasks, status, workInPause>>
      BY <1>11 DEF Tick, passVars
    <2> QED
      BY <2>1, <2>2, OwedSurvives
  <1>12. ASSUME UseErased \/ UNCHANGED vars PROVE PassInv'
    <2>1. UNCHANGED <<iter, owed, resumed, inPause, tasks, status, workInPause, clock>>
      BY <1>12 DEF UseErased, vars, passVars
    <2> QED
      BY <1>0, <2>1, OwedSurvives
  <1> QED
    BY <1>1, <1>3, <1>4, <1>5, <1>6, <1>7, <1>8, <1>9, <1>10, <1>11, <1>12
       DEF Next, Crashed

----------------------------------------------------------------------------
(* IInv holds initially and is kept by every step. *)
LEMMA Inductive == Spec => []IInv
  <1>1. Init => IInv
    <2> SUFFICES ASSUME Init PROVE IInv
      OBVIOUS
    <2>1. stack = <<>> /\ iter = NoPass /\ status = [t \in Threads |-> "unborn"]
      BY DEF Init
    <2>2. RunsOnce /\ StackRuns
      BY <2>1 DEF RunsOnce, StackRuns
    <2>3. FreshIds /\ ResumedBehind /\ DueThreadsAhead /\ OwedReady
      BY <2>1 DEF FreshIds, ResumedBehind, DueThreadsAhead, OwedReady
    <2> QED
      BY <2>2, <2>3, TypeInit DEF IInv
  <1>2. IInv /\ [Next]_vars => IInv'
    BY TypeStep, StackStep, PassStepInv DEF IInv, StackInv, PassInv
  <1> QED
    BY <1>1, <1>2, PTL DEF Spec

(* scheduler.h, _thread_stack: no thread is ever on it twice. *)
THEOREM RunsOnceAlways == Spec => []RunsOnce
  <1>1. IInv => RunsOnce
    BY DEF IInv
  <1> QED
    BY <1>1, Inductive, PTL

(* scheduler::run: erasing entries, new entries and terminated entries     *)
(* never make the iterator jump over a thread that was due.                *)
THEOREM DueNotSkipped == Spec => []DueThreadsAhead
  <1>1. IInv => DueThreadsAhead
    BY DEF IInv
  <1> QED
    BY <1>1, Inductive, PTL

(* scheduler::run: no thread gets two slices in one pass. *)
THEOREM OneSlicePerPass == Spec => ResumedOncePerPass
  <1>1. IInv => (Resume => iter \notin resumed)
    <2> SUFFICES ASSUME IInv, Resume PROVE iter \notin resumed
      OBVIOUS
    <2>1. iter \in Threads /\ iter # NoPass
      BY DEF Resume, AtEntry, Threads, NoPass
    <2> QED
      BY <2>1 DEF IInv, ResumedBehind, Threads
  <1> QED
    BY <1>1, Inductive, PTL DEF ResumedOncePerPass

(* scheduler::run: a coroutine that is over is reaped, not resumed. *)
THEOREM NoResumeAfterEnd == Spec => DeadStaysDead
  <1>1. IInv /\ [Next]_vars =>
          \A t \in Threads :
            status[t] \in {"finished", "failed"} => status'[t] = status[t]
    <2> SUFFICES ASSUME IInv, [Next]_vars, NEW t \in Threads,
                        status[t] \in {"finished", "failed"}
                 PROVE  status'[t] = status[t]
      OBVIOUS
    <2> USE DEF IInv
    <2>0. status \in [Threads -> {"unborn", "running", "yielded", "finished", "failed"}]
      BY DEF TypeOK
    <2>1. ASSUME NEW flag \in BOOLEAN, Start(flag) PROVE status'[t] = status[t]
      <3>1. nextId \in Threads
        BY <2>1 DEF Start, Threads, TypeOK
      <3>2. status[nextId] = "unborn"
        BY <3>1 DEF FreshIds, TypeOK
      <3> QED
        BY <2>0, <2>1, <3>2 DEF Start
    <2>2. ASSUME InThread, NEW outcome, Leave(outcome) PROVE status'[t] = status[t]
      <3>1. Len(stack) \in DOMAIN stack /\ Top = stack[Len(stack)] /\ Top \in Threads
        BY <2>2 DEF TypeOK, InThread, Top
      <3>2. status[Top] = "running"
        BY <3>1 DEF StackRuns
      <3> QED
        BY <2>0, <2>2, <3>2 DEF Leave
    <2>3. ASSUME NEW end \in Ends, Wait(end) PROVE status'[t] = status[t]
      BY <2>2, <2>3 DEF Wait
    <2>4. ASSUME Return \/ BareYield \/ Fail PROVE status'[t] = status[t]
      BY <2>2, <2>4 DEF Return, BareYield, Fail
    <2>5. ASSUME Resume PROVE status'[t] = status[t]
      BY <2>0, <2>5 DEF Resume
    <2>6. ASSUME \/ \E end \in Ends : NestedWait(end)
                 \/ \E u \in Threads : Terminate(u)
                 \/ \E u \in Threads, flag \in BOOLEAN : SetWorkInPause(u, flag)
                 \/ \E paused \in BOOLEAN : BeginPass(paused)
                 \/ ReapDead \/ Skip \/ EndPass \/ UseErased \/ Tick
                 \/ UNCHANGED vars
          PROVE status'[t] = status[t]
      BY <2>6 DEF NestedWait, Terminate, SetWorkInPause, BeginPass, ReapDead,
                  Skip, EndPass, UseErased, Tick, vars
    <2> QED
      BY <2>1, <2>3, <2>4, <2>5, <2>6 DEF Next, Crashed
  <1> QED
    BY <1>1, Inductive, PTL DEF Spec, DeadStaysDead

----------------------------------------------------------------------------
----------------------------------------------------------------------------
(* An id that a handle keeps, or that has an owner, was handed out. *)
KnownIds ==
  /\ \A h \in Handles : threadId[h] < nextId
  /\ \A t \in Threads : t >= nextId => owner[t] = Script

(* A coroutine in its first slice has the flag its handle had. *)
OpenFlag ==
  \A t \in opening : owner[t] \in Handles \ (unheard \cup reentered)
    => workInPause[t] = pauseFlag[owner[t]]

(* The coroutines of a handle that live are the one it knows and the one   *)
(* in its first slice.                                                     *)
LiveAreKnown ==
  \A h \in Handles \ reentered, t \in Threads :
    owner[t] = h /\ Alive(t) => t = threadId[h] \/ t \in opening

HInv ==
  /\ HandlesTypeOK
  /\ StackInv
  /\ KnownIds
  /\ OwnThread
  /\ OpenFlag
  /\ FlagObeyed
  /\ LiveAreKnown
  /\ OneCoroutine

----------------------------------------------------------------------------
(* The handles take no liberty with the scheduler. *)
LEMMA HandlesCallScheduler == HandlesTypeOK /\ [HNext]_allVars => [Next]_vars
  <1> SUFFICES ASSUME HandlesTypeOK, [HNext]_allVars PROVE [Next]_vars
    OBVIOUS
  <1>1. ASSUME NEW h \in Handles, Run(h) PROVE Next
    <2>1. pauseFlag[h] \in BOOLEAN /\ Start(pauseFlag[h])
      BY <1>1 DEF HandlesTypeOK, Run
    <2> QED
      BY <2>1 DEF Next
  <1>2. ASSUME NEW h \in Handles, HandleTerminate(h) PROVE Next
    <2>1. threadId[h] \in Threads /\ Terminate(threadId[h])
      BY <1>2 DEF HandlesTypeOK, HandleTerminate, Threads
    <2> QED
      BY <2>1 DEF Next
  <1>3. ASSUME NEW h \in Handles, NEW flag \in BOOLEAN, SetFlag(h, flag)
        PROVE  Next \/ UNCHANGED vars
    <2>1. CASE SetWorkInPause(threadId[h], flag)
      <3>1. threadId[h] \in Threads
        <4>1. Pending \subseteq Threads /\ OnStack \subseteq Threads
          BY DEF HandlesTypeOK, TypeOK, Pending, OnStack
        <4> QED
          BY <2>1, <4>1 DEF SetWorkInPause
      <3> QED
        BY <2>1, <3>1 DEF Next
    <2>2. CASE UNCHANGED vars
      BY <2>2
    <2> QED
      BY <1>3, <2>1, <2>2 DEF SetFlag
  <1>4. ASSUME StartMain PROVE Next
    <2>1. WorksInPause \in BOOLEAN /\ Start(WorksInPause)
      BY <1>4, LuaThreadsAssumption DEF StartMain
    <2> QED
      BY <2>1 DEF Next
  <1>5. ASSUME SliceLeaves PROVE Next
    BY <1>5 DEF SliceLeaves, EndSlice, Next
  <1>6. ASSUME \/ \E end \in Ends : NestedWait(end) /\ HandlesRest
               \/ \E paused \in BOOLEAN : Frame(paused)
               \/ PassLoop
               \/ Tick /\ HandlesRest
               \/ Crashed /\ HandlesRest
        PROVE  Next
    BY <1>6 DEF Frame, PassLoop, PassStep, Next
  <1>7. CASE UNCHANGED allVars
    BY <1>7 DEF allVars
  <1> QED
    BY <1>1, <1>2, <1>3, <1>4, <1>5, <1>6, <1>7 DEF HNext

(* What the steps make of the stack as a set. *)
LEMMA StackSets ==
  ASSUME TypeOK, StackInv
  PROVE  /\ OnStack \subseteq Threads
         /\ \A t \in OnStack : t < nextId /\ status[t] = "running"
         /\ \A flag : Start(flag) => OnStack' = OnStack \cup {nextId}
         /\ \A outcome : InThread /\ Leave(outcome) => Top \in OnStack /\ OnStack' = OnStack \ {Top}
         /\ Resume => OnStack = {} /\ OnStack' = {iter}
         /\ stack = <<>> => OnStack = {}
  <1>1. stack \in Seq(Threads)
    BY DEF TypeOK
  <1>2. OnStack \subseteq Threads /\ \A t \in OnStack : t < nextId /\ status[t] = "running"
    BY <1>1 DEF OnStack, StackInv, StackRuns
  <1>3. ASSUME NEW flag, Start(flag) PROVE OnStack' = OnStack \cup {nextId}
    <2>1. /\ DOMAIN stack = 1 .. Len(stack) /\ Len(stack) \in Nat
          /\ DOMAIN stack' = 1 .. Len(stack) + 1
          /\ \A i \in DOMAIN stack : stack'[i] = stack[i]
          /\ stack'[Len(stack) + 1] = nextId
      BY <1>1, <1>3 DEF Start
    <2>2. DOMAIN stack' = DOMAIN stack \cup {Len(stack) + 1}
      BY <2>1
    <2> QED
      BY <2>1, <2>2 DEF OnStack
  <1>4. ASSUME NEW outcome, InThread, Leave(outcome)
        PROVE  Top \in OnStack /\ OnStack' = OnStack \ {Top}
    <2>1. /\ Top = stack[Len(stack)] /\ Len(stack) \in DOMAIN stack
          /\ DOMAIN stack' = DOMAIN stack \ {Len(stack)}
          /\ \A i \in DOMAIN stack' : stack'[i] = stack[i]
      BY <1>1, <1>4, PopStack DEF InThread, Leave
    <2>2. \A i \in DOMAIN stack' : stack[i] # Top
      BY <2>1 DEF StackInv, RunsOnce
    <2> QED
      BY <2>1, <2>2 DEF OnStack
  <1>5. stack = <<>> => OnStack = {}
    BY DEF OnStack
  <1>6. ASSUME Resume PROVE OnStack = {} /\ OnStack' = {iter}
    <2>1. stack = <<>> /\ stack' = <<iter>>
      BY <1>6 DEF Resume, AtEntry
    <2>2. DOMAIN stack' = {1} /\ stack'[1] = iter
      BY <2>1
    <2> QED
      BY <1>5, <2>1, <2>2 DEF OnStack
  <1> QED
    BY <1>2, <1>3, <1>4, <1>5, <1>6

(* A coroutine that is over, or that neither waits nor runs, stays so. *)
LEMMA NeverBack ==
  ASSUME TypeOK, StackInv, [Next]_vars, NEW t \in Threads, t < nextId
  PROVE  /\ nextId' >= nextId /\ t < nextId'
         /\ status[t] \in {"finished", "failed"} => status'[t] = status[t]
         /\ t \notin Pending \cup OnStack => t \notin (Pending \cup OnStack)'
  <1>0. /\ status \in [Threads -> {"unborn", "running", "yielded", "finished", "failed"}]
        /\ tasks \in [Threads -> Ends \cup {NoTask}]
        /\ nextId \in Int /\ Threads \subseteq Int
    BY DEF TypeOK, Threads
  <1> DEFINE Goal == /\ nextId' >= nextId /\ t < nextId'
                     /\ status[t] \in {"finished", "failed"} => status'[t] = status[t]
                     /\ t \notin Pending \cup OnStack => t \notin (Pending \cup OnStack)'
  <1>1. ASSUME NEW flag \in BOOLEAN, Start(flag) PROVE Goal
    <2>1. OnStack' = OnStack \cup {nextId} /\ nextId' = nextId + 1 /\ tasks' = tasks
          /\ status' = [status EXCEPT ![nextId] = "running"]
      BY <1>1, StackSets DEF Start
    <2> QED
      BY <1>0, <2>1 DEF Pending
  <1>2. ASSUME InThread, NEW outcome, Leave(outcome), nextId' = nextId,
               tasks' = tasks \/ \E end : StoreTask(Top, end)
        PROVE  Goal
    <2>1. Top \in OnStack /\ OnStack' = OnStack \ {Top} /\ status[Top] = "running" /\ Top \in Threads
      BY <1>2, StackSets
    <2>2. \A u \in Threads : u # Top => tasks'[u] = tasks[u]
      BY <1>0, <1>2, <2>1 DEF StoreTask
    <2>3. status' = [status EXCEPT ![Top] = outcome]
      BY <1>2 DEF Leave
    <2> QED
      BY <1>0, <1>2, <2>1, <2>2, <2>3 DEF Pending
  <1>3. ASSUME NEW end \in Ends, Wait(end) PROVE Goal
    BY <1>2, <1>3 DEF Wait
  <1>4. ASSUME Return \/ BareYield \/ Fail PROVE Goal
    BY <1>2, <1>4 DEF Return, BareYield, Fail
  <1>5. ASSUME Resume PROVE Goal
    <2>1. /\ iter \in Pending /\ iter \in Threads /\ status[iter] = "yielded" /\ nextId' = nextId
          /\ tasks' = [tasks EXCEPT ![iter] = NoTask]
          /\ status' = [status EXCEPT ![iter] = "running"]
      BY <1>5 DEF Resume, AtEntry
    <2>2. OnStack' = {iter} /\ Pending' \subseteq Pending
      BY <1>0, <1>5, <2>1, StackSets DEF Pending
    <2> QED
      BY <1>0, <2>1, <2>2
  <1>6. ASSUME UNCHANGED <<stack, status, nextId>>, Pending' \subseteq Pending \cup OnStack
        PROVE  Goal
    BY <1>0, <1>6 DEF OnStack
  <1>7. ASSUME NEW end \in Ends, NestedWait(end) PROVE Goal
    <2>1. Top \in OnStack /\ Top \in Threads
      <3>1. stack \in Seq(Threads) /\ stack # <<>>
        BY <1>7 DEF NestedWait, InThread, TypeOK
      <3> QED
        BY <3>1 DEF Top, OnStack
    <2>2. Pending' \subseteq Pending \cup {Top}
      BY <1>0, <1>7, <2>1 DEF NestedWait, StoreTask, Pending
    <2> QED
      BY <1>6, <1>7, <2>1, <2>2 DEF NestedWait
  <1>8. ASSUME NEW u \in Threads, Terminate(u) PROVE Goal
    BY <1>0, <1>6, <1>8 DEF Terminate, Pending
  <1>9. ASSUME ReapDead PROVE Goal
    BY <1>0, <1>6, <1>9 DEF ReapDead, Pending, AtEntry
  <1>10. ASSUME \/ \E u \in Threads, flag \in BOOLEAN : SetWorkInPause(u, flag)
                \/ \E paused \in BOOLEAN : BeginPass(paused)
                \/ Skip \/ EndPass \/ UseErased \/ Tick
                \/ UNCHANGED vars
         PROVE  Goal
    <2>1. UNCHANGED <<stack, status, nextId, tasks>>
      BY <1>10 DEF SetWorkInPause, BeginPass, Skip, EndPass, UseErased, Tick, vars
    <2> QED
      BY <1>6, <2>1 DEF Pending
  <1> QED
    BY <1>1, <1>3, <1>4, <1>5, <1>7, <1>8, <1>9, <1>10 DEF Next, Crashed

LEMMA DeadStays ==
  ASSUME TypeOK, StackInv, [Next]_vars, NEW t \in Threads, t < nextId
  PROVE  /\ Dead(t) => Dead(t)'
         /\ ~ Alive(t) => ~ Alive(t)'
  BY NeverBack DEF Dead, Alive

----------------------------------------------------------------------------
LEMMA HInvInit == HInit => HInv
  <1> SUFFICES ASSUME HInit PROVE HInv
    OBVIOUS
  <1>1. TypeOK /\ nextId = 1 /\ stack = <<>> /\ status = [t \in Threads |-> "unborn"]
    BY TypeInit DEF HInit, Init
  <1>2. StackInv
    BY <1>1 DEF StackInv, RunsOnce, StackRuns, FreshIds
  <1>3. HandlesTypeOK
    BY <1>1, LuaThreadsAssumption DEF HInit, HandlesTypeOK
  <1>4. \A t \in Threads : ~ Alive(t)
    BY <1>1 DEF Alive, Threads
  <1>5. KnownIds /\ OwnThread /\ OpenFlag
    BY <1>1 DEF HInit, KnownIds, OwnThread, OpenFlag
  <1>6. FlagObeyed /\ LiveAreKnown /\ OneCoroutine
    BY <1>1, <1>4 DEF HInit, FlagObeyed, LiveAreKnown, OneCoroutine
  <1> QED
    BY <1>2, <1>3, <1>5, <1>6 DEF HInv

(* What every step has from the scheduler. *)
LEMMA SchedulerKeeps ==
  ASSUME HInv, [HNext]_allVars
  PROVE  /\ TypeOK' /\ StackInv'
         /\ nextId' >= nextId
         /\ \A t \in Threads : t < nextId => (Dead(t) => Dead(t)')
         /\ \A t \in Threads : t < nextId /\ Alive(t)' => Alive(t)
  <1>1. TypeOK /\ StackInv /\ [Next]_vars
    BY HandlesCallScheduler DEF HInv, HandlesTypeOK
  <1>2. TypeOK' /\ StackInv'
    BY <1>1, TypeStep, StackStep
  <1>3. nextId \in Int /\ 1 \in Threads
    BY <1>1 DEF TypeOK, Threads
  <1>4. CASE nextId = 1
    <2>1. nextId' >= nextId
      BY <1>2, <1>4 DEF TypeOK
    <2>2. \A t \in Threads : ~ (t < nextId)
      BY <1>4 DEF Threads
    <2> QED
      BY <1>2, <2>1, <2>2
  <1>5. CASE nextId # 1
    <2>1. 1 < nextId
      BY <1>1, <1>5 DEF TypeOK
    <2>2. nextId' >= nextId
      BY <1>1, <1>3, <2>1, NeverBack
    <2>3. \A t \in Threads : t < nextId => (Dead(t) => Dead(t)') /\ (~ Alive(t) => ~ Alive(t)')
      BY <1>1, DeadStays
    <2> QED
      BY <1>2, <2>2, <2>3
  <1> QED
    BY <1>4, <1>5

(* A step that only moves coroutines on, and leaves the handles alone. *)
LEMMA HandlesUntouched ==
  ASSUME HInv, [HNext]_allVars, UNCHANGED handleVars,
         nextId' = nextId, workInPause' = workInPause, opening \subseteq OnStack'
  PROVE  HInv'
  <1>1. TypeOK' /\ StackInv' /\ \A t \in Threads : Alive(t)' => Alive(t)
    <2>1. \A t \in Threads : Alive(t)' => t < nextId
      BY DEF Alive
    <2> QED
      BY <2>1, SchedulerKeeps
  <1>2. HandlesTypeOK' /\ KnownIds' /\ OwnThread' /\ OpenFlag'
    BY <1>1 DEF HInv, HandlesTypeOK, handleVars, KnownIds, OwnThread, OpenFlag
  <1>3. \A h \in Handles : threadId[h] # 0 => threadId[h] \in Threads
    BY DEF HInv, HandlesTypeOK, Threads
  <1>4. FlagObeyed'
    BY <1>1, <1>3 DEF HInv, FlagObeyed, handleVars
  <1>5. LiveAreKnown' /\ OneCoroutine'
    BY <1>1 DEF HInv, LiveAreKnown, OneCoroutine, handleVars
  <1> QED
    BY <1>1, <1>2, <1>4, <1>5 DEF HInv

(* The coroutines in their first slice live. *)
LEMMA OpeningLive ==
  ASSUME HInv
  PROVE  \A t \in opening : t \in Threads /\ t \in OnStack /\ t < nextId /\ Alive(t)
  <1>1. TypeOK /\ StackInv /\ opening \subseteq OnStack
    BY DEF HInv, HandlesTypeOK
  <1> QED
    BY <1>1, StackSets DEF Alive, Dead

LEMMA RunInv == ASSUME HInv, HNext, NEW h \in Handles, Run(h) PROVE HInv'
  <1>1. /\ nextId \in Threads /\ nextId' = nextId + 1 /\ nextId \in Int /\ Threads \subseteq Int
        /\ OnStack' = OnStack \cup {nextId}
        /\ workInPause' = [workInPause EXCEPT ![nextId] = pauseFlag[h]]
        /\ workInPause \in [Threads -> BOOLEAN]
    <2>1. TypeOK /\ StackInv /\ Start(pauseFlag[h])
      BY DEF HInv, HandlesTypeOK, Run
    <2>2. OnStack' = OnStack \cup {nextId}
      BY <2>1, StackSets
    <2>3. nextId \in Threads
      BY <2>1 DEF Start, TypeOK, Threads
    <2> QED
      BY <2>1, <2>2, <2>3 DEF Start, TypeOK, Threads
  <1>2. /\ threadId' = threadId /\ pauseFlag' = pauseFlag /\ unheard' = unheard
        /\ opening' = opening \cup {nextId}
        /\ owner' = [owner EXCEPT ![nextId] = h]
        /\ owner \in [Threads -> Handles \cup {Script}]
        /\ reentered' = IF Opening(h) = {} THEN reentered ELSE reentered \cup {h}
        /\ reentered \subseteq Handles
        /\ \A g \in Handles : threadId[g] < nextId /\ (threadId[g] # 0 => threadId[g] \in Threads)
    BY DEF Run, HInv, HandlesTypeOK, KnownIds, Threads
  <1>3. TypeOK' /\ StackInv' /\ \A t \in Threads : t < nextId /\ Alive(t)' => Alive(t)
    BY SchedulerKeeps
  <1>4. \A t \in Threads : Alive(t)' => t < nextId \/ t = nextId
    BY <1>1 DEF Alive
  <1>5. HandlesTypeOK'
    <2>1. opening' \subseteq OnStack'
      BY <1>1, <1>2 DEF HInv, HandlesTypeOK
    <2>2. reentered' \subseteq Handles
      BY <1>2
    <2>3. owner' \in [Threads -> Handles \cup {Script}]
      BY <1>1, <1>2
    <2>4. /\ threadId' \in [Handles -> 0 .. MaxThreads] /\ pauseFlag' \in [Handles -> BOOLEAN]
          /\ unheard' \subseteq Handles
      BY <1>2 DEF HInv, HandlesTypeOK
    <2> QED
      BY <1>3, <2>1, <2>2, <2>3, <2>4 DEF HandlesTypeOK
  <1>6. KnownIds'
    <2>1. \A g \in Handles : threadId'[g] \in Int
      BY <1>5 DEF HandlesTypeOK
    <2> QED
      BY <1>1, <1>2, <2>1 DEF HInv, KnownIds
  <1>7. OwnThread'
    BY <1>1, <1>2 DEF HInv, OwnThread
  <1>8. OpenFlag'
    <2> SUFFICES ASSUME NEW t \in opening', owner'[t] \in Handles \ (unheard' \cup reentered')
                 PROVE  workInPause'[t] = pauseFlag'[owner'[t]]
      BY DEF OpenFlag
    <2>1. CASE t = nextId
      BY <1>1, <1>2, <2>1
    <2>2. CASE t # nextId
      <3>1. t \in opening /\ t \in Threads
        BY <1>2, <2>2, OpeningLive
      <3> QED
        BY <1>1, <1>2, <2>2, <3>1 DEF HInv, OpenFlag
    <2> QED
      BY <2>1, <2>2
  <1>9. ASSUME h \notin reentered' PROVE \A t \in Threads : t < nextId /\ owner[t] = h => ~ Alive(t)
    <2>1. Opening(h) = {} /\ h \notin reentered
      BY <1>2, <1>9
    <2>2. threadId[h] # 0 => Dead(threadId[h])
      BY DEF Run
    <2>3. ASSUME NEW t \in Threads, owner[t] = h, Alive(t) PROVE FALSE
      <3>1. t = threadId[h] \/ t \in opening
        BY <2>1, <2>3 DEF HInv, LiveAreKnown
      <3>2. t = threadId[h]
        BY <2>1, <2>3, <3>1 DEF Opening
      <3> QED
        BY <2>2, <2>3, <3>2 DEF Alive, Threads
    <2> QED
      BY <2>3
  <1>10. FlagObeyed'
    <2> SUFFICES ASSUME NEW g \in Handles \ (unheard' \cup reentered'),
                        threadId'[g] # 0, Alive(threadId[g])'
                 PROVE  workInPause'[threadId'[g]] = pauseFlag'[g]
      BY DEF FlagObeyed
    <2>1. threadId[g] \in Threads /\ threadId[g] < nextId /\ threadId[g] # nextId
      BY <1>1, <1>2
    <2>2. Alive(threadId[g])
      BY <1>2, <1>3, <2>1
    <2>3. g \notin reentered
      BY <1>2
    <2> QED
      BY <1>1, <1>2, <2>1, <2>2, <2>3 DEF HInv, FlagObeyed
  <1>11. LiveAreKnown'
    <2> SUFFICES ASSUME NEW g \in Handles \ reentered', NEW t \in Threads, owner'[t] = g, Alive(t)'
                 PROVE  t = threadId'[g] \/ t \in opening'
      BY DEF LiveAreKnown
    <2>1. CASE t = nextId
      BY <1>2, <2>1
    <2>2. CASE t # nextId
      <3>1. t < nextId /\ Alive(t) /\ owner[t] = g
        BY <1>1, <1>2, <1>3, <1>4, <2>2
      <3>2. g \notin reentered
        BY <1>2
      <3> QED
        BY <1>2, <3>1, <3>2 DEF HInv, LiveAreKnown
    <2> QED
      BY <2>1, <2>2
  <1>12. OneCoroutine'
    <2> SUFFICES ASSUME NEW g \in Handles \ reentered', NEW t \in Threads, NEW u \in Threads,
                        owner'[t] = g, owner'[u] = g, Alive(t)', Alive(u)'
                 PROVE  t = u
      BY DEF OneCoroutine
    <2>1. CASE g = h
      <3>1. \A s \in {t, u} : s = nextId
        BY <1>1, <1>2, <1>3, <1>4, <1>9, <2>1
      <3> QED
        BY <3>1
    <2>2. CASE g # h
      <3>1. t # nextId /\ u # nextId
        BY <1>1, <1>2, <2>2
      <3>2. Alive(t) /\ Alive(u) /\ owner[t] = g /\ owner[u] = g /\ g \notin reentered
        BY <1>1, <1>2, <1>3, <1>4, <3>1
      <3> QED
        BY <3>2 DEF HInv, OneCoroutine
    <2> QED
      BY <2>1, <2>2
  <1> QED
    BY <1>3, <1>5, <1>6, <1>7, <1>8, <1>10, <1>11, <1>12 DEF HInv

LEMMA StartMainInv == ASSUME HInv, HNext, StartMain PROVE HInv'
  <1>1. /\ nextId = 1 /\ nextId' = 2 /\ opening' = opening \cup {1}
        /\ OnStack' = OnStack \cup {1}
        /\ UNCHANGED <<threadId, pauseFlag, owner, reentered, unheard>>
    <2>1. TypeOK /\ StackInv /\ Start(WorksInPause) /\ nextId = 1
      BY DEF HInv, HandlesTypeOK, StartMain
    <2>2. OnStack' = OnStack \cup {nextId}
      BY <2>1, StackSets
    <2> QED
      BY <2>1, <2>2 DEF Start, StartMain
  <1>2. TypeOK' /\ StackInv'
    BY SchedulerKeeps
  <1>3. \A t \in Threads : owner[t] = Script /\ Script \notin Handles
    BY <1>1, LuaThreadsAssumption DEF HInv, KnownIds, Threads
  <1>4. \A h \in Handles : threadId[h] = 0
    BY <1>1 DEF HInv, HandlesTypeOK, KnownIds
  <1>5. opening' \subseteq Threads
    BY <1>1, OpeningLive DEF Threads
  <1>6. HandlesTypeOK' /\ KnownIds'
    BY <1>1, <1>2, <1>3, <1>4 DEF HInv, HandlesTypeOK, KnownIds
  <1>7. OwnThread' /\ FlagObeyed'
    BY <1>1, <1>4 DEF OwnThread, FlagObeyed
  <1>8. OpenFlag' /\ LiveAreKnown' /\ OneCoroutine'
    BY <1>1, <1>3, <1>5 DEF OpenFlag, LiveAreKnown, OneCoroutine
  <1> QED
    BY <1>2, <1>6, <1>7, <1>8 DEF HInv

LEMMA SliceLeavesInv == ASSUME HInv, HNext, SliceLeaves PROVE HInv'
  <1>1. /\ Top \in OnStack /\ Top \in Threads /\ Top < nextId
        /\ OnStack' = OnStack \ {Top} /\ nextId' = nextId
        /\ workInPause' = workInPause
    <2>1. TypeOK /\ StackInv /\ EndSlice
      BY DEF HInv, HandlesTypeOK, SliceLeaves
    <2>2. InThread /\ nextId' = nextId /\ workInPause' = workInPause
      BY <2>1 DEF EndSlice, Wait, Return, BareYield, Fail
    <2>3. \E outcome : Leave(outcome)
      BY <2>1 DEF EndSlice, Wait, Return, BareYield, Fail
    <2>4. Top \in OnStack /\ OnStack' = OnStack \ {Top}
      BY <2>1, <2>2, <2>3, StackSets
    <2> QED
      BY <2>1, <2>2, <2>4, StackSets
  <1>2. /\ opening' = opening \ {Top} /\ LearnsId
        /\ UNCHANGED <<pauseFlag, owner, reentered, unheard>>
        /\ owner \in [Threads -> Handles \cup {Script}]
        /\ threadId \in [Handles -> 0 .. MaxThreads]
    BY DEF SliceLeaves, HInv, HandlesTypeOK
  <1>3. TypeOK' /\ StackInv' /\ \A t \in Threads : Alive(t)' => t < nextId /\ Alive(t)
    <2>1. \A t \in Threads : Alive(t)' => t < nextId
      BY <1>1 DEF Alive
    <2> QED
      BY <2>1, SchedulerKeeps
  <1> DEFINE Learns(h) == Top \in opening /\ status'[Top] # "failed" /\ owner[Top] = h
  <1>4. /\ threadId' \in [Handles -> 0 .. MaxThreads]
        /\ \A h \in Handles : threadId'[h] = IF Learns(h) THEN Top ELSE threadId[h]
    BY <1>1, <1>2, LuaThreadsAssumption DEF LearnsId, Threads
  <1>5. HandlesTypeOK' /\ KnownIds' /\ OwnThread'
    <2>1. opening' \subseteq OnStack'
      BY <1>1, <1>2 DEF HInv, HandlesTypeOK
    <2> QED
      BY <1>1, <1>2, <1>3, <1>4, <2>1 DEF HInv, HandlesTypeOK, KnownIds, OwnThread
  <1>6. OpenFlag'
    BY <1>1, <1>2 DEF HInv, OpenFlag
  <1>7. FlagObeyed'
    <2> SUFFICES ASSUME NEW h \in Handles \ (unheard \cup reentered),
                        threadId'[h] # 0, Alive(threadId[h])'
                 PROVE  workInPause[threadId'[h]] = pauseFlag[h]
      BY <1>1, <1>2 DEF FlagObeyed
    <2>1. CASE Learns(h)
      BY <1>4, <2>1 DEF HInv, OpenFlag
    <2>2. CASE ~ Learns(h)
      <3>1. threadId'[h] = threadId[h] /\ threadId[h] \in Threads
        BY <1>2, <1>4, <2>2 DEF Threads
      <3>2. Alive(threadId[h])
        BY <1>3, <3>1 DEF Alive, Dead
      <3> QED
        BY <3>1, <3>2 DEF HInv, FlagObeyed
    <2> QED
      BY <2>1, <2>2
  <1>8. LiveAreKnown'
    <2> SUFFICES ASSUME NEW h \in Handles \ reentered, NEW t \in Threads, owner[t] = h, Alive(t)'
                 PROVE  t = threadId'[h] \/ t \in opening'
      BY <1>2 DEF LiveAreKnown
    <2>1. Alive(t) /\ (t = threadId[h] \/ t \in opening)
      BY <1>3 DEF HInv, LiveAreKnown
    <2>2. CASE Top \in opening /\ owner[Top] = h
      <3>1. t = Top
        BY <1>1, <2>1, <2>2, OpeningLive DEF HInv, OneCoroutine
      <3>2. status'[Top] # "failed"
        BY <3>1 DEF Alive
      <3> QED
        BY <1>4, <2>2, <3>1, <3>2
    <2>3. CASE ~ (Top \in opening /\ owner[Top] = h)
      BY <1>2, <1>4, <2>1, <2>3
    <2> QED
      BY <2>2, <2>3
  <1>9. OneCoroutine'
    BY <1>2, <1>3 DEF HInv, OneCoroutine
  <1> QED
    BY <1>3, <1>5, <1>6, <1>7, <1>8, <1>9 DEF HInv

LEMMA SetFlagInv ==
  ASSUME HInv, HNext, NEW h \in Handles, NEW flag \in BOOLEAN, SetFlag(h, flag)
  PROVE  HInv'
  <1>1. /\ pauseFlag' = [pauseFlag EXCEPT ![h] = flag]
        /\ pauseFlag \in [Handles -> BOOLEAN] /\ unheard \subseteq Handles
        /\ unheard' = IF Opening(h) = {} THEN unheard ELSE unheard \cup {h}
        /\ UNCHANGED <<threadId, opening, owner, reentered>>
        /\ \A g \in Handles : threadId[g] # 0 => threadId[g] \in Threads
        /\ TypeOK
    BY DEF SetFlag, HInv, HandlesTypeOK, Threads
  <1>2. UNCHANGED <<nextId, tasks, stack, status>>
    BY DEF SetFlag, SetWorkInPause, vars
  <1>3. TypeOK' /\ StackInv' /\ \A t : Alive(t)' = Alive(t)
    BY <1>2, SchedulerKeeps DEF Alive, Dead, Pending, OnStack
  <1>4. /\ \A t \in Threads : t # threadId[h] => workInPause'[t] = workInPause[t]
        /\ threadId[h] \in Pending \cup OnStack => workInPause'[threadId[h]] = flag
    <2>1. workInPause \in [Threads -> BOOLEAN] /\ Pending \cup OnStack \subseteq Threads
      BY <1>1 DEF TypeOK, Pending, OnStack
    <2> QED
      BY <2>1 DEF SetFlag, SetWorkInPause, vars
  <1>5. HandlesTypeOK'
    <2>1. opening' \subseteq OnStack'
      BY <1>1, <1>2 DEF HInv, HandlesTypeOK, OnStack
    <2> QED
      BY <1>1, <1>3, <2>1 DEF HInv, HandlesTypeOK
  <1>6. KnownIds' /\ OwnThread'
    BY <1>1, <1>2 DEF HInv, KnownIds, OwnThread
  <1>7. OpenFlag'
    <2> SUFFICES ASSUME NEW t \in opening, owner[t] \in Handles \ (unheard' \cup reentered)
                 PROVE  workInPause'[t] = pauseFlag'[owner[t]]
      BY <1>1 DEF OpenFlag
    <2>1. owner[t] # h
      <3>1. owner[t] = h => t \in Opening(h)
        BY DEF Opening
      <3> QED
        BY <1>1, <3>1
    <2>2. t \in Threads /\ t # threadId[h]
      BY <2>1, OpeningLive DEF HInv, OwnThread, Threads
    <2>3. owner[t] \in Handles \ (unheard \cup reentered)
      BY <1>1
    <2> QED
      BY <1>1, <1>4, <2>1, <2>2, <2>3 DEF HInv, OpenFlag
  <1>8. FlagObeyed'
    <2> SUFFICES ASSUME NEW g \in Handles \ (unheard' \cup reentered),
                        threadId[g] # 0, Alive(threadId[g])
                 PROVE  workInPause'[threadId[g]] = pauseFlag'[g]
      BY <1>1, <1>3 DEF FlagObeyed, Alive, Dead
    <2>1. CASE g = h
      <3>1. threadId[h] \in Pending \cup OnStack
        BY <2>1 DEF Alive, Dead
      <3> QED
        BY <1>1, <1>4, <2>1, <3>1
    <2>2. CASE g # h
      <3>1. threadId[g] # threadId[h] /\ threadId[g] \in Threads
        BY <1>1, <2>2 DEF HInv, OwnThread
      <3>2. g \in Handles \ (unheard \cup reentered)
        BY <1>1
      <3> QED
        BY <1>1, <1>4, <2>2, <3>1, <3>2 DEF HInv, FlagObeyed
    <2> QED
      BY <2>1, <2>2
  <1>9. LiveAreKnown' /\ OneCoroutine'
    BY <1>1, <1>3 DEF HInv, LiveAreKnown, OneCoroutine
  <1> QED
    BY <1>3, <1>5, <1>6, <1>7, <1>8, <1>9 DEF HInv

LEMMA HInvStep == HInv /\ [HNext]_allVars => HInv'
  <1> SUFFICES ASSUME HInv, [HNext]_allVars PROVE HInv'
    OBVIOUS
  <1>0. TypeOK /\ StackInv /\ opening \subseteq OnStack
    BY DEF HInv, HandlesTypeOK
  <1>1. ASSUME NEW h \in Handles, Run(h) PROVE HInv'
    BY <1>1, RunInv DEF HNext
  <1>2. ASSUME NEW h \in Handles, NEW flag \in BOOLEAN, SetFlag(h, flag) PROVE HInv'
    BY <1>2, SetFlagInv DEF HNext
  <1>3. ASSUME StartMain PROVE HInv'
    BY <1>3, StartMainInv DEF HNext
  <1>4. ASSUME SliceLeaves PROVE HInv'
    BY <1>4, SliceLeavesInv DEF HNext
  <1>5. ASSUME UNCHANGED <<handleVars, nextId, workInPause, stack>> PROVE HInv'
    BY <1>0, <1>5, HandlesUntouched DEF OnStack
  <1>6. ASSUME \/ \E h \in Handles : HandleTerminate(h)
               \/ \E end \in Ends : NestedWait(end) /\ HandlesRest
               \/ \E paused \in BOOLEAN : Frame(paused)
               \/ Tick /\ HandlesRest
               \/ Crashed /\ HandlesRest
               \/ UNCHANGED allVars
        PROVE  UNCHANGED <<handleVars, nextId, workInPause, stack>>
    BY <1>6 DEF HandleTerminate, Terminate, NestedWait, HandlesRest, Frame, BeginPass,
                Tick, Crashed, allVars, vars
  <1>7. ASSUME PassLoop PROVE HInv'
    <2>1. CASE Resume
      <3>1. opening = {} /\ UNCHANGED <<handleVars, nextId, workInPause>>
        <4>1. OnStack = {}
          BY <1>0, <2>1, StackSets
        <4> QED
          BY <1>0, <1>7, <2>1, <4>1 DEF PassLoop, HandlesRest, Resume
      <3> QED
        BY <3>1, HandlesUntouched
    <2>2. CASE ReapDead \/ Skip \/ EndPass \/ UseErased
      BY <1>5, <1>7, <2>2 DEF PassLoop, HandlesRest, ReapDead, Skip, EndPass, UseErased
    <2> QED
      BY <1>7, <2>1, <2>2 DEF PassLoop, PassStep
  <1> QED
    BY <1>1, <1>2, <1>3, <1>4, <1>5, <1>6, <1>7 DEF HNext

LEMMA HandlesInductive == HSpec => []HInv
  BY HInvInit, HInvStep, PTL DEF HSpec

----------------------------------------------------------------------------
(* lua::thread and lua::scheduler: their members keep their types. *)
THEOREM HandlesTypeCorrect == HSpec => []HandlesTypeOK
  <1>1. HInv => HandlesTypeOK
    BY DEF HInv
  <1> QED
    BY <1>1, HandlesInductive, PTL

(* Whatever the handles do, the scheduler below them goes through a        *)
(* behaviour of its own specification: what is proved of it holds here.    *)
THEOREM HandlesImplementScheduler == HSpec => Spec
  <1>1. HInit => Init
    BY DEF HInit
  <1>2. HInv /\ [HNext]_allVars => [Next]_vars
    BY HandlesCallScheduler DEF HInv
  <1> QED
    BY <1>1, <1>2, HandlesInductive, PTL DEF HSpec, Spec

(* lua::thread::_thread_id: no two handles refer to one coroutine. *)
THEOREM OwnThreadAlways == HSpec => []OwnThread
  <1>1. HInv => OwnThread
    BY DEF HInv
  <1> QED
    BY <1>1, HandlesInductive, PTL

(* lua::thread::run: a handle never leaves a living coroutine behind,      *)
(* unless it is run again from a first slice of its own.                   *)
THEOREM OneCoroutineAlways == HSpec => []OneCoroutine
  <1>1. HInv => OneCoroutine
    BY DEF HInv
  <1> QED
    BY <1>1, HandlesInductive, PTL

(* lua::thread::set_work_in_pause: the handle's flag is its coroutine's,   *)
(* unless it was set during a first slice.                                 *)
THEOREM FlagAlwaysObeyed == HSpec => []FlagObeyed
  <1>1. HInv => FlagObeyed
    BY DEF HInv
  <1> QED
    BY <1>1, HandlesInductive, PTL

(* scheduler::thread_status: a coroutine reported dead stays dead. *)
THEOREM DeadStaysFinal == HSpec => DeadIsFinal
  <1>1. HInv /\ [HNext]_allVars => \A t \in Threads : t < nextId /\ Dead(t) => Dead(t)'
    BY SchedulerKeeps
  <1> QED
    BY <1>1, HandlesInductive, PTL DEF HSpec, DeadIsFinal
=============================================================================
