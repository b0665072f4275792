----------------------------- MODULE Scheduler -----------------------------
(***************************************************************************)
(* The cooperative thread scheduler of one script (lua::scheduler,         *)
(* cpp/script/scheduler.h and scheduler.cpp).                              *)
(*                                                                         *)
(* A Lua thread is a coroutine.  It runs until it calls wait(), which      *)
(* stores a task under the thread's id and yields; once per game frame     *)
(* run() walks the ordered map of tasks and resumes the threads whose task *)
(* is complete.  A running thread may start other threads (their first     *)
(* slice runs nested in its own), terminate threads, and change whether a  *)
(* thread works while the game is paused; Lua that runs outside of any     *)
(* thread (the main chunk of a script, an event handler) may do so too.    *)
(***************************************************************************)
EXTENDS Integers, Sequences

CONSTANTS
  MaxThreads,  (* bound: threads started in a behaviour             *)
  MaxClock     (* bound: last instant of the steady clock           *)

ASSUME SchedulerAssumption ==
  /\ MaxThreads \in Nat \ {0}
  /\ MaxClock \in Nat

Threads == 1 .. MaxThreads      \* thread ids, handed out in order

(* A task is the instant it completes at: wait_task keeps one, and an      *)
(* infinite_task completes after every instant the clock can show.         *)
Forever == MaxClock + 1
NoTask  == -1
Ends    == 0 .. Forever

(* Positions of the iterator of run(): an id, end(), or no run() active.   *)
NoPass == 0
End    == MaxThreads + 1

VARIABLES
  nextId,       (* _next_thread_id                                         *)
  tasks,        (* _tasks: per thread id its task, or NoTask               *)
  stack,        (* _thread_stack: the running threads, innermost last      *)
  status,       (* state of each coroutine                                 *)
  workInPause,  (* work_in_pause of each scheduler_cothread                *)
  iter,         (* the iterator of the run() in progress                   *)
  inPause,      (* the argument of that run()                              *)
  clock,        (* std::chrono::steady_clock                               *)
  crashed,      (* run() has used an iterator to an erased entry           *)
  erred,        (* an error has left the scheduler and reached its caller  *)
  (* History, read by the properties only:                                 *)
  resumed,      (* threads resumed by the run() in progress                *)
  owed          (* threads that were due when it began and still are       *)

vars == <<nextId, tasks, stack, status, workInPause, iter, inPause, clock,
          crashed, erred, resumed, owed>>

passVars == <<iter, inPause, resumed, owed>>

----------------------------------------------------------------------------
Pending == {t \in Threads : tasks[t] # NoTask}
Top     == stack[Len(stack)]
OnStack == {stack[i] : i \in DOMAIN stack}

(* is_complete() of the stored task. *)
Complete(t) == clock >= tasks[t]

(* The condition under which run() resumes the thread of an entry. *)
Resumable(t, paused) == Complete(t) /\ (paused => workInPause[t])

(* j is the entry after position i in the ordered map, or end(). *)
IsNext(i, j) ==
  /\ j \in Pending \cup {End}
  /\ j > i
  /\ \A k \in Pending : k > i => j <= k

(* Lua code is executing: a thread's slice or, when no run() is active,    *)
(* the main chunk or an event handler of the script.                       *)
LuaActive == ~crashed /\ (stack # <<>> \/ iter = NoPass)
InThread  == ~crashed /\ stack # <<>>
AtEntry   == ~crashed /\ stack = <<>> /\ iter \in Threads

Init ==
  /\ nextId = 1
  /\ tasks = [t \in Threads |-> NoTask]
  /\ stack = <<>>
  /\ status = [t \in Threads |-> "unborn"]
  /\ workInPause = [t \in Threads |-> FALSE]
  /\ iter = NoPass
  /\ inPause = FALSE
  /\ clock = 0
  /\ crashed = FALSE
  /\ erred = FALSE
  /\ resumed = {}
  /\ owed = {}

----------------------------------------------------------------------------
(* Mutants: plausible slips in the actions below.  The specification uses  *)
(* none of them; each breaks one of the properties at the end.             *)

AdvanceTwice ==                \* ++i after i = erase(i)
  \E next \in 1 .. End :
    /\ IsNext(iter, next)
    /\ \E later \in 1 .. End :
         /\ IF next = End THEN later = End ELSE IsNext(next, later)
         /\ iter' = later

AdvanceFromBegin ==            \* i = begin() after an erase
  \E next \in 1 .. End : IsNext(0, next) /\ iter' = next

SkipWithoutAdvance ==          \* ++i forgotten for an entry not resumed
  /\ AtEntry
  /\ iter \in Pending
  /\ status[iter] = "yielded"
  /\ ~Resumable(iter, inPause)
  /\ UNCHANGED vars

----------------------------------------------------------------------------
(* start(): the new thread's first slice runs inside its creator's. *)
Start(pauseFlag) ==
  /\ LuaActive
  /\ nextId <= MaxThreads
  /\ nextId' = nextId + 1
  /\ stack' = Append(stack, nextId)
  /\ status' = [status EXCEPT ![nextId] = "running"]
  /\ workInPause' = [workInPause EXCEPT ![nextId] = pauseFlag]
  /\ UNCHANGED <<tasks, clock, crashed, erred, passVars>>

(* yield(task): emplace() keeps the entry the thread already has. *)
StoreTask(t, end) ==
  tasks' = [tasks EXCEPT ![t] = IF @ = NoTask THEN end ELSE @]

(* Control leaves the innermost slice and its thread is popped. *)
Leave(outcome) ==
  /\ stack' = SubSeq(stack, 1, Len(stack) - 1)
  /\ status' = [status EXCEPT ![Top] = outcome]

(* wait(ms): a negative time waits for ever. *)
Wait(end) ==
  /\ InThread
  /\ end >= clock
  /\ StoreTask(Top, end)
  /\ Leave("yielded")
  /\ UNCHANGED <<nextId, workInPause, clock, crashed, erred, passVars>>

(* wait(ms) called in a coroutine the script made itself inside the        *)
(* thread: the task is stored for the thread, which goes on running.       *)
NestedWait(end) ==
  /\ InThread
  /\ end >= clock
  /\ StoreTask(Top, end)
  /\ UNCHANGED <<nextId, stack, status, workInPause, clock, crashed, erred, passVars>>

(* The thread's function returns, or it yields without a task.             *)
Return ==
  /\ InThread
  /\ Leave("finished")
  /\ UNCHANGED <<nextId, tasks, workInPause, clock, crashed, erred, passVars>>

BareYield ==
  /\ InThread
  /\ Leave("yielded")
  /\ UNCHANGED <<nextId, tasks, workInPause, clock, crashed, erred, passVars>>

(* run() returns; its argument and what is known of the pass go with it.   *)
PassReturns ==
  /\ iter' = NoPass
  /\ inPause' = FALSE
  /\ resumed' = {}
  /\ owed' = {}

(* The slice raises an error.  start() hands it to the creator: an outer   *)
(* slice, or Lua outside of any thread, which catches it or fails in turn. *)
(* run() returns it at once and leaves the rest of the map.  The manager   *)
(* destroys a script whose error it is given; only a pass made for a       *)
(* reload ignores what run() returns, so a further pass is possible.       *)
Fail ==
  /\ InThread
  /\ Leave("failed")
  /\ \/ Len(stack) > 1 /\ UNCHANGED <<erred, passVars>>
     \/ Len(stack) = 1 /\ iter = NoPass /\ erred' \in {erred, TRUE} /\ UNCHANGED passVars
     \/ Len(stack) = 1 /\ iter # NoPass /\ erred' = TRUE /\ PassReturns
  /\ UNCHANGED <<nextId, tasks, workInPause, clock, crashed>>

(* terminate(id) only erases the entry; run() may be standing on it. *)
Terminate(t) ==
  /\ LuaActive
  /\ tasks' = [tasks EXCEPT ![t] = NoTask]
  /\ owed' = owed \ {t}
  /\ UNCHANGED <<nextId, stack, status, workInPause, clock, crashed, erred,
                 iter, inPause, resumed>>

(* set_work_in_pause(id, flag): unknown to a thread that neither waits     *)
(* nor runs.                                                               *)
SetWorkInPause(t, flag) ==
  /\ LuaActive
  /\ t \in Pending \cup OnStack
  /\ workInPause' = [workInPause EXCEPT ![t] = flag]
  /\ owed' = IF inPause /\ ~flag THEN owed \ {t} ELSE owed
  /\ UNCHANGED <<nextId, tasks, stack, status, clock, crashed, erred,
                 iter, inPause, resumed>>

----------------------------------------------------------------------------
(* run(in_pause), one loop iteration per step.                             *)
BeginPass(paused) ==
  /\ ~crashed /\ stack = <<>> /\ iter = NoPass
  /\ \E first \in 1 .. End : IsNext(0, first) /\ iter' = first
  /\ inPause' = paused
  /\ resumed' = {}
  /\ owed' = {t \in Pending : status[t] = "yielded" /\ Resumable(t, paused)}
  /\ UNCHANGED <<nextId, tasks, stack, status, workInPause, clock, crashed, erred>>

(* i = _tasks.erase(i) and ++i both go to the entry after i. *)
Advance == \E next \in 1 .. End : IsNext(iter, next) /\ iter' = next

ReapDead ==
  /\ AtEntry
  /\ iter \in Pending
  /\ status[iter] # "yielded"
  /\ tasks' = [tasks EXCEPT ![iter] = NoTask]
  /\ Advance
  /\ UNCHANGED <<nextId, stack, status, workInPause, clock, crashed, erred, inPause,
                 resumed, owed>>

Resume ==
  /\ AtEntry
  /\ iter \in Pending
  /\ status[iter] = "yielded"
  /\ Resumable(iter, inPause)
  /\ stack' = <<iter>>
  /\ tasks' = [tasks EXCEPT ![iter] = NoTask]
  /\ status' = [status EXCEPT ![iter] = "running"]
  /\ resumed' = resumed \cup {iter}
  /\ owed' = owed \ {iter}
  /\ Advance
  /\ UNCHANGED <<nextId, workInPause, clock, crashed, erred, inPause>>

Skip ==
  /\ AtEntry
  /\ iter \in Pending
  /\ status[iter] = "yielded"
  /\ ~Resumable(iter, inPause)
  /\ Advance
  /\ UNCHANGED <<nextId, tasks, stack, status, workInPause, clock, crashed, erred,
                 inPause, resumed, owed>>

EndPass ==
  /\ ~crashed /\ stack = <<>> /\ iter = End
  /\ PassReturns
  /\ UNCHANGED <<nextId, tasks, stack, status, workInPause, clock, crashed, erred>>

(* The entry under the iterator was erased by the slice that ran before:   *)
(* its memory is gone, and nothing is promised from here on.               *)
UseErased ==
  /\ AtEntry
  /\ iter \notin Pending
  /\ crashed' = TRUE
  /\ UNCHANGED <<nextId, tasks, stack, status, workInPause, clock, erred, passVars>>

Crashed == crashed /\ UNCHANGED vars

Tick ==
  /\ ~crashed
  /\ clock < MaxClock
  /\ clock' = clock + 1
  /\ UNCHANGED <<nextId, tasks, stack, status, workInPause, crashed, erred, passVars>>

----------------------------------------------------------------------------
EndSlice == (\E end \in Ends : Wait(end)) \/ Return \/ BareYield \/ Fail
PassStep == ReapDead \/ Resume \/ Skip \/ EndPass \/ UseErased

Next ==
  \/ \E flag \in BOOLEAN : Start(flag)
  \/ \E end \in Ends : Wait(end)
  \/ \E end \in Ends : NestedWait(end)
  \/ Return
  \/ BareYield
  \/ Fail
  \/ \E t \in Threads : Terminate(t)
  \/ \E t \in Threads, flag \in BOOLEAN : SetWorkInPause(t, flag)
  \/ \E paused \in BOOLEAN : BeginPass(paused)
  \/ ReapDead
  \/ Resume
  \/ Skip
  \/ EndPass
  \/ UseErased
  \/ Tick
  \/ Crashed

Spec == Init /\ [][Next]_vars

(* A living script's run() is called every frame, a run() goes through its *)
(* loop, and a slice of Lua code ends.  Once an error has been returned    *)
(* nobody need call run() again: the script is destroyed.                  *)
Fairness ==
  /\ WF_vars(~erred /\ \E paused \in BOOLEAN : BeginPass(paused))
  /\ WF_vars(PassStep)
  /\ WF_vars(EndSlice)

FairSpec == Spec /\ Fairness

----------------------------------------------------------------------------
(* Every variable keeps the shape of the member it stands for. *)
TypeOK ==
  /\ nextId \in 1 .. MaxThreads + 1
  /\ tasks \in [Threads -> Ends \cup {NoTask}]
  /\ stack \in Seq(Threads)
  /\ status \in [Threads -> {"unborn", "running", "yielded", "finished", "failed"}]
  /\ workInPause \in [Threads -> BOOLEAN]
  /\ iter \in 0 .. MaxThreads + 1
  /\ inPause \in BOOLEAN
  /\ clock \in 0 .. MaxClock
  /\ crashed \in BOOLEAN
  /\ erred \in BOOLEAN
  /\ resumed \subseteq Threads
  /\ owed \subseteq Threads

(* A coroutine is on the stack at most once: nothing resumes a thread that *)
(* is already running (Lua would refuse a second resume).                  *)
RunsOnce ==
  \A i, j \in DOMAIN stack : stack[i] = stack[j] => i = j

(* run() does not leave a due thread out: what was due when the pass began *)
(* and was not terminated is still in front of the iterator, and nothing   *)
(* is owed when a pass completes.                                          *)
DueThreadsAhead ==
  iter # NoPass => \A t \in owed : tasks[t] # NoTask /\ t >= iter

(* One pass resumes a thread at most once, however short its new wait: a   *)
(* thread that waits 0 ms in a loop cannot keep run() from returning.      *)
ResumedOncePerPass ==
  [][Resume => iter \notin resumed]_vars

(* A coroutine that has returned or raised an error is never entered       *)
(* again, even when a task of it is still in the map.                      *)
DeadStaysDead ==
  [][\A t \in Threads :
       status[t] \in {"finished", "failed"} => status'[t] = status[t]]_vars

(* The loop of run() only visits entries that are in the map.              *)
IteratesPendingTasks ==
  iter \in Threads => iter \in Pending

(* A due thread that works in pause gets its slice or loses its entry,     *)
(* whether the game is paused or not and whatever the other threads start, *)
(* terminate or wait for - unless one of them ends in an error that nobody *)
(* catches, which is the end of the script.                                *)
DueIsServed ==
  \A t \in Threads :
    (t \in Pending /\ Complete(t) /\ workInPause[t])
      ~> (t \notin Pending \/ ~workInPause[t] \/ crashed \/ erred)
============================================================================
