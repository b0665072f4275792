----------------------------- MODULE LuaThreads -----------------------------
(***************************************************************************)
(* The lua_thread objects of a script (lua::thread, cpp/script/thread.h    *)
(* and thread.cpp) on top of its scheduler.                                *)
(*                                                                         *)
(* A lua_thread is a handle: it keeps the id of the coroutine its last     *)
(* run() started and the pause flag for the next one.  run() learns the id *)
(* only when the coroutine's first slice has left, so Lua code of that     *)
(* slice which uses the handle meets the id of the run before, or 0.       *)
(***************************************************************************)
EXTENDS Scheduler, FiniteSets

CONSTANTS
  Handles,    \* the lua_thread objects
  Script,     \* stands for the script, which starts its main thread itself
  WorksInPause  \* script_flags::work_in_pause, the first flag of its threads

ASSUME LuaThreadsAssumption ==
  /\ Script \notin Handles
  /\ WorksInPause \in BOOLEAN

VARIABLES
  threadId,   (* _thread_id, 0 before the first run()                       *)
  pauseFlag,  (* _work_in_pause                                             *)
  opening,    (* the coroutines in their first slice: start() is active     *)
  (* History, read by the properties only:                                  *)
  owner,      (* whose run() started a coroutine                            *)
  reentered,  (* handles whose run() started one during a first slice       *)
  unheard     (* handles whose flag was changed during a first slice        *)

handleVars == <<threadId, pauseFlag, opening, owner, reentered, unheard>>
allVars    == <<vars, handleVars>>

Opening(h) == {t \in opening : owner[t] = h}

DeadUnlessPending(t) ==        \* mutant: the stack is not searched
  t \in Pending => status[t] = "finished"

(* scheduler::thread_status() of an id: the map first, then the stack; a   *)
(* coroutine that is in neither is dead, as is one that has returned.      *)
Dead(t) == t \in Pending \cup OnStack => status[t] = "finished"

HInit ==
  /\ Init
  /\ threadId = [h \in Handles |-> 0]
  /\ pauseFlag = [h \in Handles |-> WorksInPause]
  /\ opening = {}
  /\ owner = [t \in Threads |-> Script]
  /\ reentered = {}
  /\ unheard = {}

----------------------------------------------------------------------------
(* Mutants *)
RunUnlessWaiting(h) ==         \* run() does not look at the running threads
  /\ threadId[h] = 0 \/ threadId[h] \notin Pending
  /\ Start(pauseFlag[h])
  /\ opening' = opening \cup {nextId}
  /\ owner' = [owner EXCEPT ![nextId] = h]
  /\ reentered' = IF Opening(h) = {} THEN reentered ELSE reentered \cup {h}
  /\ UNCHANGED <<threadId, pauseFlag, unheard>>

SetFlagOfHandle(h, flag) ==    \* the running coroutine is not told
  /\ LuaActive
  /\ pauseFlag' = [pauseFlag EXCEPT ![h] = flag]
  /\ unheard' = IF Opening(h) = {} THEN unheard ELSE unheard \cup {h}
  /\ UNCHANGED <<vars, threadId, opening, owner, reentered>>

LearnsIdFromNext ==            \* the id is _next_thread_id - 1 on return
  threadId' = IF Top \in opening /\ status'[Top] # "failed" /\ owner[Top] # Script
              THEN [threadId EXCEPT ![owner[Top]] = nextId - 1] ELSE threadId

SliceStaysOpen ==              \* start() forgets to pop what it pushed
  /\ EndSlice
  /\ LearnsIdFromNext
  /\ UNCHANGED <<opening, pauseFlag, owner, reentered, unheard>>

----------------------------------------------------------------------------
(* run(): starts a coroutine unless the last one is alive. *)
Run(h) ==
  /\ threadId[h] # 0 => Dead(threadId[h])
  /\ Start(pauseFlag[h])
  /\ opening' = opening \cup {nextId}
  /\ owner' = [owner EXCEPT ![nextId] = h]
  /\ reentered' = IF Opening(h) = {} THEN reentered ELSE reentered \cup {h}
  /\ UNCHANGED <<threadId, pauseFlag, unheard>>

(* start_main(): the script's own thread, which no handle knows. *)
StartMain ==
  /\ nextId = 1
  /\ Start(WorksInPause)
  /\ opening' = opening \cup {nextId}
  /\ UNCHANGED <<threadId, pauseFlag, owner, reentered, unheard>>

(* A first slice that has not failed hands the id to the run() around it. *)
LearnsId ==
  threadId' = IF Top \in opening /\ status'[Top] # "failed" /\ owner[Top] # Script
              THEN [threadId EXCEPT ![owner[Top]] = Top] ELSE threadId

SliceLeaves ==
  /\ EndSlice
  /\ LearnsId
  /\ opening' = opening \ {Top}
  /\ UNCHANGED <<pauseFlag, owner, reentered, unheard>>

HandleTerminate(h) ==
  /\ threadId[h] # 0
  /\ Terminate(threadId[h])
  /\ UNCHANGED handleVars

(* set_work_in_pause(): the flag is kept, and the scheduler is told.  An   *)
(* id it does not find is ignored.                                         *)
SetFlag(h, flag) ==
  /\ pauseFlag' = [pauseFlag EXCEPT ![h] = flag]
  /\ unheard' = IF Opening(h) = {} THEN unheard ELSE unheard \cup {h}
  /\ \/ SetWorkInPause(threadId[h], flag)
     \/ LuaActive /\ threadId[h] \notin Pending \cup OnStack /\ UNCHANGED vars
  /\ UNCHANGED <<threadId, opening, owner, reentered>>

(* The rest of the scheduler, which the handles do not see. *)
HandlesRest == UNCHANGED handleVars
Frame(paused) == BeginPass(paused) /\ HandlesRest
PassLoop      == PassStep /\ HandlesRest

HNext ==
  \/ \E h \in Handles : Run(h) \/ HandleTerminate(h)
  \/ \E h \in Handles, flag \in BOOLEAN : SetFlag(h, flag)
  \/ StartMain
  \/ SliceLeaves
  \/ \E end \in Ends : NestedWait(end) /\ HandlesRest
  \/ \E paused \in BOOLEAN : Frame(paused)
  \/ PassLoop
  \/ Tick /\ HandlesRest
  \/ Crashed /\ HandlesRest

HSpec == HInit /\ [][HNext]_allVars

(* As in Scheduler: run() every frame until an error has reached the       *)
(* manager, its loop, and slices that end.                                 *)
HFairSpec ==
  /\ HSpec
  /\ WF_allVars(~erred /\ \E paused \in BOOLEAN : Frame(paused))
  /\ WF_allVars(PassLoop)
  /\ WF_allVars(SliceLeaves)

----------------------------------------------------------------------------
(* The members of the scheduler and of the handles keep their types. *)
HandlesTypeOK ==
  /\ TypeOK
  /\ threadId \in [Handles -> 0 .. MaxThreads]
  /\ pauseFlag \in [Handles -> BOOLEAN]
  /\ opening \subseteq OnStack
  /\ owner \in [Threads -> Handles \cup {Script}]
  /\ reentered \subseteq Handles
  /\ unheard \subseteq Handles

(* A coroutine that can still run, or is running. *)
Alive(t) == t < nextId /\ ~Dead(t) /\ status[t] # "failed"

(* One lua_thread drives one coroutine at a time: a restart leaves no      *)
(* older one behind that the handle can no longer terminate - unless run() *)
(* was called again from the first slice of a run().                       *)
OneCoroutine ==
  \A h \in Handles \ reentered :
    \A t, u \in Threads : owner[t] = h /\ owner[u] = h /\ Alive(t) /\ Alive(u) => t = u

(* No two handles refer to one coroutine, so terminate() and               *)
(* set_work_in_pause() reach none but the handle's own.                    *)
OwnThread == \A h \in Handles : threadId[h] # 0 => owner[threadId[h]] = h

(* The flag a script reads from the handle is the one run() of the         *)
(* scheduler obeys, for the coroutine the handle knows - unless it was     *)
(* changed during a first slice, when no coroutine is told.                *)
FlagObeyed ==
  \A h \in Handles \ (unheard \cup reentered) :
    threadId[h] # 0 /\ Alive(threadId[h])
      => workInPause[threadId[h]] = pauseFlag[h]

(* dead is final: no coroutine that reports it is ever resumed, so a       *)
(* restart does not double it.                                             *)
DeadIsFinal == [][\A t \in Threads : t < nextId /\ Dead(t) => Dead(t)']_allVars
============================================================================
