---------------------------- MODULE EffilThread ----------------------------
(***************************************************************************)
(* One effil thread and the threads that control it: effil::Thread         *)
(* (cpp/script/modules/effil/thread.cpp), ThreadHandle (thread-handle.h    *)
(* and .cpp), Notifier (notifier.h), the cancellation points of            *)
(* this-thread.cpp.                                                        *)
(*                                                                         *)
(* A controller puts a command under stateLock_ and waits until the status *)
(* changes; the thread looks at the command at its interruption points and *)
(* in its waits, and reports a new status under the same lock.  Each of    *)
(* them clears the other's notifier.  A paused thread sleeps on            *)
(* commandNotifier_, whose mutex it holds whenever it is awake in there.   *)
(*                                                                         *)
(* stateLock_ stays taken between two steps only while putCommand() wants  *)
(* to notify ("notify"), the mutex of commandNotifier_ only while the      *)
(* thread is awake in wait() ("awake", "cancel_held"); what is done under  *)
(* a lock without waiting for another is one step.                         *)
(***************************************************************************)
EXTENDS Integers, FiniteSets

CONSTANTS
  Controllers,  \* threads that hold the effil.thread object
  MaxCalls      \* bound: calls they make in a behaviour

ASSUME EffilThreadAssumption == MaxCalls \in Nat

Finished == {"cancelled", "completed", "failed"}
Statuses == {"running", "paused"} \cup Finished
Commands == {"run", "pause", "cancel"}

VARIABLES
  status,     (* status_                                                    *)
  command,    (* command_                                                   *)
  noted,      (* notified_ of statusNotifier_, command-, completionNotifier_*)
  woken,      (* the condition variable the thread sleeps on was signalled  *)
  at,         (* where the thread is in the code                            *)
  doing,      (* where each controller is in the code                       *)
  call,       (* ... and the method it is in                                *)
  timed,      (* ... and whether it gave a duration                         *)
  calls,      (* number of calls made                                       *)
  (* History, read by the properties only:                                  *)
  mishaps,    (* what has happened that the protocol does not stand         *)
  assured     (* the last command was a pause(), which has returned true    *)

handle == <<status, command, noted>>
callVars == <<doing, call, timed, calls>>
vars == <<handle, woken, at, callVars, mishaps, assured>>

Places == {"lua", "pausing", "rewait", "locking", "asleep", "awake", "answer", "resuming",
           "cancel_held", "cancel", "entering", "blocked", "raised",
           "completing", "failing", "ended"}

StateLockFree == \A c \in Controllers : doing[c] # "notify"
MutexFree     == at \notin {"awake", "cancel_held"}

Init ==
  /\ status = "running"
  /\ command = "run"
  /\ noted = [status |-> FALSE, command |-> FALSE, completion |-> FALSE]
  /\ woken = FALSE
  /\ at = "lua"
  /\ doing = [c \in Controllers |-> "idle"]
  /\ call = [c \in Controllers |-> "wait"]
  /\ timed = [c \in Controllers |-> FALSE]
  /\ calls = 0
  /\ mishaps = {}
  /\ assured = FALSE

----------------------------------------------------------------------------
(* Mutants *)

ChangeStatusQuietly(new, from, to) ==  \* completionNotifier_ only on success
  /\ at = from
  /\ StateLockFree
  /\ status' = new
  /\ noted' = [noted EXCEPT !.status = TRUE, !.command = FALSE,
                            !.completion = @ \/ new = "completed"]
  /\ at' = to
  /\ UNCHANGED <<command, woken, callVars, mishaps, assured>>

----------------------------------------------------------------------------
(* The thread *)
Goto(from, to) == at = from /\ at' = to

(* changeStatus(), the thread going from one place to another *)
ChangeStatus(new, from, to) ==
  /\ at = from
  /\ StateLockFree
  /\ status' = new
  /\ noted' = [noted EXCEPT !.status = TRUE, !.command = FALSE,
                            !.completion = @ \/ new \in Finished]
  /\ at' = to
  /\ UNCHANGED <<command, woken, callVars, mishaps, assured>>

Stays == UNCHANGED <<handle, callVars, mishaps, assured>>

(* Lua code runs into the hook or calls effil.yield(). *)
InterruptionPoint ==
  /\ \/ command = "cancel" /\ Goto("lua", "raised")
     \/ command = "pause" /\ Goto("lua", "pausing")
  /\ UNCHANGED woken
  /\ Stays

Pausing == ChangeStatus("paused", "pausing", "rewait")

RewaitLocked ==                \* mutant: the cancellation point under the mutex
  /\ \/ command = "cancel" /\ Goto("rewait", "cancel_held")
     \/ command # "cancel" /\ Goto("rewait", "locking")
  /\ UNCHANGED woken
  /\ Stays

(* Notifier::wait() of a paused thread: the cancellation point, then the  *)
(* lock and the loop.                                                      *)
Rewait ==
  /\ \/ command = "cancel" /\ Goto("rewait", "cancel")
     \/ command # "cancel" /\ Goto("rewait", "locking")
  /\ UNCHANGED woken
  /\ Stays

FallAsleep ==
  /\ Goto("locking", IF noted.command THEN "answer" ELSE "asleep")
  /\ woken' = FALSE
  /\ Stays

WakeUp == woken /\ Goto("asleep", "awake") /\ woken' = FALSE /\ Stays

(* A condition variable may wake its waiters without being signalled; it   *)
(* does so once in a behaviour (a bound).                                  *)
WakeUpSpuriously ==
  /\ "spurious" \notin mishaps
  /\ ~woken /\ Goto("asleep", "awake")
  /\ mishaps' = mishaps \cup {"spurious"}
  /\ UNCHANGED <<handle, woken, callVars, assured>>

Awake ==
  /\ \/ command = "cancel" /\ Goto("awake", "cancel_held")
     \/ command # "cancel" /\ noted.command /\ Goto("awake", "answer")
     \/ command # "cancel" /\ ~noted.command /\ Goto("awake", "asleep")
  /\ UNCHANGED woken
  /\ Stays

AnswerOnce ==                  \* mutant: no loop around waitForCommandChange()
  /\ \/ command # "cancel" /\ Goto("answer", "resuming")
     \/ command = "cancel" /\ Goto("answer", "raised")
  /\ UNCHANGED woken
  /\ Stays

Answer ==
  /\ \/ command = "run" /\ Goto("answer", "resuming")
     \/ command = "cancel" /\ Goto("answer", "raised")
     \/ command = "pause" /\ Goto("answer", "rewait")
  /\ UNCHANGED woken
  /\ Stays

Resuming == ChangeStatus("running", "resuming", "lua")

(* cancellationPoint() reports and throws, in wait() with the mutex held. *)
Cancelling     == ChangeStatus("cancelled", "cancel", "raised")
CancellingHeld == ChangeStatus("cancelled", "cancel_held", "raised")

(* Lua waits for something of its own: a channel, another thread, a sleep. *)
Block ==
  /\ \/ command = "cancel" /\ Goto("lua", "cancel")
     \/ command # "cancel" /\ Goto("lua", "entering")
  /\ woken' = FALSE
  /\ Stays

(* ScopedSetInterruptable, the lock, and the wait. *)
Sleep == Goto("entering", "blocked") /\ UNCHANGED woken /\ Stays

SleepDeaf ==                   \* mutant: no cancellationPoint() after the wait
  /\ woken /\ at = "blocked" /\ woken' = FALSE
  /\ UNCHANGED at
  /\ Stays

Interrupted ==
  /\ woken /\ at = "blocked" /\ woken' = FALSE
  /\ at' = IF command = "cancel" THEN "cancel" ELSE "blocked"
  /\ Stays

(* What the thread waited for has come, or its time is over: some of the   *)
(* waits pass a cancellation point then, others go straight back to Lua.   *)
Unblock ==
  /\ at = "blocked"
  /\ at' \in {"lua"} \cup (IF command = "cancel" THEN {"cancel"} ELSE {})
  /\ woken' = FALSE
  /\ Stays

(* Lua's own pcall() catches a cancellation; effil.pcall() raises it again *)
(* and an error nobody catches ends the thread.                            *)
Catch == Goto("raised", "lua") /\ UNCHANGED woken /\ Stays

Propagate ==
  /\ \/ status = "cancelled" /\ Goto("raised", "ended") /\ UNCHANGED woken /\ Stays
     \/ status # "cancelled" /\ ChangeStatus("cancelled", "raised", "ended")

Return   == Goto("lua", "completing") /\ UNCHANGED woken /\ Stays
Complete == ChangeStatus("completed", "completing", "ended")
Error    == Goto("lua", "failing") /\ UNCHANGED woken /\ Stays

(* An error after the cancellation was reported is not reported. *)
Fail ==
  \/ status # "cancelled" /\ ChangeStatus("failed", "failing", "ended")
  \/ status = "cancelled" /\ Goto("failing", "ended") /\ UNCHANGED woken /\ Stays

----------------------------------------------------------------------------
(* The controllers *)
CallThread(c, method, time) ==
  /\ doing[c] = "idle"
  /\ calls < MaxCalls
  /\ calls' = calls + 1
  /\ doing' = [doing EXCEPT ![c] = IF method = "wait" THEN "await_end" ELSE "put"]
  /\ call' = [call EXCEPT ![c] = method]
  /\ timed' = [timed EXCEPT ![c] = time]
  /\ UNCHANGED <<handle, woken, at, mishaps, assured>>

CommandOf(method) == CASE method = "pause" -> "pause"
                       [] method = "resume" -> "run"
                       [] method = "cancel" -> "cancel"

(* Where a method goes when putCommand() has returned. *)
After(method) == CASE method = "pause" -> "await_status"
                   [] method = "resume" -> "idle"
                   [] method = "cancel" -> "interrupt"

(* What the protocol does not stand: a resume() that crosses the pause it  *)
(* follows, any command that crosses a resume(), a pause() of a thread     *)
(* already told to pause, and a command that resets statusNotifier_ before *)
(* another caller has seen it notified.                                    *)
Crossing(cmd) ==
  (IF cmd = "run" /\ command = "pause" /\ status = "running" THEN {"early_resume"} ELSE {})
  \cup (IF command = "run" /\ status = "paused" THEN {"resume_crossed"} ELSE {})
  \cup (IF cmd = "pause" /\ command = "pause" THEN {"paused_twice"} ELSE {})
  \cup (IF noted.status /\ \E c \in Controllers : doing[c] = "await_status"
          THEN {"swallowed"} ELSE {})

(* putCommand(), up to notify() *)
PutCommandAlways(c) ==         \* mutant: a cancelled thread takes commands
  /\ doing[c] = "put"
  /\ StateLockFree
  /\ command' = CommandOf(call[c])
  /\ noted' = [noted EXCEPT !.status = FALSE]
  /\ doing' = [doing EXCEPT ![c] = "notify"]
  /\ mishaps' = mishaps \cup Crossing(CommandOf(call[c]))
  /\ assured' = FALSE
  /\ UNCHANGED <<status, woken, at, call, timed, calls>>

PutCommand(c) ==
  /\ doing[c] = "put"
  /\ StateLockFree
  /\ status \notin Finished /\ command # "cancel"
  /\ command' = CommandOf(call[c])
  /\ noted' = [noted EXCEPT !.status = FALSE]
  /\ doing' = [doing EXCEPT ![c] = "notify"]
  /\ mishaps' = mishaps \cup Crossing(CommandOf(call[c]))
  /\ assured' = FALSE
  /\ UNCHANGED <<status, woken, at, call, timed, calls>>

PutNothing(c) ==
  /\ doing[c] = "put"
  /\ StateLockFree
  /\ status \in Finished \/ command = "cancel"
  /\ doing' = [doing EXCEPT ![c] = After(call[c])]
  /\ UNCHANGED <<handle, woken, at, call, timed, calls, mishaps, assured>>

(* commandNotifier_.notify(), and stateLock_ is released *)
NotifyCommand(c) ==
  /\ doing[c] = "notify"
  /\ MutexFree
  /\ noted' = [noted EXCEPT !.command = TRUE]
  /\ woken' = (woken \/ at = "asleep")
  /\ doing' = [doing EXCEPT ![c] = After(call[c])]
  /\ UNCHANGED <<status, command, at, call, timed, calls, mishaps, assured>>

(* interrupt() signals what the thread waits on, if it does already: it    *)
(* takes no lock, and a thread on its way into the wait does not hear it.  *)
Interrupt(c) ==
  /\ doing[c] = "interrupt"
  /\ woken' = (woken \/ at \in {"asleep", "blocked"})
  /\ mishaps' = IF at = "entering" THEN mishaps \cup {"missed"} ELSE mishaps
  /\ doing' = [doing EXCEPT ![c] = "await_status"]
  /\ UNCHANGED <<handle, at, call, timed, calls, assured>>

(* waitForStatusChange(), waitForCompletion(): notified or out of time. *)
StatusSeen(c) ==
  /\ doing[c] = "await_status"
  /\ noted.status \/ timed[c]
  /\ doing' = [doing EXCEPT ![c] = "idle"]
  /\ assured' = (assured \/ (call[c] = "pause" /\ command = "pause" /\ status = "paused"))
  /\ UNCHANGED <<handle, woken, at, call, timed, calls, mishaps>>

EndSeen(c) ==
  /\ doing[c] = "await_end"
  /\ noted.completion \/ timed[c]
  /\ doing' = [doing EXCEPT ![c] = "idle"]
  /\ UNCHANGED <<handle, woken, at, call, timed, calls, mishaps, assured>>

----------------------------------------------------------------------------
(* Steps the thread makes by itself, and those its Lua code chooses. *)
ThreadGoesOn ==
  \/ Pausing \/ Rewait \/ FallAsleep \/ WakeUp \/ Awake \/ Answer \/ Resuming
  \/ Cancelling \/ CancellingHeld \/ Sleep \/ Interrupted \/ Complete \/ Fail

LuaChooses == Block \/ Unblock \/ Catch \/ Return \/ Error

CallGoesOn(c) ==
  \/ PutCommand(c) \/ PutNothing(c) \/ NotifyCommand(c) \/ Interrupt(c)
  \/ StatusSeen(c) \/ EndSeen(c)

Methods == {"pause", "resume", "cancel", "wait"}

Next ==
  \/ InterruptionPoint
  \/ ThreadGoesOn
  \/ LuaChooses
  \/ WakeUpSpuriously
  \/ Propagate
  \/ \E c \in Controllers :
       \/ CallGoesOn(c)
       \/ \E method \in Methods, time \in BOOLEAN : CallThread(c, method, time)

Spec == Init /\ [][Next]_vars

(* Every thread is scheduled.  Lua code that is neither blocked nor over   *)
(* reaches the hook, and does not catch its cancellation for ever.         *)
Fairness ==
  /\ WF_vars(InterruptionPoint)
  /\ WF_vars(ThreadGoesOn)
  /\ SF_vars(Propagate)
  /\ \A c \in Controllers : WF_vars(CallGoesOn(c))

FairSpec == Spec /\ Fairness
----------------------------------------------------------------------------
(* The members and the places keep their types. *)
TypeOK ==
  /\ status \in Statuses
  /\ command \in Commands
  /\ noted \in [status : BOOLEAN, command : BOOLEAN, completion : BOOLEAN]
  /\ woken \in BOOLEAN
  /\ at \in Places
  /\ doing \in [Controllers -> {"idle", "put", "notify", "interrupt",
                                "await_status", "await_end"}]
  /\ call \in [Controllers -> Methods]
  /\ timed \in [Controllers -> BOOLEAN]
  /\ calls \in 0 .. MaxCalls
  /\ mishaps \subseteq {"early_resume", "resume_crossed", "paused_twice",
                        "swallowed", "missed", "spurious"}
  /\ assured \in BOOLEAN

Paused == at \in {"rewait", "locking", "asleep", "awake", "answer"}

(* After pause() has returned true no Lua code of the thread runs until    *)
(* another command is put - unless commands have crossed.                  *)
PausedIsPaused ==
  assured => Paused \/ "resume_crossed" \in mishaps

(* A thread awake in wait() wants stateLock_ while putCommand() has it and *)
(* wants the mutex.                                                        *)
LocksCrossed == at = "cancel_held" /\ ~StateLockFree

(* putCommand() and a waking thread want each other's lock only when a     *)
(* command follows a resume() that has not been answered or a second pause *)
(* or the condition variable woke the thread for nothing.                  *)
LocksOrdered ==
  LocksCrossed
    => mishaps \cap {"resume_crossed", "paused_twice", "spurious"} # {}

(* A thread reported cancelled, completed or failed is never reported      *)
(* running or paused again, although it may go on after the report.        *)
FinishIsFinal == [][(status \in Finished) => (status' \in Finished)]_vars

(* cancel() without a time is answered, if its interrupt() was not missed  *)
(* and no locks crossed.                                                   *)
CancelAnswered ==
  \A c \in Controllers :
    (doing[c] = "await_status" /\ call[c] = "cancel") ~>
      (doing[c] = "idle" \/ "missed" \in mishaps \/ LocksCrossed)

(* pause() is answered by a thread that does not block in a wait of its    *)
(* own, if no other command crossed it.                                    *)
PauseAnswered ==
  \A c \in Controllers :
    (doing[c] = "await_status" /\ call[c] = "pause") ~>
      (doing[c] = "idle" \/ at = "blocked"
        \/ mishaps \cap {"early_resume", "paused_twice", "resume_crossed", "swallowed"} # {})

(* resume() is answered, if it did not come before the pause was.          *)
ResumeAnswered ==
  (command = "run" /\ status = "paused") ~>
    (status # "paused" \/ command # "run" \/ "early_resume" \in mishaps)

(* Every command is answered but for the crossings named in its part.      *)
CommandsAnswered == CancelAnswered /\ PauseAnswered /\ ResumeAnswered

(* Who waits for a thread's end learns of it. *)
EndIsSeen ==
  \A c \in Controllers : (doing[c] = "await_end" /\ at = "ended") ~> doing[c] = "idle"
============================================================================
