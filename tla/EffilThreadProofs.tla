------------------------- MODULE EffilThreadProofs -------------------------
(***************************************************************************)
(* Proofs about EffilThread for any number of controllers and of calls:    *)
(* the inductive invariant of the commands and the two locks, and the      *)
(* properties it gives.                                                    *)
(***************************************************************************)
EXTENDS EffilThread, TLAPS

(* Only a cancelled thread goes on after a report of its end, and nothing  *)
(* replaces the command it was cancelled with.                             *)
CancelStands ==
  /\ status \in Finished => command = "cancel" \/ at = "ended"
  /\ at \in {"cancel", "cancel_held", "raised"} => command = "cancel"

(* The status is "paused" where the code of a paused thread is, and not    *)
(* elsewhere unless the thread is cancelled.                               *)
PausedStatus ==
  /\ at = "pausing" => status \notin Finished
  /\ Paused \/ at = "resuming" => status = "paused"
  /\ status = "paused" /\ command # "cancel" => Paused \/ at = "resuming"

AnsweredRun == at = "resuming" => command = "run" \/ "resume_crossed" \in mishaps

AssuredPause == assured => command = "pause"

(* A controller's place follows from its call. *)
CallersPlace ==
  \A c \in Controllers :
    /\ doing[c] \in {"put", "notify", "interrupt", "await_status"} => call[c] # "wait"
    /\ doing[c] = "interrupt" => command = "cancel" \/ status \in Finished
    /\ doing[c] = "notify" /\ call[c] = "cancel" => command = "cancel"

(* stateLock_ has one owner, and a notification keeps interrupt() away.    *)
OneNotifier ==
  \A c, d \in Controllers :
    doing[c] = "notify" => doing[d] # "interrupt" /\ (doing[d] = "notify" => c = d)

WokenAsleep == woken => at \in {"asleep", "blocked"}

NoneOf(S) == mishaps \cap S = {}

(* Nobody has told a paused thread anything while the command is "pause".  *)
QuietPause ==
  Paused /\ command = "pause" /\ NoneOf({"paused_twice", "resume_crossed"})
    => ~noted.command /\ ~woken /\ StateLockFree

(* ... and what is put next is what it will be told first. *)
FirstPut ==
  Paused /\ ~StateLockFree /\ NoneOf({"paused_twice", "resume_crossed"})
    => ~noted.command /\ ~woken

(* A thread that is awake was told something, and no command is on its way. *)
AwakeTold ==
  at = "awake" /\ NoneOf({"paused_twice", "resume_crossed", "spurious"})
    => command # "pause" /\ StateLockFree

IInv ==
  /\ TypeOK
  /\ CancelStands
  /\ PausedStatus
  /\ AnsweredRun
  /\ AssuredPause
  /\ PausedIsPaused
  /\ CallersPlace
  /\ OneNotifier
  /\ WokenAsleep
  /\ QuietPause
  /\ FirstPut
  /\ AwakeTold
  /\ LocksOrdered

USE EffilThreadAssumption DEF EffilThreadAssumption

----------------------------------------------------------------------------
(* The type invariant holds initially and every step keeps it. *)
LEMMA TypeInit == Init => TypeOK
  <1> SUFFICES ASSUME Init PROVE TypeOK
    OBVIOUS
  <1> USE DEF Init, Statuses, Finished, Commands, Places, Methods
  <1>1. status \in Statuses /\ command \in Commands /\ at \in Places
    OBVIOUS
  <1>2. noted \in [status : BOOLEAN, command : BOOLEAN, completion : BOOLEAN]
    OBVIOUS
  <1>3. woken \in BOOLEAN /\ assured \in BOOLEAN
    OBVIOUS
  <1>6. calls \in 0 .. MaxCalls /\ mishaps = {}
    OBVIOUS
  <1>4. doing \in [Controllers -> {"idle", "put", "notify", "interrupt",
                                 "await_status", "await_end"}]
    OBVIOUS
  <1>5. call \in [Controllers -> Methods] /\ timed \in [Controllers -> BOOLEAN]
    OBVIOUS
  <1> QED
    BY <1>1, <1>2, <1>3, <1>4, <1>5, <1>6 DEF TypeOK

LEMMA TypeStep == TypeOK /\ CallersPlace /\ [Next]_vars => TypeOK'
  <1> SUFFICES ASSUME TypeOK, CallersPlace, [Next]_vars PROVE TypeOK'
    OBVIOUS
  <1> USE DEF TypeOK, Statuses, Finished, Commands, Places, Methods, handle, callVars
  <1>1. CASE InterruptionPoint
    BY <1>1 DEF InterruptionPoint, Stays, Goto
  <1>2. CASE Pausing
    BY <1>2 DEF Pausing, ChangeStatus
  <1>3. CASE Rewait
    BY <1>3 DEF Rewait, Stays, Goto
  <1>4. CASE FallAsleep
    BY <1>4 DEF FallAsleep, Stays, Goto
  <1>5. CASE WakeUp
    BY <1>5 DEF WakeUp, Stays, Goto
  <1>6. CASE Awake
    BY <1>6 DEF Awake, Stays, Goto
  <1>7. CASE Answer
    BY <1>7 DEF Answer, Stays, Goto
  <1>8. CASE Resuming
    BY <1>8 DEF Resuming, ChangeStatus
  <1>9. CASE Cancelling
    BY <1>9 DEF Cancelling, ChangeStatus
  <1>10. CASE CancellingHeld
    BY <1>10 DEF CancellingHeld, ChangeStatus
  <1>11. CASE Sleep
    BY <1>11 DEF Sleep, Stays, Goto
  <1>12. CASE Interrupted
    BY <1>12 DEF Interrupted, Stays
  <1>13. CASE Complete
    BY <1>13 DEF Complete, ChangeStatus
  <1>14. CASE Fail
    BY <1>14 DEF Fail, Stays, ChangeStatus, Goto
  <1>15. CASE Block
    BY <1>15 DEF Block, Stays, Goto
  <1>16. CASE Unblock
    BY <1>16 DEF Unblock, Stays
  <1>17. CASE Catch
    BY <1>17 DEF Catch, Stays, Goto
  <1>18. CASE Return
    BY <1>18 DEF Return, Stays, Goto
  <1>19. CASE Error
    BY <1>19 DEF Error, Stays, Goto
  <1>20. CASE WakeUpSpuriously
    BY <1>20 DEF WakeUpSpuriously, Goto
  <1>21. CASE Propagate
    BY <1>21 DEF Propagate, Stays, ChangeStatus, Goto
  <1>22. ASSUME NEW c \in Controllers, PutCommand(c) PROVE TypeOK'
    BY <1>22 DEF PutCommand, CommandOf, Crossing, CallersPlace
  <1>23. ASSUME NEW c \in Controllers, PutNothing(c) PROVE TypeOK'
    BY <1>23 DEF PutNothing, After, CallersPlace
  <1>24. ASSUME NEW c \in Controllers, NotifyCommand(c) PROVE TypeOK'
    BY <1>24 DEF NotifyCommand, After, CallersPlace
  <1>25. ASSUME NEW c \in Controllers, Interrupt(c) PROVE TypeOK'
    BY <1>25 DEF Interrupt
  <1>26. ASSUME NEW c \in Controllers, StatusSeen(c) PROVE TypeOK'
    BY <1>26 DEF StatusSeen
  <1>27. ASSUME NEW c \in Controllers, EndSeen(c) PROVE TypeOK'
    BY <1>27 DEF EndSeen
  <1>28. ASSUME NEW c \in Controllers, NEW method \in Methods, NEW time \in BOOLEAN,
               CallThread(c, method, time)
        PROVE TypeOK'
    BY <1>28 DEF CallThread
  <1>29. CASE UNCHANGED vars
    BY <1>29 DEF vars
  <1> QED
    BY <1>1, <1>2, <1>3, <1>4, <1>5, <1>6, <1>7, <1>8, <1>9, <1>10, <1>11, <1>12, <1>13, <1>14, <1>15, <1>16, <1>17, <1>18, <1>19, <1>20, <1>21, <1>22, <1>23, <1>24, <1>25, <1>26, <1>27, <1>28, <1>29 DEF Next, ThreadGoesOn, LuaChooses, CallGoesOn

----------------------------------------------------------------------------
(* The other parts of the invariant. *)
Rest ==
  /\ CancelStands /\ PausedStatus /\ AnsweredRun /\ AssuredPause /\ PausedIsPaused
  /\ CallersPlace /\ OneNotifier /\ WokenAsleep
  /\ QuietPause /\ FirstPut /\ AwakeTold /\ LocksOrdered

LEMMA RestInit == Init => Rest
  BY DEF Init, Rest, CancelStands, PausedStatus, AnsweredRun, AssuredPause,
         PausedIsPaused, CallersPlace, OneNotifier, WokenAsleep, QuietPause,
         FirstPut, AwakeTold, LocksOrdered, LocksCrossed, Paused, NoneOf, Finished

LEMMA RestStep == IInv /\ TypeOK' /\ [Next]_vars => Rest'
  <1> SUFFICES ASSUME IInv, TypeOK', [Next]_vars PROVE Rest'
    OBVIOUS
  <1> USE DEF IInv, TypeOK, Rest, CancelStands, PausedStatus, AnsweredRun, AssuredPause,
              PausedIsPaused, CallersPlace, OneNotifier, WokenAsleep, QuietPause,
              FirstPut, AwakeTold, LocksOrdered, LocksCrossed, StateLockFree, MutexFree,
              Paused, NoneOf, Statuses, Finished, Commands, Methods, handle, callVars
  <1>1. CASE InterruptionPoint
    BY <1>1 DEF InterruptionPoint, Stays, Goto
  <1>2. CASE Pausing
    BY <1>2 DEF Pausing, ChangeStatus
  <1>3. CASE Rewait
    BY <1>3 DEF Rewait, Stays, Goto
  <1>4. CASE FallAsleep
    BY <1>4 DEF FallAsleep, Stays, Goto
  <1>5. CASE WakeUp
    BY <1>5 DEF WakeUp, Stays, Goto
  <1>6. CASE Awake
    BY <1>6 DEF Awake, Stays, Goto
  <1>7. CASE Answer
    BY <1>7 DEF Answer, Stays, Goto
  <1>8. CASE Resuming
    BY <1>8 DEF Resuming, ChangeStatus
  <1>9. CASE Cancelling
    BY <1>9 DEF Cancelling, ChangeStatus
  <1>10. CASE CancellingHeld
    BY <1>10 DEF CancellingHeld, ChangeStatus
  <1>11. CASE Sleep
    BY <1>11 DEF Sleep, Stays, Goto
  <1>12. CASE Interrupted
    BY <1>12 DEF Interrupted, Stays
  <1>13. CASE Complete
    BY <1>13 DEF Complete, ChangeStatus
  <1>14. CASE Fail
    BY <1>14 DEF Fail, Stays, ChangeStatus, Goto
  <1>15. CASE Block
    BY <1>15 DEF Block, Stays, Goto
  <1>16. CASE Unblock
    BY <1>16 DEF Unblock, Stays
  <1>17. CASE Catch
    BY <1>17 DEF Catch, Stays, Goto
  <1>18. CASE Return
    BY <1>18 DEF Return, Stays, Goto
  <1>19. CASE Error
    BY <1>19 DEF Error, Stays, Goto
  <1>20. CASE WakeUpSpuriously
    BY <1>20 DEF WakeUpSpuriously, Goto
  <1>21. CASE Propagate
    BY <1>21 DEF Propagate, Stays, ChangeStatus, Goto
  <1>22. ASSUME NEW c \in Controllers, PutCommand(c) PROVE Rest'
    BY <1>22 DEF PutCommand, CommandOf, Crossing
  <1>23. ASSUME NEW c \in Controllers, PutNothing(c) PROVE Rest'
    BY <1>23 DEF PutNothing, After
  <1>24. ASSUME NEW c \in Controllers, NotifyCommand(c) PROVE Rest'
    BY <1>24 DEF NotifyCommand, After
  <1>25. ASSUME NEW c \in Controllers, Interrupt(c) PROVE Rest'
    BY <1>25 DEF Interrupt
  <1>26. ASSUME NEW c \in Controllers, StatusSeen(c) PROVE Rest'
    BY <1>26 DEF StatusSeen
  <1>27. ASSUME NEW c \in Controllers, EndSeen(c) PROVE Rest'
    BY <1>27 DEF EndSeen
  <1>28. ASSUME NEW c \in Controllers, NEW method \in Methods, NEW time \in BOOLEAN,
               CallThread(c, method, time)
        PROVE Rest'
    BY <1>28 DEF CallThread
  <1>29. CASE UNCHANGED vars
    BY <1>29 DEF vars
  <1> QED
    BY <1>1, <1>2, <1>3, <1>4, <1>5, <1>6, <1>7, <1>8, <1>9, <1>10, <1>11, <1>12, <1>13, <1>14, <1>15, <1>16, <1>17, <1>18, <1>19, <1>20, <1>21, <1>22, <1>23, <1>24, <1>25, <1>26, <1>27, <1>28, <1>29 DEF Next, ThreadGoesOn, LuaChooses, CallGoesOn

----------------------------------------------------------------------------
(* The invariant is inductive. *)
THEOREM CommandsInvariant == Spec => []IInv
  <1>1. Init => IInv
    BY TypeInit, RestInit DEF IInv, Rest
  <1>2. IInv /\ [Next]_vars => IInv'
    <2> SUFFICES ASSUME IInv, [Next]_vars PROVE IInv'
      OBVIOUS
    <2>1. TypeOK'
      BY TypeStep DEF IInv
    <2>2. Rest'
      BY <2>1, RestStep
    <2> QED
      BY <2>1, <2>2 DEF IInv, Rest
  <1> QED
    BY <1>1, <1>2, PTL DEF Spec

(* The members keep their types for any number of controllers and calls. *)
THEOREM TypeCorrect == Spec => []TypeOK
  <1>1. IInv => TypeOK
    BY DEF IInv
  <1> QED
    BY <1>1, CommandsInvariant, PTL

(* pause() that returned true has paused the thread, until the next command, *)
(* unless commands crossed.                                                  *)
THEOREM PauseHolds == Spec => []PausedIsPaused
  <1>1. IInv => PausedIsPaused
    BY DEF IInv
  <1> QED
    BY <1>1, CommandsInvariant, PTL

(* The two locks are taken crosswise only after a command that followed an   *)
(* unanswered resume(), a second pause() or a wake-up for nothing.           *)
THEOREM LocksInOrder == Spec => []LocksOrdered
  <1>1. IInv => LocksOrdered
    BY DEF IInv
  <1> QED
    BY <1>1, CommandsInvariant, PTL

(* A thread reported at its end is never reported running or paused again.   *)
THEOREM FinishedForGood == Spec => FinishIsFinal
  <1>1. IInv /\ [Next]_vars => [(status \in Finished) => (status' \in Finished)]_vars
    <2> SUFFICES ASSUME IInv, Next, status \in Finished PROVE status' \in Finished
      OBVIOUS
    <2> USE DEF IInv, CancelStands, PausedStatus, Finished, Paused, handle
    <2>1. CASE Pausing \/ Resuming
      BY <2>1 DEF Pausing, Resuming, ChangeStatus
    <2>2. CASE Cancelling \/ CancellingHeld \/ Complete \/ Fail \/ Propagate
      BY <2>2 DEF Cancelling, CancellingHeld, Complete, Fail, Propagate, ChangeStatus, Stays
    <2>3. CASE \/ InterruptionPoint \/ Rewait \/ FallAsleep \/ WakeUp \/ Awake \/ Answer
               \/ Sleep \/ Interrupted \/ LuaChooses \/ WakeUpSpuriously
      BY <2>3 DEF InterruptionPoint, Rewait, FallAsleep, WakeUp, Awake, Answer, Sleep,
                  Interrupted, LuaChooses, Block, Unblock, Catch, Return, Error,
                  WakeUpSpuriously, Stays
    <2>4. ASSUME NEW c \in Controllers, CallGoesOn(c) PROVE status' \in Finished
      BY <2>4 DEF CallGoesOn, PutCommand, PutNothing, NotifyCommand, Interrupt, StatusSeen,
                  EndSeen
    <2>5. ASSUME NEW c \in Controllers, NEW method \in Methods, NEW time \in BOOLEAN,
                 CallThread(c, method, time)
          PROVE  status' \in Finished
      BY <2>5 DEF CallThread
    <2> QED
      BY <2>1, <2>2, <2>3, <2>4, <2>5 DEF Next, ThreadGoesOn
  <1> QED
    BY <1>1, CommandsInvariant, PTL DEF Spec, FinishIsFinal
============================================================================
