----------------------------- MODULE SpinMutex -----------------------------
(***************************************************************************)
(* effil::SpinMutex (cpp/script/modules/effil/spin-mutex.h), the lock of   *)
(* every shared table and of every object the collector looks into.        *)
(*                                                                         *)
(* A writer takes the flag lock_ and waits until counter_ is 0.  A reader  *)
(* waits until the flag is free, counts itself in counter_ and looks at    *)
(* the flag again: if it was taken meanwhile the reader withdraws.  A step *)
(* is one access to an atomic.                                             *)
(*                                                                         *)
(* Both protocols write one atomic with memory_order_acquire and then read *)
(* the other.  Where such a write ends in a barrier (armeabi-v7a) steps    *)
(* happen in program order.  On arm64 the read may be satisfied before the *)
(* write is visible, provided nobody else writes the same atomic between   *)
(* (the store-exclusive would fail and the loop start again); reordered    *)
(* says whether the build allows that.  An early read that makes the       *)
(* thread wait or withdraw is not shown: reading later may do the same.    *)
(***************************************************************************)
EXTENDS Integers, FiniteSets

CONSTANTS
  Threads     \* the threads that use the mutex, none of them recursively

ASSUME SpinMutexAssumption == IsFiniteSet(Threads)

VARIABLES
  lock,     (* lock_                                                       *)
  counter,  (* counter_                                                    *)
  pc,       (* where each thread is in the code                            *)
  reordered (* the build may reorder an acquire write and a later read     *)

vars == <<lock, counter, pc, reordered>>

PCs == {"idle", "try", "early_empty", "drain", "writing",
        "wait", "join", "early_free", "check", "back", "reading"}

Init ==
  /\ lock = FALSE
  /\ counter = 0
  /\ pc = [t \in Threads |-> "idle"]
  /\ reordered \in BOOLEAN

Goto(t, from, to) ==
  /\ pc[t] = from
  /\ pc' = [pc EXCEPT ![t] = to]
  /\ UNCHANGED reordered

(* A write to an atomic undoes what others have begun on it.               *)
GotoAndUndo(t, from, to, begun, again) ==
  /\ pc[t] \in from
  /\ pc' = [u \in Threads |-> IF u = t THEN to
                              ELSE IF pc[u] = begun THEN again ELSE pc[u]]
  /\ UNCHANGED reordered

WriteCounter(t, from, to) == GotoAndUndo(t, from, to, "early_free", "join")
WriteLock(t, from, to)    == GotoAndUndo(t, from, to, "early_empty", "try")

----------------------------------------------------------------------------
(* lock() *)
CallLock(t) == Goto(t, "idle", "try") /\ UNCHANGED <<lock, counter>>

ExchangeBlind(t) ==            \* mutant: what the exchange returns is ignored
  /\ lock' = TRUE
  /\ WriteLock(t, {"try"}, "drain")
  /\ UNCHANGED counter

Exchange(t) ==
  /\ ~lock
  /\ lock' = TRUE
  /\ WriteLock(t, {"try"}, "drain")
  /\ UNCHANGED counter

(* counter_ is read before the exchange is seen by the others. *)
ReadCounterEarly(t) ==
  /\ reordered
  /\ ~lock /\ counter = 0
  /\ Goto(t, "try", "early_empty")
  /\ UNCHANGED <<lock, counter>>

ExchangeLate(t) ==
  /\ ~lock
  /\ lock' = TRUE
  /\ WriteLock(t, {"early_empty"}, "writing")
  /\ UNCHANGED counter

DrainedUnread(t) ==            \* mutant: lock() does not wait for the readers
  Goto(t, "drain", "writing") /\ UNCHANGED <<lock, counter>>

Drained(t) ==
  /\ counter = 0
  /\ Goto(t, "drain", "writing")
  /\ UNCHANGED <<lock, counter>>

(* unlock() *)
Unlock(t) ==
  /\ lock' = FALSE
  /\ WriteLock(t, {"writing"}, "idle")
  /\ UNCHANGED counter

----------------------------------------------------------------------------
(* lock_shared() *)
CallLockShared(t) == Goto(t, "idle", "wait") /\ UNCHANGED <<lock, counter>>

SeeAny(t) ==                   \* mutant: the flag is not waited for
  Goto(t, "wait", "join") /\ UNCHANGED <<lock, counter>>

SeeFree(t) ==
  /\ ~lock
  /\ Goto(t, "wait", "join")
  /\ UNCHANGED <<lock, counter>>

Join(t) ==
  /\ counter' = counter + 1
  /\ WriteCounter(t, {"join"}, "check")
  /\ UNCHANGED lock

(* lock_ is read again before the increment is seen by the others. *)
ReadLockEarly(t) ==
  /\ reordered
  /\ ~lock
  /\ Goto(t, "join", "early_free")
  /\ UNCHANGED <<lock, counter>>

JoinLate(t) ==
  /\ counter' = counter + 1
  /\ WriteCounter(t, {"early_free"}, "reading")
  /\ UNCHANGED lock

Check(t) ==
  /\ \/ lock /\ Goto(t, "check", "back")
     \/ ~lock /\ Goto(t, "check", "reading")
  /\ UNCHANGED <<lock, counter>>

BackOffCounted(t) ==           \* mutant: the reader stays counted
  WriteCounter(t, {"back"}, "wait") /\ UNCHANGED <<lock, counter>>

BackOff(t) ==
  /\ counter' = counter - 1
  /\ WriteCounter(t, {"back"}, "wait")
  /\ UNCHANGED lock

(* unlock_shared() *)
UnlockShared(t) ==
  /\ counter' = counter - 1
  /\ WriteCounter(t, {"reading"}, "idle")
  /\ UNCHANGED lock

----------------------------------------------------------------------------
(* What a thread does once it has called lock() or lock_shared(). *)
Step(t) ==
  \/ Exchange(t) \/ ReadCounterEarly(t) \/ ExchangeLate(t) \/ Drained(t) \/ Unlock(t)
  \/ SeeFree(t) \/ Join(t) \/ ReadLockEarly(t) \/ JoinLate(t) \/ Check(t)
  \/ BackOff(t) \/ UnlockShared(t)

Next == \E t \in Threads : CallLock(t) \/ CallLockShared(t) \/ Step(t)

Spec == Init /\ [][Next]_vars

(* A thread that has begun an operation is scheduled again, and one that   *)
(* holds the mutex releases it.                                            *)
FairSpec == Spec /\ \A t \in Threads : WF_vars(Step(t))

----------------------------------------------------------------------------
Writing == {t \in Threads : pc[t] = "writing"}
Reading == {t \in Threads : pc[t] = "reading"}
Owners  == {t \in Threads : pc[t] \in {"drain", "writing"}}
Counted == {t \in Threads : pc[t] \in {"check", "back", "reading"}}

(* The atomics keep their types, and the build is what it is. *)
TypeOK ==
  /\ lock \in BOOLEAN
  /\ counter \in 0 .. Cardinality(Threads)
  /\ pc \in [Threads -> PCs]
  /\ reordered \in BOOLEAN

(* The flag has one owner, whether memory accesses are reordered or not:   *)
(* no two writers are in, and an unlock() never frees another's lock.      *)
OneOwner ==
  /\ lock <=> Owners # {}
  /\ \A t, u \in Owners : t = u

(* counter_ is the number of readers that have counted themselves in: it   *)
(* returns to 0 when they leave or withdraw, and never wraps.              *)
CounterCounts == counter = Cardinality(Counted)

(* In a build that keeps the order no reader is in while a writer is.      *)
Exclusion == ~reordered => (Writing # {} => Reading = {})

(* Such a build's mutex is a readers-writer lock (the other kind is shown  *)
(* to the abstract lock as one that nobody enters).                        *)
Kept(set) == IF reordered THEN {} ELSE set
Lock == INSTANCE RWLock WITH writers <- Kept(Writing), readers <- Kept(Reading)
IsRWLock == Lock!Spec

(* Readers cannot keep a writer out: once it owns the flag it gets in,     *)
(* however often other threads call lock_shared().                         *)
WriterGetsIn == \A t \in Threads : pc[t] = "drain" ~> pc[t] = "writing"
============================================================================
