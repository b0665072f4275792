------------------------------- MODULE RWLock -------------------------------
(***************************************************************************)
(* What std::unique_lock and std::shared_lock are owed by the mutex they   *)
(* are used with (cpp/script/modules/effil/shared-table.cpp:15-16): many   *)
(* threads may hold it shared, or one may hold it alone.                   *)
(***************************************************************************)
CONSTANT Threads

VARIABLES
  writers,  (* threads between lock() and unlock()                         *)
  readers   (* threads between lock_shared() and unlock_shared()           *)

vars == <<writers, readers>>

Init == writers = {} /\ readers = {}

Lock(t) ==
  /\ writers = {} /\ readers = {}
  /\ writers' = {t}
  /\ UNCHANGED readers

Unlock(t) ==
  /\ t \in writers
  /\ writers' = writers \ {t}
  /\ UNCHANGED readers

LockShared(t) ==
  /\ writers = {} /\ t \notin readers
  /\ readers' = readers \cup {t}
  /\ UNCHANGED writers

UnlockShared(t) ==
  /\ t \in readers
  /\ readers' = readers \ {t}
  /\ UNCHANGED writers

Next == \E t \in Threads : Lock(t) \/ Unlock(t) \/ LockShared(t) \/ UnlockShared(t)

Spec == Init /\ [][Next]_vars
=============================================================================
