-------------------------- MODULE SpinMutexProofs --------------------------
(***************************************************************************)
(* Proofs about SpinMutex for any finite set of threads.                   *)
(*                                                                         *)
(* The argument: a step moves one thread and leaves the others where they  *)
(* are, but for a write it may undo (Others).  So the owners of the flag   *)
(* and the readers counted in counter_ change by that thread only, which   *)
(* keeps OneOwner and CounterCounts (IInv).  When accesses are not         *)
(* reordered, a writer gets in when it has seen counter_ at 0, that is     *)
(* when no reader is counted, and a reader when it has seen the flag free, *)
(* that is when it has no owner.                                           *)
(***************************************************************************)
EXTENDS SpinMutex, FiniteSetTheorems, TLAPS

USE SpinMutexAssumption DEF SpinMutexAssumption

Shape == lock \in BOOLEAN /\ counter \in Int /\ pc \in [Threads -> PCs]

Build == reordered \in BOOLEAN

IInv == Shape /\ Build /\ OneOwner /\ CounterCounts

InOrder ==
  ~reordered => \A t \in Threads : pc[t] \notin {"early_empty", "early_free"}

(* The places where a write may be undone: nothing is held or counted.     *)
Quiet == {"try", "early_empty", "join", "early_free"}
Again == {"try", "join"}

Others(t) ==
  \A u \in Threads \ {t} : pc'[u] = pc[u] \/ (pc[u] \in Quiet /\ pc'[u] \in Again)

(* A step of t goes from a to b. *)
Moves(t, a, b) ==
  /\ pc' \in [Threads -> PCs] /\ pc[t] = a /\ pc'[t] = b /\ Others(t)
  /\ reordered' = reordered

LEMMA GotoMoves ==
  ASSUME Shape, NEW t \in Threads, NEW a \in PCs, NEW b \in PCs, Goto(t, a, b)
  PROVE  Moves(t, a, b)
BY DEF Shape, Goto, Moves, Others

LEMMA UndoMoves ==
  ASSUME Shape, NEW t \in Threads, NEW a \in PCs, NEW b \in PCs,
         NEW begun \in Quiet, NEW again \in Again,
         GotoAndUndo(t, {a}, b, begun, again)
  PROVE  Moves(t, a, b)
<1>1. Again \subseteq PCs
  BY DEF Again, PCs
<1>2. pc' = [u \in Threads |-> IF u = t THEN b
                               ELSE IF pc[u] = begun THEN again ELSE pc[u]]
  BY DEF GotoAndUndo
<1>3. pc' \in [Threads -> PCs]
  BY <1>1, <1>2 DEF Shape
<1>4. Others(t)
  BY <1>2 DEF Others, Shape
<1> QED
  BY <1>2, <1>3, <1>4 DEF Moves, GotoAndUndo

(* Every step, as a move of one thread and what it does to the atomics.    *)
Effect(t, a, b) ==
  \/ <<a, b>> \in {<<"idle", "try">>, <<"idle", "wait">>}
       /\ UNCHANGED <<lock, counter>>
  \/ <<a, b>> = <<"try", "drain">> /\ ~lock /\ lock' = TRUE /\ UNCHANGED counter
  \/ <<a, b>> = <<"try", "early_empty">> /\ reordered /\ UNCHANGED <<lock, counter>>
  \/ <<a, b>> = <<"early_empty", "writing">> /\ ~lock /\ lock' = TRUE /\ UNCHANGED counter
  \/ <<a, b>> = <<"drain", "writing">> /\ counter = 0 /\ UNCHANGED <<lock, counter>>
  \/ <<a, b>> = <<"writing", "idle">> /\ lock' = FALSE /\ UNCHANGED counter
  \/ <<a, b>> = <<"wait", "join">> /\ UNCHANGED <<lock, counter>>
  \/ <<a, b>> \in {<<"join", "check">>, <<"early_free", "reading">>}
       /\ counter' = counter + 1 /\ UNCHANGED lock
  \/ <<a, b>> = <<"join", "early_free">> /\ reordered /\ UNCHANGED <<lock, counter>>
  \/ <<a, b>> = <<"check", "back">> /\ lock /\ UNCHANGED <<lock, counter>>
  \/ <<a, b>> = <<"check", "reading">> /\ ~lock /\ UNCHANGED <<lock, counter>>
  \/ <<a, b>> \in {<<"back", "wait">>, <<"reading", "idle">>}
       /\ counter' = counter - 1 /\ UNCHANGED lock

LEMMA NextMoves ==
  ASSUME Shape, Next
  PROVE  \E t \in Threads, a \in PCs, b \in PCs : Moves(t, a, b) /\ Effect(t, a, b)
<1>1. PICK t \in Threads : CallLock(t) \/ CallLockShared(t) \/ Step(t)
  BY DEF Next
<1> USE DEF PCs
<1>2. SUFFICES \E a \in PCs, b \in PCs : Moves(t, a, b) /\ Effect(t, a, b)
  OBVIOUS
<1>3. CASE CallLock(t)
  <2>1. Moves(t, "idle", "try")
    BY <1>3, GotoMoves DEF CallLock
  <2>2. Effect(t, "idle", "try")
    BY <1>3 DEF CallLock, Effect
  <2> QED BY <2>1, <2>2
<1>4. CASE CallLockShared(t)
  <2>1. Moves(t, "idle", "wait")
    BY <1>4, GotoMoves DEF CallLockShared
  <2>2. Effect(t, "idle", "wait")
    BY <1>4 DEF CallLockShared, Effect
  <2> QED BY <2>1, <2>2
<1>5. CASE Exchange(t)
  <2>1. Moves(t, "try", "drain")
    BY <1>5, UndoMoves DEF Exchange, WriteLock, Quiet, Again
  <2>2. Effect(t, "try", "drain")
    BY <1>5 DEF Exchange, Effect
  <2> QED BY <2>1, <2>2
<1>6. CASE ReadCounterEarly(t)
  <2>1. Moves(t, "try", "early_empty")
    BY <1>6, GotoMoves DEF ReadCounterEarly
  <2>2. Effect(t, "try", "early_empty")
    BY <1>6 DEF ReadCounterEarly, Effect
  <2> QED BY <2>1, <2>2
<1>7. CASE ExchangeLate(t)
  <2>1. Moves(t, "early_empty", "writing")
    BY <1>7, UndoMoves DEF ExchangeLate, WriteLock, Quiet, Again
  <2>2. Effect(t, "early_empty", "writing")
    BY <1>7 DEF ExchangeLate, Effect
  <2> QED BY <2>1, <2>2
<1>8. CASE Drained(t)
  <2>1. Moves(t, "drain", "writing")
    BY <1>8, GotoMoves DEF Drained
  <2>2. Effect(t, "drain", "writing")
    BY <1>8 DEF Drained, Effect
  <2> QED BY <2>1, <2>2
<1>9. CASE Unlock(t)
  <2>1. Moves(t, "writing", "idle")
    BY <1>9, UndoMoves DEF Unlock, WriteLock, Quiet, Again
  <2>2. Effect(t, "writing", "idle")
    BY <1>9 DEF Unlock, Effect
  <2> QED BY <2>1, <2>2
<1>10. CASE SeeFree(t)
  <2>1. Moves(t, "wait", "join")
    BY <1>10, GotoMoves DEF SeeFree
  <2>2. Effect(t, "wait", "join")
    BY <1>10 DEF SeeFree, Effect
  <2> QED BY <2>1, <2>2
<1>11. CASE Join(t)
  <2>1. Moves(t, "join", "check")
    BY <1>11, UndoMoves DEF Join, WriteCounter, Quiet, Again
  <2>2. Effect(t, "join", "check")
    BY <1>11 DEF Join, Effect
  <2> QED BY <2>1, <2>2
<1>12. CASE ReadLockEarly(t)
  <2>1. Moves(t, "join", "early_free")
    BY <1>12, GotoMoves DEF ReadLockEarly
  <2>2. Effect(t, "join", "early_free")
    BY <1>12 DEF ReadLockEarly, Effect
  <2> QED BY <2>1, <2>2
<1>13. CASE JoinLate(t)
  <2>1. Moves(t, "early_free", "reading")
    BY <1>13, UndoMoves DEF JoinLate, WriteCounter, Quiet, Again
  <2>2. Effect(t, "early_free", "reading")
    BY <1>13 DEF JoinLate, Effect
  <2> QED BY <2>1, <2>2
<1>14. CASE Check(t)
  <2>1. CASE lock /\ Goto(t, "check", "back")
    <3>1. Moves(t, "check", "back")
      BY <2>1, GotoMoves
    <3>2. Effect(t, "check", "back")
      BY <1>14, <2>1 DEF Check, Effect
    <3> QED BY <3>1, <3>2
  <2>2. CASE ~lock /\ Goto(t, "check", "reading")
    <3>1. Moves(t, "check", "reading")
      BY <2>2, GotoMoves
    <3>2. Effect(t, "check", "reading")
      BY <1>14, <2>2 DEF Check, Effect
    <3> QED BY <3>1, <3>2
  <2> QED BY <1>14, <2>1, <2>2 DEF Check
<1>15. CASE BackOff(t)
  <2>1. Moves(t, "back", "wait")
    BY <1>15, UndoMoves DEF BackOff, WriteCounter, Quiet, Again
  <2>2. Effect(t, "back", "wait")
    BY <1>15 DEF BackOff, Effect
  <2> QED BY <2>1, <2>2
<1>16. CASE UnlockShared(t)
  <2>1. Moves(t, "reading", "idle")
    BY <1>16, UndoMoves DEF UnlockShared, WriteCounter, Quiet, Again
  <2>2. Effect(t, "reading", "idle")
    BY <1>16 DEF UnlockShared, Effect
  <2> QED BY <2>1, <2>2
<1> QED
  BY <1>1, <1>3, <1>4, <1>5, <1>6, <1>7, <1>8, <1>9, <1>10, <1>11, <1>12,
     <1>13, <1>14, <1>15, <1>16 DEF Step

----------------------------------------------------------------------------
(* The sets the properties are about change by the thread that moves. *)
LEMMA SetsMove ==
  ASSUME Shape, NEW t \in Threads, NEW a \in PCs, NEW b \in PCs, Moves(t, a, b)
  PROVE  /\ Owners' = IF b \in {"drain", "writing"} THEN Owners \cup {t} ELSE Owners \ {t}
         /\ t \in Owners <=> a \in {"drain", "writing"}
         /\ Counted' = IF b \in {"check", "back", "reading"}
                       THEN Counted \cup {t} ELSE Counted \ {t}
         /\ t \in Counted <=> a \in {"check", "back", "reading"}
         /\ Writing' = IF b = "writing" THEN Writing \cup {t} ELSE Writing \ {t}
         /\ t \in Writing <=> a = "writing"
         /\ Reading' = IF b = "reading" THEN Reading \cup {t} ELSE Reading \ {t}
         /\ t \in Reading <=> a = "reading"
<1> USE DEF Moves, Others, Quiet, Again
<1>1. /\ Owners' = IF b \in {"drain", "writing"} THEN Owners \cup {t} ELSE Owners \ {t}
      /\ t \in Owners <=> a \in {"drain", "writing"}
  BY DEF Owners
<1>2. /\ Counted' = IF b \in {"check", "back", "reading"}
                    THEN Counted \cup {t} ELSE Counted \ {t}
      /\ t \in Counted <=> a \in {"check", "back", "reading"}
  BY DEF Counted
<1>3. /\ Writing' = IF b = "writing" THEN Writing \cup {t} ELSE Writing \ {t}
      /\ t \in Writing <=> a = "writing"
  BY DEF Writing
<1>4. /\ Reading' = IF b = "reading" THEN Reading \cup {t} ELSE Reading \ {t}
      /\ t \in Reading <=> a = "reading"
  BY DEF Reading
<1> QED
  BY <1>1, <1>2, <1>3, <1>4

LEMMA CountedFinite ==
  /\ IsFiniteSet(Counted)
  /\ Cardinality(Counted) \in 0 .. Cardinality(Threads)
<1>1. Counted \subseteq Threads
  BY DEF Counted
<1>2. IsFiniteSet(Counted) /\ Cardinality(Counted) <= Cardinality(Threads)
  BY <1>1, FS_Subset
<1>3. Cardinality(Counted) \in Nat /\ Cardinality(Threads) \in Nat
  BY <1>2, FS_CardinalityType
<1> QED
  BY <1>2, <1>3

(* The number of counted readers follows counter_. *)
LEMMA CountMoves ==
  ASSUME Shape, CounterCounts,
         NEW t \in Threads, NEW a \in PCs, NEW b \in PCs, Moves(t, a, b), Effect(t, a, b)
  PROVE  CounterCounts'
<1> DEFINE C == {"check", "back", "reading"}
<1>1. CASE a \notin C /\ b \in C
  <2>1. counter' = counter + 1
    BY <1>1 DEF Effect
  <2>2. Counted' = Counted \cup {t} /\ t \notin Counted
    BY <1>1, SetsMove
  <2>3. Cardinality(Counted \cup {t}) = Cardinality(Counted) + 1
    BY <2>2, CountedFinite, FS_AddElement
  <2> QED
    BY <2>1, <2>2, <2>3 DEF CounterCounts
<1>2. CASE a \in C /\ b \notin C
  <2>1. counter' = counter - 1
    BY <1>2 DEF Effect
  <2>2. Counted' = Counted \ {t} /\ t \in Counted
    BY <1>2, SetsMove
  <2>3. Cardinality(Counted \ {t}) = Cardinality(Counted) - 1
    BY <2>2, CountedFinite, FS_RemoveElement
  <2> QED
    BY <2>1, <2>2, <2>3 DEF CounterCounts
<1>3. CASE a \in C <=> b \in C
  <2>1. counter' = counter
    BY <1>3 DEF Effect
  <2>2. Counted' = Counted
    BY <1>3, SetsMove
  <2> QED
    BY <2>1, <2>2 DEF CounterCounts
<1> QED
  BY <1>1, <1>2, <1>3

LEMMA InitInv == Init => IInv /\ InOrder
<1> SUFFICES ASSUME Init PROVE IInv /\ InOrder
  OBVIOUS
<1>1. Shape /\ Build /\ InOrder
  <2>3. Build
    BY DEF Init, Build
  <2>1. lock \in BOOLEAN
    BY DEF Init
  <2>2. counter \in Int /\ pc \in [Threads -> PCs] /\ InOrder
    BY DEF Init, InOrder, PCs
  <2> QED
    BY <2>1, <2>2, <2>3 DEF Shape
<1>2. Owners = {} /\ Counted = {}
  BY DEF Init, Owners, Counted
<1>3. CounterCounts
  BY <1>2, FS_EmptySet DEF CounterCounts, Init
<1>4. OneOwner
  BY <1>2 DEF OneOwner, Init
<1> QED
  BY <1>1, <1>3, <1>4 DEF IInv

LEMMA StepInv == IInv /\ [Next]_vars => IInv'
<1> SUFFICES ASSUME IInv, [Next]_vars PROVE IInv'
  OBVIOUS
<1>1. CASE UNCHANGED vars
  BY <1>1 DEF vars, IInv, Shape, Build, OneOwner, CounterCounts, Owners, Counted
<1>2. CASE Next
  <2>1. PICK t \in Threads, a \in PCs, b \in PCs : Moves(t, a, b) /\ Effect(t, a, b)
    BY <1>2, NextMoves DEF IInv
  <2>2. Shape'
    <3>1. lock' \in BOOLEAN
      BY <2>1 DEF IInv, Shape, Effect
    <3>2. counter' \in Int
      BY <2>1 DEF IInv, Shape, Effect
    <3>3. pc' \in [Threads -> PCs]
      BY <2>1 DEF Moves
    <3> QED
      BY <3>1, <3>2, <3>3 DEF Shape
  <2>3. CounterCounts'
    BY <2>1, CountMoves DEF IInv
  <2>4. OneOwner'
    <3>1. CASE a \notin {"drain", "writing"} /\ b \in {"drain", "writing"}
      <4>1. lock = FALSE /\ lock' = TRUE
        BY <3>1, <2>1 DEF Effect, IInv, Shape
      <4>2. Owners = {} /\ Owners' = {t}
        BY <3>1, <4>1, <2>1, SetsMove DEF IInv, OneOwner
      <4> QED
        BY <4>1, <4>2 DEF OneOwner
    <3>2. CASE a \in {"drain", "writing"} /\ b \notin {"drain", "writing"}
      <4>1. lock' = FALSE
        BY <3>2, <2>1 DEF Effect
      <4>2. t \in Owners /\ Owners' = Owners \ {t}
        BY <3>2, <2>1, SetsMove DEF IInv
      <4>3. Owners' = {}
        BY <4>2 DEF IInv, OneOwner
      <4> QED
        BY <4>1, <4>3 DEF OneOwner
    <3>3. CASE a \in {"drain", "writing"} <=> b \in {"drain", "writing"}
      <4>1. lock' = lock
        BY <3>3, <2>1 DEF Effect
      <4>2. Owners' = Owners
        BY <3>3, <2>1, SetsMove DEF IInv
      <4> QED
        BY <4>1, <4>2 DEF OneOwner, IInv
    <3> QED
      BY <3>1, <3>2, <3>3
  <2>5. Build'
    BY <2>1 DEF IInv, Build, Moves
  <2> QED
    BY <2>2, <2>3, <2>4, <2>5 DEF IInv
<1> QED
  BY <1>1, <1>2

----------------------------------------------------------------------------
(* counter_ is at every moment the number of readers that are in, check    *)
(* the flag or are about to withdraw; reordering does not change that.     *)
THEOREM CounterAlwaysCounts == Spec => []CounterCounts
<1>1. Init => IInv
  BY InitInv
<1>2. IInv /\ [Next]_vars => IInv'
  BY StepInv
<1>3. IInv => CounterCounts
  BY DEF IInv
<1> QED
  BY <1>1, <1>2, <1>3, PTL DEF Spec

(* The flag never has two owners, and it is taken as long as it has one.   *)
THEOREM OneOwnerAlways == Spec => []OneOwner
<1>1. Init => IInv
  BY InitInv
<1>2. IInv /\ [Next]_vars => IInv'
  BY StepInv
<1>3. IInv => OneOwner
  BY DEF IInv
<1> QED
  BY <1>1, <1>2, <1>3, PTL DEF Spec

(* The atomics keep their types: counter_ stays between 0 and the number   *)
(* of threads.                                                             *)
THEOREM TypeCorrect == Spec => []TypeOK
<1>1. Init => IInv
  BY InitInv
<1>2. IInv /\ [Next]_vars => IInv'
  BY StepInv
<1>3. IInv => TypeOK
  BY CountedFinite DEF IInv, Shape, Build, CounterCounts, TypeOK
<1> QED
  BY <1>1, <1>2, <1>3, PTL DEF Spec

----------------------------------------------------------------------------
(* Without reordering no thread has read the other atomic too early.       *)
LEMMA OrderKept ==
  ASSUME Shape, InOrder, [Next]_vars
  PROVE  InOrder'
<1>1. CASE UNCHANGED vars
  BY <1>1 DEF vars, InOrder
<1>2. CASE Next
  <2>1. PICK t \in Threads, a \in PCs, b \in PCs : Moves(t, a, b) /\ Effect(t, a, b)
    BY <1>2, NextMoves
  <2>2. ~reordered => b \notin {"early_empty", "early_free"}
    BY <2>1 DEF Effect
  <2> QED
    BY <2>1, <2>2 DEF InOrder, Moves, Others, Again
<1> QED
  BY <1>1, <1>2

LEMMA NobodyReads ==
  ASSUME IInv, counter = 0
  PROVE  Reading = {}
<1>1. Counted = {}
  BY CountedFinite, FS_EmptySet DEF IInv, CounterCounts
<1> QED
  BY <1>1 DEF Counted, Reading

(* Who gets in, and what holds then. *)
LEMMA WriterEnters ==
  ASSUME IInv, InOrder, ~reordered, NEW t \in Threads, NEW a \in PCs,
         Moves(t, a, "writing"), Effect(t, a, "writing")
  PROVE  Writing = {} /\ Reading = {} /\ Writing' = {t} /\ Reading' = {}
<1>1. a = "drain" /\ counter = 0
  BY DEF Effect, InOrder, Moves
<1>2. Reading = {} /\ Reading' = {}
  BY <1>1, NobodyReads, SetsMove DEF IInv, PCs
<1>3. t \in Owners /\ t \notin Writing /\ Writing' = Writing \cup {t}
  BY <1>1, SetsMove DEF IInv, PCs
<1>4. Writing \subseteq Owners
  BY DEF Writing, Owners
<1>5. Writing = {}
  BY <1>3, <1>4 DEF IInv, OneOwner
<1> QED
  BY <1>2, <1>3, <1>5

LEMMA ReaderEnters ==
  ASSUME IInv, InOrder, ~reordered, NEW t \in Threads, NEW a \in PCs,
         Moves(t, a, "reading"), Effect(t, a, "reading")
  PROVE  /\ Writing = {} /\ Writing' = {}
         /\ t \notin Reading /\ Reading' = Reading \cup {t}
<1>1. a = "check" /\ ~lock
  BY DEF Effect, InOrder, Moves
<1>2. Writing = {}
  BY <1>1 DEF IInv, OneOwner, Writing, Owners
<1>3. /\ t \notin Reading /\ Reading' = Reading \cup {t}
      /\ Writing' = Writing \ {t}
  BY <1>1, SetsMove DEF IInv, PCs
<1> QED
  BY <1>2, <1>3

(* Every step of the mutex is one of the readers-writer lock, or none. *)
LEMMA StepRefines ==
  ASSUME IInv, InOrder, [Next]_vars
  PROVE  [Lock!Next]_Lock!vars
<1>1. CASE UNCHANGED vars
  BY <1>1 DEF vars, Lock!vars, Kept, Writing, Reading
<1>3. CASE Next /\ reordered
  <2>1. reordered'
    BY <1>3, NextMoves DEF IInv, Moves
  <2> QED
    BY <1>3, <2>1 DEF Lock!vars, Kept
<1>2. CASE Next /\ ~reordered
  <2>0. /\ Kept(Writing) = Writing /\ Kept(Writing)' = Writing'
        /\ Kept(Reading) = Reading /\ Kept(Reading)' = Reading'
    BY <1>2, NextMoves DEF IInv, Moves, Kept
  <2>1. PICK t \in Threads, a \in PCs, b \in PCs : Moves(t, a, b) /\ Effect(t, a, b)
    BY <1>2, NextMoves DEF IInv
  <2>2. CASE b = "writing"
    <3>1. Lock!Lock(t)
      BY <2>0, <2>1, <2>2, <1>2, WriterEnters DEF Lock!Lock
    <3> QED
      BY <3>1 DEF Lock!Next
  <2>3. CASE b = "reading"
    <3>1. Lock!LockShared(t)
      BY <2>0, <2>1, <2>3, <1>2, ReaderEnters DEF Lock!LockShared
    <3> QED
      BY <3>1 DEF Lock!Next
  <2>4. CASE a = "writing"
    <3>1. b = "idle"
      BY <2>1, <2>4 DEF Effect
    <3>2. t \in Writing /\ Writing' = Writing \ {t} /\ t \notin Reading /\ Reading' = Reading \ {t}
      BY <2>1, <2>4, <3>1, SetsMove DEF IInv
    <3>3. Lock!Unlock(t)
      BY <2>0, <3>2 DEF Lock!Unlock
    <3> QED
      BY <3>3 DEF Lock!Next
  <2>5. CASE a = "reading"
    <3>1. b = "idle"
      BY <2>1, <2>5 DEF Effect
    <3>2. t \in Reading /\ Reading' = Reading \ {t} /\ t \notin Writing /\ Writing' = Writing \ {t}
      BY <2>1, <2>5, <3>1, SetsMove DEF IInv
    <3>3. Lock!UnlockShared(t)
      BY <2>0, <3>2 DEF Lock!UnlockShared
    <3> QED
      BY <3>3 DEF Lock!Next
  <2>6. CASE {a, b} \cap {"reading", "writing"} = {}
    <3>1. /\ t \notin Reading /\ Reading' = Reading \ {t}
          /\ t \notin Writing /\ Writing' = Writing \ {t}
      BY <2>1, <2>6, SetsMove DEF IInv
    <3> QED
      BY <2>0, <3>1 DEF Lock!vars
  <2> QED
    BY <2>2, <2>3, <2>4, <2>5, <2>6
<1> QED
  BY <1>1, <1>2, <1>3

LEMMA ExclusionStep ==
  ASSUME IInv, InOrder, Exclusion, [Next]_vars
  PROVE  Exclusion'
<1>1. CASE UNCHANGED vars
  BY <1>1 DEF vars, Exclusion, Writing, Reading
<1>2. CASE Next
  <2>1. PICK t \in Threads, a \in PCs, b \in PCs : Moves(t, a, b) /\ Effect(t, a, b)
    BY <1>2, NextMoves DEF IInv
  <2>2. reordered' = reordered
    BY <2>1 DEF Moves
  <2>3. CASE reordered
    BY <2>2, <2>3 DEF Exclusion
  <2>4. CASE ~reordered /\ b = "writing"
    BY <2>1, <2>4, WriterEnters DEF Exclusion
  <2>5. CASE ~reordered /\ b = "reading"
    BY <2>1, <2>5, ReaderEnters DEF Exclusion
  <2>6. CASE ~reordered /\ b \notin {"reading", "writing"}
    <3>1. Writing' \subseteq Writing /\ Reading' \subseteq Reading
      BY <2>1, <2>6, SetsMove DEF IInv
    <3> QED
      BY <2>2, <2>6, <3>1 DEF Exclusion
  <2> QED
    BY <2>3, <2>4, <2>5, <2>6
<1> QED
  BY <1>1, <1>2

(* Where the build does not reorder an acquire write with a later read, no *)
(* reader is in a shared table while a writer is, for any number of        *)
(* threads.                                                                *)
THEOREM ExclusionAlways == Spec => []Exclusion
<1> DEFINE Inv == IInv /\ InOrder /\ Exclusion
<1>1. Init => Inv
  <2> SUFFICES ASSUME Init PROVE Inv
    OBVIOUS
  <2>1. Exclusion
    BY DEF Init, Exclusion, Writing
  <2> QED
    BY <2>1, InitInv
<1>2. Inv /\ [Next]_vars => Inv'
  BY StepInv, OrderKept, ExclusionStep DEF IInv
<1>3. Inv => Exclusion
  OBVIOUS
<1> QED
  BY <1>1, <1>2, <1>3, PTL DEF Spec

(* Under the same condition the mutex implements a readers-writer lock:    *)
(* every step that lets a thread in or out is a step of RWLock.            *)
THEOREM ImplementsRWLock == Spec => IsRWLock
<1> DEFINE Inv == IInv /\ InOrder
<1>1. Init => Inv /\ Lock!Init
  <2> SUFFICES ASSUME Init PROVE Inv /\ Lock!Init
    OBVIOUS
  <2>1. Lock!Init
    BY DEF Init, Lock!Init, Kept, Writing, Reading
  <2> QED
    BY <2>1, InitInv
<1>2. Inv /\ [Next]_vars => Inv'
  BY StepInv, OrderKept DEF IInv
<1>3. Inv /\ [Next]_vars => [Lock!Next]_Lock!vars
  BY StepRefines
<1> QED
  BY <1>1, <1>2, <1>3, PTL DEF Spec, IsRWLock, Lock!Spec
============================================================================
