--------------------------- MODULE RakHookProofs ---------------------------
(***************************************************************************)
(* What the sending half of rakhook keeps for any number of threads and    *)
(* messages and any nesting of handlers: main_thread_mutex is not locked   *)
(* twice, no message is lost, every thread's messages keep their order,    *)
(* and what is queued is not overtaken but from within process().          *)
(***************************************************************************)
EXTENDS RakHook, TLAPS

(* The mutex is held exactly while process() runs. *)
MutexHeld == mutex = IF processing THEN Main ELSE Nobody

(* There is at most one walk over the queue, inside process(). *)
Walks(k) == ctl[k].op \in {"walk", "clear"}
WalkOnce ==
  \A k \in DOMAIN ctl : Walks(k) =>
    /\ processing
    /\ \A j \in DOMAIN ctl : Walks(j) => j = k

(* What the walk has passed is on its way, out, or dropped. *)
Passed(j) ==
  \E k \in DOMAIN ctl : ctl[k].op = "clear" \/ (ctl[k].op = "walk" /\ j < ctl[k].i)
Settled == Done \cup Begun
PassedIsSettled == \A j \in DOMAIN queue : Passed(j) => queue[j] \in Settled

(* The numbers in use have been given out. *)
Known ==
  /\ \A m \in OnWire \cup Queued \cup Begun : m < next
  /\ \A t \in Others : waiting[t] < next

(* A message of another thread that is on the stack is the entry the walk, *)
(* the call below it, has just passed.                                     *)
Serves(k) == ctl[k].op \in MessageOps /\ sender[ctl[k].m] \in Others
ServedFromQueue ==
  \A k \in DOMAIN ctl : Serves(k) =>
    /\ k + 1 \in DOMAIN ctl
    /\ ctl[k + 1].op = "walk"
    /\ ctl[k + 1].i - 1 \in DOMAIN queue
    /\ ctl[k].m = queue[ctl[k + 1].i - 1]

(* A thread's messages, from the first sent to the one that waits. *)
SameThread(m, n) == sender[m] \in Others /\ sender[n] = sender[m]
QueueOrder ==
  \A i, j \in DOMAIN queue : i < j /\ SameThread(queue[i], queue[j]) => queue[i] < queue[j]
WaitingIsLast ==
  \A t \in Others : waiting[t] # 0 =>
    /\ sender[waiting[t]] = t
    /\ \A m \in OnWire \cup Queued : sender[m] = t => m < waiting[t]
WireBehindQueue ==
  \A i \in DOMAIN wire, j \in DOMAIN queue :
    SameThread(wire[i], queue[j]) => wire[i] < queue[j] \/ Passed(j)
WireBehindServed ==
  \A i \in DOMAIN wire, k \in DOMAIN ctl :
    Serves(k) /\ SameThread(wire[i], ctl[k].m) => wire[i] < ctl[k].m

Control == MutexHeld /\ WalkOnce /\ PassedIsSettled /\ Known /\ NothingLost
Order   == ServedFromQueue /\ QueueOrder /\ WaitingIsLast /\ WireBehindQueue
             /\ WireBehindServed /\ ThreadOrder
IInv    == TypeOK /\ Control /\ Order

----------------------------------------------------------------------------
(* A call is replaced by the calls it makes; the ones below stay. *)
LEMMA Replaced ==
  ASSUME NEW s \in Seq(Calls), s # <<>>, NEW ops \in Seq(Calls)
  PROVE  LET t == ops \o Tail(s) IN
         /\ t \in Seq(Calls)
         /\ Len(t) = Len(ops) + Len(s) - 1
         /\ \A k \in DOMAIN ops : k \in DOMAIN t /\ t[k] = ops[k]
         /\ \A k \in DOMAIN s \ {1} : /\ k + Len(ops) - 1 \in DOMAIN t
                                      /\ t[k + Len(ops) - 1] = s[k]
         /\ \A k \in DOMAIN t \ DOMAIN ops : /\ k - Len(ops) + 1 \in DOMAIN s \ {1}
                                             /\ t[k] = s[k - Len(ops) + 1]
  <1>1. Tail(s) \in Seq(Calls) /\ Len(Tail(s)) = Len(s) - 1 /\ Len(s) > 0
    OBVIOUS
  <1>2. \A k \in 1 .. Len(s) - 1 : Tail(s)[k] = s[k + 1]
    OBVIOUS
  <1>3. ops \o Tail(s) \in Seq(Calls)
    BY <1>1
  <1>4. Len(ops \o Tail(s)) = Len(ops) + Len(s) - 1
    BY <1>1
  <1>5. \A k \in DOMAIN ops : k \in DOMAIN (ops \o Tail(s)) /\ (ops \o Tail(s))[k] = ops[k]
    BY <1>1
  <1>6. ASSUME NEW k \in DOMAIN s \ {1}
        PROVE  /\ k + Len(ops) - 1 \in DOMAIN (ops \o Tail(s))
               /\ (ops \o Tail(s))[k + Len(ops) - 1] = s[k]
    <2>1. k \in 2 .. Len(s)
      OBVIOUS
    <2>2. (ops \o Tail(s))[Len(ops) + (k - 1)] = Tail(s)[k - 1]
      BY <1>1, <2>1
    <2>3. Len(ops) \in Nat /\ k + Len(ops) - 1 = Len(ops) + (k - 1)
      BY <2>1
    <2>4. Tail(s)[k - 1] = s[k]
      BY <1>2, <2>1
    <2>5. k + Len(ops) - 1 \in 1 .. Len(ops \o Tail(s))
      BY <1>1, <1>4, <2>1, <2>3
    <2>6. DOMAIN (ops \o Tail(s)) = 1 .. Len(ops \o Tail(s))
      BY <1>3
    <2> QED
      BY <2>2, <2>3, <2>4, <2>5, <2>6
  <1>7. ASSUME NEW k \in DOMAIN (ops \o Tail(s)) \ DOMAIN ops
        PROVE  /\ k - Len(ops) + 1 \in DOMAIN s \ {1}
               /\ (ops \o Tail(s))[k] = s[k - Len(ops) + 1]
    <2>1. DOMAIN ops = 1 .. Len(ops) /\ Len(ops) \in Nat /\ DOMAIN s = 1 .. Len(s)
      OBVIOUS
    <2>2. k \in Len(ops) + 1 .. Len(ops) + Len(s) - 1
      BY <1>1, <1>3, <1>4, <2>1
    <2>3. k - Len(ops) + 1 \in DOMAIN s \ {1}
      BY <2>1, <2>2
    <2>4. (k - Len(ops) + 1) + Len(ops) - 1 = k
      BY <2>1, <2>2
    <2> QED
      BY <1>6, <2>3, <2>4
  <1> QED
    BY <1>3, <1>4, <1>5, <1>6, <1>7

LEMMA Pushed ==
  ASSUME NEW s \in Seq(Calls), NEW ops \in Seq(Calls)
  PROVE  LET t == ops \o s IN
         /\ t \in Seq(Calls)
         /\ Len(t) = Len(ops) + Len(s)
         /\ \A k \in DOMAIN ops : k \in DOMAIN t /\ t[k] = ops[k]
         /\ \A k \in DOMAIN s : k + Len(ops) \in DOMAIN t /\ t[k + Len(ops)] = s[k]
         /\ \A k \in DOMAIN t \ DOMAIN ops : k - Len(ops) \in DOMAIN s /\ t[k] = s[k - Len(ops)]
  OBVIOUS

----------------------------------------------------------------------------
(* Types *)
LEMMA CallTypes ==
  ASSUME NEW c \in Calls
  PROVE  /\ c.op \in MessageOps => c = [op |-> c.op, m |-> c.m] /\ c.m \in Messages
         /\ c.op = "walk" => c.i \in Nat \ {0}
  BY DEF Calls, MessageOps, Process, Clear

LEMMA OpsTypes ==
  /\ \A m \in Messages : Hook(m) \in Calls /\ Handlers(m) \in Calls /\ Put(m) \in Calls
  /\ Process \in Calls /\ Clear \in Calls
  /\ \A i \in Nat \ {0} : Walk(i) \in Calls
  BY DEF Calls, MessageOps, Process, Clear, Walk, Hook, Handlers, Put

LEMMA TypeStep == TypeOK /\ [Next]_vars => TypeOK'
  <1> SUFFICES ASSUME TypeOK, [Next]_vars PROVE TypeOK'
    OBVIOUS
  <1> USE DEF TypeOK
  <1>0. \A op \in MessageOps \cup {"process", "walk", "clear"} : At(op) =>
          /\ ctl # <<>> /\ Top \in Calls /\ Top.op = op
          /\ op \in MessageOps => Top.m \in Messages
          /\ op = "walk" => Top.i \in Nat \ {0}
    <2> SUFFICES ASSUME NEW op, At(op) 
                 PROVE /\ ctl # <<>> /\ Top \in Calls /\ Top.op = op
                       /\ op \in MessageOps => Top.m \in Messages
                       /\ op = "walk" => Top.i \in Nat \ {0}
      OBVIOUS
    <2>1. ctl # <<>> /\ Top \in Calls /\ Top.op = op
      BY DEF At, Top
    <2> QED
      BY <2>1, CallTypes
  <1>a. ASSUME NEW ops \in Seq(Calls), ctl # <<>>, Continue(ops) PROVE ctl' \in Seq(Calls)
    BY <1>a, Replaced DEF Continue
  <1>1. ASSUME NEW t \in Others, CallSend(t) PROVE TypeOK'
    BY <1>1, RakHookAssumption DEF CallSend, Accept, history, Messages
  <1>2. ASSUME NEW t \in Others, Enqueue(t) PROVE TypeOK'
    BY <1>2 DEF Enqueue, history, Messages
  <1>3. CASE MainSend \/ MainDirect
    <2>1. PICK ops \in {<<Hook(next)>>, <<Process, Put(next)>>} : MainCalls(ops)
      BY <1>3 DEF MainSend, MainDirect
    <2>2. next \in Messages /\ next' = next + 1 /\ next' \in 1 .. MaxMessages + 1
      BY <2>1, RakHookAssumption DEF MainCalls, Accept, Messages
    <2>3. ops \in Seq(Calls)
      <3>1. Hook(next) \in Calls /\ Put(next) \in Calls /\ Process \in Calls
        BY <2>2, OpsTypes
      <3>2. <<Hook(next)>> \in Seq(Calls) /\ <<Process, Put(next)>> \in Seq(Calls)
        BY <3>1
      <3> HIDE DEF TypeOK
      <3> QED
        BY <3>2, ops \in {<<Hook(next)>>, <<Process, Put(next)>>}
    <2>4. ctl' \in Seq(Calls)
      BY <2>1, <2>3, Pushed DEF MainCalls
    <2>5. sender' \in [Messages -> Others \cup {Main, Nobody}]
      BY <2>1, <2>2 DEF MainCalls, Accept
    <2>6. Queued \subseteq Messages
      BY DEF Queued
    <2>7. ahead' \in [Messages -> SUBSET Messages] /\ nested' \subseteq Messages
      BY <2>1, <2>2, <2>6 DEF MainCalls
    <2> QED
      BY <2>1, <2>2, <2>4, <2>5, <2>7 DEF MainCalls
  <1>4. CASE MainHook
    <2>1. HookOps(Top.m) \in Seq(Calls)
      BY <1>0, <1>4, OpsTypes DEF MainHook, HookOps, MessageOps
    <2> QED
      BY <1>a, <1>0, <1>4, <2>1 DEF MainHook, MessageOps, history
  <1>5. CASE HandlersDone
    <2>1. <<Put(Top.m)>> \in Seq(Calls) /\ <<>> \in Seq(Calls) /\ Top.m \in Messages /\ ctl # <<>>
      BY <1>0, <1>5, OpsTypes DEF HandlersDone, MessageOps
    <2> QED
      BY <1>a, <1>5, <2>1 DEF HandlersDone, history
  <1>6. CASE PutOnWire
    <2>1. <<>> \in Seq(Calls) /\ Top.m \in Messages /\ ctl # <<>>
      BY <1>0, <1>6 DEF PutOnWire, MessageOps
    <2>2. wire' \in Seq(Messages)
      BY <1>6, <2>1 DEF PutOnWire
    <2>3. ctl' \in Seq(Calls)
      BY <1>a, <1>6, <2>1 DEF PutOnWire
    <2> QED
      BY <1>6, <2>2, <2>3 DEF PutOnWire, history
  <1>7. CASE BeginProcess
    <2>1. <<>> \in Seq(Calls) /\ <<Walk(1)>> \in Seq(Calls) /\ ctl # <<>>
      BY <1>0, <1>7, OpsTypes DEF BeginProcess
    <2> QED
      BY <1>a, <1>7, <2>1 DEF BeginProcess, history
  <1>8. CASE WalkQueue
    <2>1. ctl # <<>> /\ Top.i \in Nat \ {0} /\ queue[Top.i] \in Messages
      BY <1>0, <1>8 DEF WalkQueue
    <2>2. <<Hook(queue[Top.i]), Walk(Top.i + 1)>> \in Seq(Calls)
      BY <2>1, OpsTypes
    <2> QED
      BY <1>a, <1>8, <2>1, <2>2 DEF WalkQueue, history
  <1>9. CASE EndWalk
    <2>1. <<Clear>> \in Seq(Calls) /\ ctl # <<>>
      BY <1>0, <1>9, OpsTypes DEF EndWalk
    <2> QED
      BY <1>a, <1>9, <2>1 DEF EndWalk, history
  <1>10. CASE EndProcess
    <2>1. <<>> \in Seq(Calls) /\ ctl # <<>>
      BY <1>0, <1>10 DEF EndProcess
    <2>2. queue' \in Seq(Messages)
      BY <1>10 DEF EndProcess
    <2>3. ctl' \in Seq(Calls)
      BY <1>a, <1>10, <2>1 DEF EndProcess
    <2> QED
      BY <1>10, <2>2, <2>3 DEF EndProcess, history
  <1>11. CASE Frame
    <2>1. <<Process>> \in Seq(Calls)
      BY OpsTypes
    <2> QED
      BY <1>11, <2>1 DEF Frame, history
  <1>12. CASE UNCHANGED vars
    BY <1>12 DEF vars, history
  <1> QED
    BY <1>1, <1>2, <1>3, <1>4, <1>5, <1>6, <1>7, <1>8, <1>9, <1>10, <1>11, <1>12 DEF Next

----------------------------------------------------------------------------
(* How the stack changes *)
LEMMA Popped ==
  ASSUME TypeOK, ctl # <<>>, Continue(<<>>)
  PROVE  /\ DOMAIN ctl' = 1 .. Len(ctl) - 1
         /\ \A k \in DOMAIN ctl' : k + 1 \in DOMAIN ctl /\ ctl'[k] = ctl[k + 1]
         /\ \A k \in DOMAIN ctl : k # 1 => k - 1 \in DOMAIN ctl' /\ ctl'[k - 1] = ctl[k]
  <1>1. ctl' = Tail(ctl)
    <2>1. Tail(ctl) \in Seq(Calls)
      BY DEF TypeOK
    <2> QED
      BY <2>1 DEF Continue
  <1>2. Len(ctl') = Len(ctl) - 1 /\ Len(ctl) \in Nat /\ DOMAIN ctl = 1 .. Len(ctl)
    BY <1>1 DEF TypeOK
  <1>3. \A k \in 1 .. Len(ctl) - 1 : ctl'[k] = ctl[k + 1]
    BY <1>1 DEF TypeOK
  <1>4. DOMAIN ctl' = 1 .. Len(ctl) - 1
    BY <1>1, <1>2 DEF TypeOK
  <1> QED
    BY <1>2, <1>3, <1>4

LEMMA Exchanged ==
  ASSUME TypeOK, ctl # <<>>, NEW c \in Calls, Continue(<<c>>)
  PROVE  /\ DOMAIN ctl' = DOMAIN ctl
         /\ 1 \in DOMAIN ctl
         /\ ctl'[1] = c
         /\ \A k \in DOMAIN ctl : k # 1 => ctl'[k] = ctl[k]
  <1>1. <<c>> \in Seq(Calls) /\ Len(<<c>>) = 1 /\ DOMAIN <<c>> = {1} /\ <<c>>[1] = c
    OBVIOUS
  <1>2. Len(ctl') = Len(ctl) /\ ctl' \in Seq(Calls)
    BY <1>1, Replaced DEF Continue, TypeOK
  <1>3. ctl'[1] = c
    BY <1>1, Replaced DEF Continue, TypeOK
  <1>4. ASSUME NEW k \in DOMAIN ctl, k # 1 PROVE ctl'[k] = ctl[k]
    <2>1. ctl'[k + 1 - 1] = ctl[k]
      BY <1>1, <1>4, Replaced DEF Continue, TypeOK
    <2>2. k + 1 - 1 = k
      BY DEF TypeOK
    <2> QED
      BY <2>1, <2>2
  <1> QED
    BY <1>2, <1>3, <1>4 DEF TypeOK

LEMMA SplitInTwo ==
  ASSUME TypeOK, ctl # <<>>, NEW c \in Calls, NEW d \in Calls, Continue(<<c, d>>)
  PROVE  /\ DOMAIN ctl' = 1 .. Len(ctl) + 1
         /\ ctl'[1] = c /\ ctl'[2] = d
         /\ \A k \in DOMAIN ctl : k # 1 => ctl'[k + 1] = ctl[k]
         /\ \A k \in DOMAIN ctl' : k = 1 \/ k = 2 \/ (k - 1 \in DOMAIN ctl /\ ctl'[k] = ctl[k - 1])
  <1> DEFINE ops == <<c, d>>
  <1>1. ops \in Seq(Calls) /\ Len(ops) = 2 /\ DOMAIN ops = {1, 2} /\ ops[1] = c /\ ops[2] = d
    OBVIOUS
  <1>a. ctl' = ops \o Tail(ctl) /\ ctl \in Seq(Calls)
    BY DEF Continue, TypeOK
  <1> HIDE DEF ops
  <1>b. /\ ctl' \in Seq(Calls) /\ Len(ctl') = Len(ops) + Len(ctl) - 1
        /\ \A k \in DOMAIN ops : ctl'[k] = ops[k]
        /\ \A k \in DOMAIN ctl \ {1} : ctl'[k + Len(ops) - 1] = ctl[k]
    <2>1. ops \in Seq(Calls)
      BY <1>1
    <2> QED
      BY <2>1, <1>a, Replaced
  <1>2. Len(ctl') = Len(ctl) + 1 /\ ctl' \in Seq(Calls)
    BY <1>1, <1>a, <1>b
  <1>3. ctl'[1] = c /\ ctl'[2] = d
    BY <1>1, <1>b
  <1>4. ASSUME NEW k \in DOMAIN ctl, k # 1 PROVE ctl'[k + 1] = ctl[k]
    <2>1. ctl'[k + Len(ops) - 1] = ctl[k]
      BY <1>b, <1>4
    <2>2. k + Len(ops) - 1 = k + 1
      BY <1>1, <1>a
    <2> QED
      BY <2>1, <2>2
  <1>5. ASSUME NEW k \in DOMAIN ctl', k # 1, k # 2
        PROVE k - 1 \in DOMAIN ctl /\ ctl'[k] = ctl[k - 1]
    <2>1. k \in 3 .. Len(ctl) + 1
      BY <1>2, <1>5
    <2>2. k - 1 \in DOMAIN ctl /\ k - 1 # 1 /\ (k - 1) + 1 = k
      BY <2>1 DEF TypeOK
    <2> QED
      BY <1>4, <2>2
  <1> QED
    BY <1>2, <1>3, <1>4, <1>5 DEF TypeOK

LEMMA PushedOne ==
  ASSUME TypeOK, NEW c \in Calls, ctl' = <<c>> \o ctl
  PROVE  /\ DOMAIN ctl' = 1 .. Len(ctl) + 1
         /\ ctl'[1] = c
         /\ \A k \in DOMAIN ctl : ctl'[k + 1] = ctl[k]
         /\ \A k \in DOMAIN ctl' : k = 1 \/ (k - 1 \in DOMAIN ctl /\ ctl'[k] = ctl[k - 1])
  <1> DEFINE ops == <<c>>
  <1>1. ops \in Seq(Calls) /\ Len(ops) = 1 /\ DOMAIN ops = {1} /\ ops[1] = c
    OBVIOUS
  <1>2. ctl' = ops \o ctl /\ ctl \in Seq(Calls)
    BY DEF TypeOK
  <1> HIDE DEF ops
  <1>3. /\ ctl' \in Seq(Calls) /\ Len(ctl') = Len(ops) + Len(ctl)
        /\ \A k \in DOMAIN ops : ctl'[k] = ops[k]
        /\ \A k \in DOMAIN ctl : ctl'[k + Len(ops)] = ctl[k]
        /\ \A k \in DOMAIN ctl' \ DOMAIN ops : k - Len(ops) \in DOMAIN ctl /\ ctl'[k] = ctl[k - Len(ops)]
    <2>1. ops \in Seq(Calls)
      BY <1>1
    <2> QED
      BY <2>1, <1>2, Pushed
  <1> QED
    BY <1>1, <1>2, <1>3

LEMMA PushedTwo ==
  ASSUME TypeOK, NEW c \in Calls, NEW d \in Calls, ctl' = <<c, d>> \o ctl
  PROVE  /\ DOMAIN ctl' = 1 .. Len(ctl) + 2
         /\ ctl'[1] = c /\ ctl'[2] = d
         /\ \A k \in DOMAIN ctl : ctl'[k + 2] = ctl[k]
         /\ \A k \in DOMAIN ctl' : k = 1 \/ k = 2 \/ (k - 2 \in DOMAIN ctl /\ ctl'[k] = ctl[k - 2])
  <1> DEFINE ops == <<c, d>>
  <1>1. ops \in Seq(Calls) /\ Len(ops) = 2 /\ DOMAIN ops = {1, 2} /\ ops[1] = c /\ ops[2] = d
    OBVIOUS
  <1>2. ctl' = ops \o ctl /\ ctl \in Seq(Calls)
    BY DEF TypeOK
  <1> HIDE DEF ops
  <1>3. /\ ctl' \in Seq(Calls) /\ Len(ctl') = Len(ops) + Len(ctl)
        /\ \A k \in DOMAIN ops : ctl'[k] = ops[k]
        /\ \A k \in DOMAIN ctl : ctl'[k + Len(ops)] = ctl[k]
        /\ \A k \in DOMAIN ctl' \ DOMAIN ops : k - Len(ops) \in DOMAIN ctl /\ ctl'[k] = ctl[k - Len(ops)]
    <2>1. ops \in Seq(Calls)
      BY <1>1
    <2> QED
      BY <2>1, <1>2, Pushed, SMTT(60)
  <1>4. \A k \in DOMAIN ctl' : k = 1 \/ k = 2 \/ (k - 2 \in DOMAIN ctl /\ ctl'[k] = ctl[k - 2])
    <2>1. \A k \in DOMAIN ctl' \ {1, 2} : k - 2 \in DOMAIN ctl /\ ctl'[k] = ctl[k - 2]
      BY <1>1, <1>3
    <2> QED
      BY <2>1
  <1>5. DOMAIN ctl' = 1 .. Len(ctl) + 2
    BY <1>1, <1>2, <1>3
  <1>6. ctl'[1] = c /\ ctl'[2] = d
    BY <1>1, <1>3
  <1>7. \A k \in DOMAIN ctl : ctl'[k + 2] = ctl[k]
    BY <1>1, <1>3
  <1> QED
    BY <1>4, <1>5, <1>6, <1>7

(* What is on the stack, on the wire or queued, in terms of positions. *)
LEMMA Members ==
  /\ \A m : m \in Begun <=> \E k \in DOMAIN ctl : ctl[k].op \in MessageOps /\ ctl[k].m = m
  /\ \A m : m \in OnWire <=> \E k \in DOMAIN wire : wire[k] = m
  /\ \A m : m \in Queued <=> \E k \in DOMAIN queue : queue[k] = m
  BY DEF Begun, OnWire, Queued
LEMMA MembersNext ==
  /\ \A m : m \in Begun' <=> \E k \in DOMAIN ctl' : ctl'[k].op \in MessageOps /\ ctl'[k].m = m
  /\ \A m : m \in OnWire' <=> \E k \in DOMAIN wire' : wire'[k] = m
  /\ \A m : m \in Queued' <=> \E k \in DOMAIN queue' : queue'[k] = m
  BY DEF Begun, OnWire, Queued

LEMMA AcceptStep ==
  ASSUME IInv, NEW t, t # Nobody, Accept(t)
  PROVE  /\ next \in Messages /\ next' = next + 1
         /\ sender'[next] = t
         /\ \A m \in OnWire \cup Queued \cup Begun : sender'[m] = sender[m] /\ m # next /\ m < next'
         /\ \A u \in Others : waiting[u] # 0 => sender'[waiting[u]] = u /\ waiting[u] < next'
  <1>1. next \in Messages /\ next' = next + 1 /\ sender' = [sender EXCEPT ![next] = t]
    BY RakHookAssumption DEF Accept, IInv, TypeOK, Messages
  <1>2. sender \in [Messages -> Others \cup {Main, Nobody}] /\ next \in Nat
    BY <1>1 DEF IInv, TypeOK, Messages
  <1>3. OnWire \cup Queued \cup Begun \subseteq Messages
    <2>1. OnWire \subseteq Messages /\ Queued \subseteq Messages
      BY DEF OnWire, Queued, IInv, TypeOK
    <2>2. \A k \in DOMAIN ctl : ctl[k].op \in MessageOps => ctl[k].m \in Messages
      BY CallTypes DEF IInv, TypeOK
    <2> QED
      BY <2>1, <2>2 DEF Begun
  <1>4. \A m \in OnWire \cup Queued \cup Begun : m < next
    BY DEF IInv, Control, Known
  <1>5. \A m \in OnWire \cup Queued \cup Begun : sender'[m] = sender[m] /\ m # next /\ m < next'
    BY <1>1, <1>2, <1>3, <1>4 DEF Messages
  <1>6. ASSUME NEW u \in Others, waiting[u] # 0
        PROVE  sender'[waiting[u]] = u /\ waiting[u] < next'
    <2>1. waiting[u] \in Messages /\ waiting[u] < next /\ sender[waiting[u]] = u
      BY <1>6 DEF IInv, TypeOK, Control, Known, Order, WaitingIsLast
    <2> QED
      BY <1>1, <1>2, <2>1 DEF Messages
  <1> QED
    BY <1>1, <1>2, <1>5, <1>6

(* Messages in use are messages, the calls on the stack are calls. *)
LEMMA InUse ==
  ASSUME TypeOK
  PROVE  /\ OnWire \cup Queued \cup Begun \subseteq Messages
         /\ \A k \in DOMAIN ctl : ctl[k] \in Calls
         /\ \A k \in DOMAIN ctl : ctl[k].op \in MessageOps => ctl[k].m \in Begun
         /\ \A i \in DOMAIN wire : wire[i] \in OnWire
         /\ \A j \in DOMAIN queue : queue[j] \in Queued
  <1>1. OnWire \subseteq Messages /\ Queued \subseteq Messages
    BY DEF OnWire, Queued, TypeOK
  <1>2. \A k \in DOMAIN ctl : ctl[k] \in Calls
    BY DEF TypeOK
  <1>3. Begun \subseteq Messages
    BY <1>2, CallTypes DEF Begun
  <1> QED
    BY <1>1, <1>2, <1>3 DEF OnWire, Queued, Begun

(* A step that keeps queue and wire keeps the order, when the messages of  *)
(* other threads on the stack stay above their walk.                       *)
LEMMA OrderKept ==
  ASSUME IInv, queue' = queue, wire' = wire,
         \A m \in OnWire \cup Queued \cup Begun : sender'[m] = sender[m],
         \A k \in DOMAIN ctl' :
           ctl'[k].op \in MessageOps /\ sender'[ctl'[k].m] \in Others =>
             \E j \in DOMAIN ctl :
               /\ ctl[j].op \in MessageOps /\ ctl[j].m = ctl'[k].m
               /\ j + 1 \in DOMAIN ctl => k + 1 \in DOMAIN ctl' /\ ctl'[k + 1] = ctl[j + 1],
         \A j \in DOMAIN queue : Passed(j) => Passed(j)'
  PROVE  ServedFromQueue' /\ QueueOrder' /\ WireBehindQueue' /\ WireBehindServed' /\ ThreadOrder'
  <1>0. TypeOK
    BY DEF IInv
  <1>1. \A i \in DOMAIN wire : sender'[wire[i]] = sender[wire[i]]
    BY <1>0, InUse
  <1>2. \A j \in DOMAIN queue : sender'[queue[j]] = sender[queue[j]]
    BY <1>0, InUse
  <1>3. \A k \in DOMAIN ctl : ctl[k].op \in MessageOps => sender'[ctl[k].m] = sender[ctl[k].m]
    BY <1>0, InUse
  <1>4. \A k \in DOMAIN ctl' : Serves(k)' =>
          \E j \in DOMAIN ctl :
            /\ Serves(j) /\ ctl[j].m = ctl'[k].m
            /\ j + 1 \in DOMAIN ctl => k + 1 \in DOMAIN ctl' /\ ctl'[k + 1] = ctl[j + 1]
    BY <1>3 DEF Serves
  <1>5. ServedFromQueue'
    BY <1>4 DEF ServedFromQueue, IInv, Order
  <1>6. QueueOrder'
    BY <1>2 DEF QueueOrder, SameThread, IInv, Order
  <1>7. WireBehindQueue'
    BY <1>1, <1>2 DEF WireBehindQueue, SameThread, IInv, Order
  <1>8. WireBehindServed'
    <2> SUFFICES ASSUME NEW i \in DOMAIN wire, NEW k \in DOMAIN ctl',
                        Serves(k)', SameThread(wire[i], ctl[k].m)'
                 PROVE  wire[i] < ctl'[k].m
      BY DEF WireBehindServed
    <2>1. PICK j \in DOMAIN ctl : Serves(j) /\ ctl[j].m = ctl'[k].m
      BY <1>4
    <2>2. SameThread(wire[i], ctl[j].m)
      BY <1>1, <1>3, <2>1 DEF SameThread, Serves
    <2> QED
      BY <2>1, <2>2 DEF WireBehindServed, IInv, Order
  <1>9. ThreadOrder'
    BY <1>1 DEF ThreadOrder, IInv, Order
  <1> QED
    BY <1>5, <1>6, <1>7, <1>8, <1>9

(* A step that moves calls on the stack only, and the walk at most ahead. *)
LEMMA StackStep ==
  ASSUME IInv, UNCHANGED <<next, sender, waiting, queue, wire>>,
         MutexHeld', WalkOnce',
         Settled \subseteq Settled', Begun' \subseteq Begun,
         \A k \in DOMAIN ctl' :
           ctl'[k].op \in MessageOps =>
             \E j \in DOMAIN ctl :
               /\ ctl[j].op \in MessageOps /\ ctl[j].m = ctl'[k].m
               /\ j + 1 \in DOMAIN ctl => k + 1 \in DOMAIN ctl' /\ ctl'[k + 1] = ctl[j + 1],
         \A j \in DOMAIN queue : Passed(j) => Passed(j)',
         \A j \in DOMAIN queue : Passed(j)' => queue[j] \in Settled'
  PROVE  Control' /\ Order'
  <1>1. PassedIsSettled'
    BY DEF PassedIsSettled
  <1>2. OnWire' = OnWire /\ Queued' = Queued
    BY DEF OnWire, Queued
  <1>3. Known'
    BY <1>2 DEF Known, IInv, Control
  <1>4. NothingLost'
    BY <1>2 DEF NothingLost, Settled, IInv, Control
  <1>5. WaitingIsLast'
    BY <1>2 DEF WaitingIsLast, IInv, Order
  <1>6. ServedFromQueue' /\ QueueOrder' /\ WireBehindQueue' /\ WireBehindServed' /\ ThreadOrder'
    BY OrderKept
  <1> QED
    BY <1>1, <1>3, <1>4, <1>5, <1>6 DEF Control, Order

(* The walk keeps its place among the calls when d calls are pushed above. *)
Moved(d) ==
  /\ \A k \in DOMAIN ctl : Walks(k) => k + d \in DOMAIN ctl' /\ ctl'[k + d] = ctl[k]
  /\ \A k \in DOMAIN ctl' : Walks(k)' => k - d \in DOMAIN ctl /\ ctl'[k] = ctl[k - d]

LEMMA WalkMoved ==
  ASSUME IInv, TypeOK', processing' = processing, NEW d \in Int, Moved(d)
  PROVE  WalkOnce' /\ \A j : Passed(j)' <=> Passed(j)
  <1>1. DOMAIN ctl \subseteq Int /\ DOMAIN ctl' \subseteq Int
    BY DEF IInv, TypeOK
  <1>2. WalkOnce'
    <2> SUFFICES ASSUME NEW k \in DOMAIN ctl', Walks(k)'
                 PROVE  processing /\ \A j \in DOMAIN ctl' : Walks(j)' => j = k
      BY DEF WalkOnce
    <2>1. k - d \in DOMAIN ctl /\ Walks(k - d)
      BY DEF Moved, Walks
    <2>2. ASSUME NEW j \in DOMAIN ctl', Walks(j)' PROVE j = k
      <3>1. j - d \in DOMAIN ctl /\ Walks(j - d)
        BY <2>2 DEF Moved, Walks
      <3>2. j - d = k - d
        BY <2>1, <3>1 DEF WalkOnce, IInv, Control
      <3> QED
        BY <1>1, <3>2
    <2> QED
      BY <2>1, <2>2 DEF WalkOnce, IInv, Control
  <1>3. ASSUME NEW j, Passed(j) PROVE Passed(j)'
    <2>1. PICK k \in DOMAIN ctl : ctl[k].op = "clear" \/ (ctl[k].op = "walk" /\ j < ctl[k].i)
      BY <1>3 DEF Passed
    <2>2. k + d \in DOMAIN ctl' /\ ctl'[k + d] = ctl[k]
      BY <2>1 DEF Moved, Walks
    <2> QED
      BY <2>1, <2>2 DEF Passed
  <1>4. ASSUME NEW j, Passed(j)' PROVE Passed(j)
    <2>1. PICK k \in DOMAIN ctl' : ctl'[k].op = "clear" \/ (ctl'[k].op = "walk" /\ j < ctl'[k].i)
      BY <1>4 DEF Passed
    <2>2. k - d \in DOMAIN ctl /\ ctl'[k] = ctl[k - d]
      BY <2>1 DEF Moved, Walks
    <2> QED
      BY <2>1, <2>2 DEF Passed
  <1> QED
    BY <1>2, <1>3, <1>4

(* A call on top of the stack is replaced by nothing, one call or two. *)
LEMMA TopCall ==
  ASSUME IInv, NEW op, At(op)
  PROVE  /\ TypeOK /\ ctl # <<>> /\ 1 \in DOMAIN ctl /\ Top = ctl[1] /\ Top \in Calls
         /\ Top.op = op
         /\ op \in MessageOps => Top.m \in Messages /\ Top.m \in Begun
         /\ op = "walk" => Top.i \in Nat \ {0}
  <1>1. TypeOK /\ ctl # <<>> /\ 1 \in DOMAIN ctl /\ Top = ctl[1] /\ Top \in Calls
    BY DEF IInv, TypeOK, At, Top
  <1>2. Top.op = op
    BY <1>1 DEF At, Top
  <1>3. op \in MessageOps => Top.m \in Messages /\ Top.m \in Begun
    BY <1>1, <1>2, CallTypes, Members
  <1>4. op = "walk" => Top.i \in Nat \ {0}
    BY <1>1, <1>2, CallTypes
  <1> QED
    BY <1>1, <1>2, <1>3, <1>4

LEMMA PopStep ==
  ASSUME IInv, TypeOK', ctl # <<>>, Continue(<<>>), ~ Walks(1),
         UNCHANGED <<next, sender, waiting, queue, mutex, processing, wire>>,
         dropped \subseteq dropped', ctl[1].op \in MessageOps => ctl[1].m \in dropped'
  PROVE  Control' /\ Order'
  <1>1. /\ TypeOK
        /\ \A k \in DOMAIN ctl' : k + 1 \in DOMAIN ctl /\ ctl'[k] = ctl[k + 1]
        /\ \A k \in DOMAIN ctl : k # 1 => k - 1 \in DOMAIN ctl' /\ ctl'[k - 1] = ctl[k]
    BY Popped DEF IInv
  <1>2. DOMAIN ctl \subseteq Int /\ DOMAIN ctl' \subseteq Int
    BY <1>1 DEF TypeOK
  <1>3. Moved(-1)
    <2>1. \A k \in DOMAIN ctl : Walks(k) => k + (-1) \in DOMAIN ctl' /\ ctl'[k + (-1)] = ctl[k]
      BY <1>1, <1>2
    <2>2. \A k \in DOMAIN ctl' : k - (-1) \in DOMAIN ctl /\ ctl'[k] = ctl[k - (-1)]
      BY <1>1, <1>2
    <2> QED
      BY <2>1, <2>2 DEF Moved
  <1>4. WalkOnce' /\ \A j : Passed(j)' <=> Passed(j)
    BY <1>3, WalkMoved
  <1>5. MutexHeld'
    BY DEF MutexHeld, IInv, Control
  <1>6. \A k \in DOMAIN ctl' :
          ctl'[k].op \in MessageOps =>
             \E j \in DOMAIN ctl :
               /\ ctl[j].op \in MessageOps /\ ctl[j].m = ctl'[k].m
               /\ j + 1 \in DOMAIN ctl => k + 1 \in DOMAIN ctl' /\ ctl'[k + 1] = ctl[j + 1]
    <2> SUFFICES ASSUME NEW k \in DOMAIN ctl', ctl'[k].op \in MessageOps
                 PROVE  /\ k + 1 \in DOMAIN ctl
                        /\ ctl[k + 1].op \in MessageOps /\ ctl[k + 1].m = ctl'[k].m
                        /\ k + 1 + 1 \in DOMAIN ctl =>
                             k + 1 \in DOMAIN ctl' /\ ctl'[k + 1] = ctl[k + 1 + 1]
      OBVIOUS
    <2>1. k + 1 + 1 # 1 /\ k + 1 + 1 - 1 = k + 1
      BY <1>1, <1>2 DEF TypeOK
    <2>2. k + 1 \in DOMAIN ctl /\ ctl'[k] = ctl[k + 1]
      BY <1>1
    <2>3. ASSUME k + 1 + 1 \in DOMAIN ctl
          PROVE  k + 1 \in DOMAIN ctl' /\ ctl'[k + 1] = ctl[k + 1 + 1]
      <3>1. k + 1 + 1 - 1 \in DOMAIN ctl' /\ ctl'[k + 1 + 1 - 1] = ctl[k + 1 + 1]
        BY <1>1, <2>1, <2>3
      <3> QED
        BY <2>1, <3>1
    <2> QED
      BY <2>2, <2>3
  <1>7. Begun' \subseteq Begun
    BY <1>6, Members, MembersNext
  <1>8. Settled \subseteq Settled'
    <2>1. OnWire' = OnWire
      BY DEF OnWire
    <2>2. ASSUME NEW m \in Begun PROVE m \in Begun' \cup dropped'
      <3>1. PICK k \in DOMAIN ctl : ctl[k].op \in MessageOps /\ ctl[k].m = m
        BY <2>2, Members
      <3>2. CASE k = 1
        BY <3>1, <3>2
      <3>3. CASE k # 1
        BY <1>1, <3>1, <3>3, MembersNext
      <3> QED
        BY <3>2, <3>3
    <2> QED
      BY <2>1, <2>2 DEF Settled, Done
  <1>9. \A j \in DOMAIN queue : Passed(j)' => queue[j] \in Settled'
    BY <1>4, <1>8 DEF PassedIsSettled, IInv, Control
  <1> QED
    BY <1>4, <1>5, <1>6, <1>7, <1>8, <1>9, StackStep

LEMMA ExchangeStep ==
  ASSUME IInv, TypeOK', ctl # <<>>, NEW c \in Calls, Continue(<<c>>),
         UNCHANGED <<next, sender, waiting, queue, wire>>, dropped \subseteq dropped',
         MutexHeld', WalkOnce',
         c.op \in MessageOps <=> ctl[1].op \in MessageOps,
         c.op \in MessageOps => c.m = ctl[1].m,
         \A j \in DOMAIN queue : Passed(j)' <=> Passed(j)
  PROVE  Control' /\ Order'
  <1>1. /\ TypeOK /\ DOMAIN ctl' = DOMAIN ctl /\ 1 \in DOMAIN ctl /\ ctl'[1] = c
        /\ \A k \in DOMAIN ctl : k # 1 => ctl'[k] = ctl[k]
    BY Exchanged DEF IInv
  <1>2. \A k \in DOMAIN ctl' :
          ctl'[k].op \in MessageOps =>
             \E j \in DOMAIN ctl :
               /\ ctl[j].op \in MessageOps /\ ctl[j].m = ctl'[k].m
               /\ j + 1 \in DOMAIN ctl => k + 1 \in DOMAIN ctl' /\ ctl'[k + 1] = ctl[j + 1]
    <2> SUFFICES ASSUME NEW k \in DOMAIN ctl', ctl'[k].op \in MessageOps
                 PROVE  /\ k \in DOMAIN ctl
                        /\ ctl[k].op \in MessageOps /\ ctl[k].m = ctl'[k].m
                        /\ k + 1 \in DOMAIN ctl =>
                             k + 1 \in DOMAIN ctl' /\ ctl'[k + 1] = ctl[k + 1]
      OBVIOUS
    <2>1. k + 1 # 1
      BY <1>1 DEF TypeOK
    <2> QED
      BY <1>1, <2>1
  <1>3. Begun' = Begun
    <2>1. Begun' \subseteq Begun
      BY <1>2, Members, MembersNext
    <2>2. ASSUME NEW m \in Begun PROVE m \in Begun'
      <3>1. PICK k \in DOMAIN ctl : ctl[k].op \in MessageOps /\ ctl[k].m = m
        BY <2>2, Members
      <3>2. ctl'[k].op \in MessageOps /\ ctl'[k].m = m
        BY <1>1, <3>1
      <3> QED
        BY <1>1, <3>1, <3>2, MembersNext
    <2> QED
      BY <2>1, <2>2
  <1>4. Settled \subseteq Settled'
    BY <1>3 DEF Settled, Done, OnWire
  <1>5. \A j \in DOMAIN queue : Passed(j)' => queue[j] \in Settled'
    BY <1>4 DEF PassedIsSettled, IInv, Control
  <1> QED
    BY <1>2, <1>3, <1>4, <1>5, StackStep

----------------------------------------------------------------------------
(* The steps of the main thread *)
LEMMA HookStep ==
  ASSUME IInv, TypeOK', MainHook
  PROVE  Control' /\ Order'
  <1>1. /\ TypeOK /\ ctl # <<>> /\ 1 \in DOMAIN ctl /\ Top = ctl[1] /\ Top.op = "hook"
        /\ Top.m \in Messages
    BY TopCall DEF MainHook, MessageOps
  <1>2. Process \in Calls /\ Handlers(Top.m) \in Calls
    BY <1>1, OpsTypes
  <1>3. MutexHeld'
    BY DEF MainHook, MutexHeld, IInv, Control
  <1>4. CASE processing
    <2>1. Continue(<<Handlers(Top.m)>>)
      BY <1>4 DEF MainHook, HookOps
    <2>2. /\ DOMAIN ctl' = DOMAIN ctl /\ ctl'[1] = Handlers(Top.m)
          /\ \A k \in DOMAIN ctl : k # 1 => ctl'[k] = ctl[k]
      BY <1>1, <1>2, <2>1, Exchanged
    <2>3. \A k \in DOMAIN ctl : Walks(k) \/ Walks(k)' => k # 1 /\ k + 0 = k /\ k - 0 = k
      BY <1>1, <2>2 DEF Walks, Handlers, TypeOK
    <2>4. Moved(0)
      BY <2>2, <2>3 DEF Moved
    <2>5. WalkOnce' /\ \A j : Passed(j)' <=> Passed(j)
      BY <2>4, WalkMoved DEF MainHook
    <2>6. \A c : c = Handlers(Top.m) => c.op \in MessageOps /\ c.m = ctl[1].m
      BY <1>1 DEF Handlers, MessageOps
    <2>7. ctl[1].op \in MessageOps
      BY <1>1 DEF MessageOps
    <2> QED
      BY <1>1, <1>2, <1>3, <2>1, <2>5, <2>6, <2>7, ExchangeStep DEF MainHook
  <1>5. CASE ~ processing
    <2>1. Continue(<<Process, Handlers(Top.m)>>)
      BY <1>5 DEF MainHook, HookOps
    <2>2. /\ DOMAIN ctl' = 1 .. Len(ctl) + 1
          /\ ctl'[1] = Process /\ ctl'[2] = Handlers(Top.m)
          /\ \A k \in DOMAIN ctl : k # 1 => ctl'[k + 1] = ctl[k]
          /\ \A k \in DOMAIN ctl' : k = 1 \/ k = 2 \/ (k - 1 \in DOMAIN ctl /\ ctl'[k] = ctl[k - 1])
      BY <1>1, <1>2, <2>1, SplitInTwo
    <2>3. \A k \in DOMAIN ctl : k \in Int /\ k + 1 \in DOMAIN ctl'
      BY <1>1, <2>2 DEF TypeOK
    <2>4. ~ Walks(1) /\ ~ Walks(1)' /\ ~ Walks(2)'
      BY <1>1, <2>2 DEF Walks, Process, Handlers
    <2>5. Moved(1)
      BY <2>2, <2>3, <2>4 DEF Moved
    <2>6. WalkOnce' /\ \A j : Passed(j)' <=> Passed(j)
      BY <2>5, WalkMoved DEF MainHook
    <2>7. \A k \in DOMAIN ctl' :
            ctl'[k].op \in MessageOps =>
               \E j \in DOMAIN ctl :
                 /\ ctl[j].op \in MessageOps /\ ctl[j].m = ctl'[k].m
                 /\ j + 1 \in DOMAIN ctl => k + 1 \in DOMAIN ctl' /\ ctl'[k + 1] = ctl[j + 1]
      <3> SUFFICES ASSUME NEW k \in DOMAIN ctl', ctl'[k].op \in MessageOps
                   PROVE  /\ k - 1 \in DOMAIN ctl
                          /\ ctl[k - 1].op \in MessageOps /\ ctl[k - 1].m = ctl'[k].m
                          /\ k - 1 + 1 \in DOMAIN ctl =>
                               k + 1 \in DOMAIN ctl' /\ ctl'[k + 1] = ctl[k - 1 + 1]
        OBVIOUS
      <3>1. k # 1
        BY <2>2 DEF Process, MessageOps
      <3>2. k - 1 + 1 = k
        BY <2>2
      <3>3. k \in DOMAIN ctl => k + 1 \in DOMAIN ctl' /\ ctl'[k + 1] = ctl[k]
        BY <2>2, <2>3, <3>1
      <3>4. CASE k = 2
        <4>1. k - 1 = 1 /\ ctl'[k].m = ctl[1].m /\ ctl[1].op \in MessageOps
          BY <1>1, <2>2, <3>4 DEF Handlers, MessageOps
        <4> QED
          BY <1>1, <3>2, <3>3, <4>1
      <3>5. CASE k # 2
        BY <2>2, <3>1, <3>2, <3>3, <3>5
      <3> QED
        BY <3>4, <3>5
    <2>8. Begun' \subseteq Begun
      BY <2>7, Members, MembersNext
    <2>9. Settled \subseteq Settled'
      <3>1. OnWire' = OnWire /\ dropped' = dropped
        BY DEF OnWire, MainHook
      <3>2. ASSUME NEW m \in Begun PROVE m \in Begun'
        <4>1. PICK k \in DOMAIN ctl : ctl[k].op \in MessageOps /\ ctl[k].m = m
          BY <3>2, Members
        <4>2. CASE k = 1
          <5>1. 2 \in DOMAIN ctl' /\ ctl'[2].op \in MessageOps /\ ctl'[2].m = m
            BY <1>1, <2>2, <2>3, <4>1, <4>2 DEF Handlers, MessageOps
          <5> QED
            BY <5>1, MembersNext
        <4>3. CASE k # 1
          <5>1. k + 1 \in DOMAIN ctl' /\ ctl'[k + 1] = ctl[k]
            BY <2>2, <2>3, <4>3
          <5> QED
            BY <4>1, <5>1, MembersNext
        <4> QED
          BY <4>2, <4>3
      <3> QED
        BY <3>1, <3>2 DEF Settled, Done
    <2>10. \A j \in DOMAIN queue : Passed(j)' => queue[j] \in Settled'
      BY <2>6, <2>9 DEF PassedIsSettled, IInv, Control
    <2> QED
      BY <1>3, <2>6, <2>7, <2>8, <2>9, <2>10, StackStep DEF MainHook
  <1> QED
    BY <1>4, <1>5

LEMMA HandlersStep ==
  ASSUME IInv, TypeOK', HandlersDone
  PROVE  Control' /\ Order'
  <1>1. /\ TypeOK /\ ctl # <<>> /\ 1 \in DOMAIN ctl /\ Top = ctl[1] /\ Top.op = "handlers"
        /\ Top.m \in Messages
    BY TopCall DEF HandlersDone, MessageOps
  <1>2. CASE Continue(<<Put(Top.m)>>) /\ UNCHANGED dropped
    <2>1. Put(Top.m) \in Calls
      BY <1>1, OpsTypes
    <2>2. /\ DOMAIN ctl' = DOMAIN ctl /\ ctl'[1] = Put(Top.m)
          /\ \A k \in DOMAIN ctl : k # 1 => ctl'[k] = ctl[k]
      BY <1>1, <1>2, <2>1, Exchanged
    <2>3. \A k \in DOMAIN ctl : Walks(k) \/ Walks(k)' => k # 1 /\ k + 0 = k /\ k - 0 = k
      BY <1>1, <2>2 DEF Walks, Put, TypeOK
    <2>4. Moved(0)
      BY <2>2, <2>3 DEF Moved
    <2>5. WalkOnce' /\ \A j : Passed(j)' <=> Passed(j)
      BY <2>4, WalkMoved DEF HandlersDone
    <2>6. \A c : c = Put(Top.m) => c.op \in MessageOps /\ c.m = ctl[1].m
      BY <1>1 DEF Put, MessageOps
    <2>7. ctl[1].op \in MessageOps
      BY <1>1 DEF MessageOps
    <2>8. MutexHeld'
      BY DEF HandlersDone, MutexHeld, IInv, Control
    <2> QED
      BY <1>1, <1>2, <2>1, <2>5, <2>6, <2>7, <2>8, ExchangeStep DEF HandlersDone
  <1>3. CASE Continue(<<>>) /\ dropped' = dropped \cup {Top.m}
    <2>1. ~ Walks(1)
      BY <1>1 DEF Walks
    <2> QED
      BY <1>1, <1>3, <2>1, PopStep DEF HandlersDone
  <1> QED
    BY <1>2, <1>3 DEF HandlersDone

LEMMA BeginStep ==
  ASSUME IInv, TypeOK', BeginProcess
  PROVE  Control' /\ Order'
  <1>1. /\ TypeOK /\ ctl # <<>> /\ 1 \in DOMAIN ctl /\ Top = ctl[1] /\ Top.op = "process"
    BY TopCall DEF BeginProcess
  <1>2. CASE processing /\ Continue(<<>>) /\ UNCHANGED <<mutex, processing>>
    <2>1. ~ Walks(1) /\ ctl[1].op \notin MessageOps
      BY <1>1 DEF Walks, MessageOps
    <2> QED
      BY <1>1, <1>2, <2>1, PopStep DEF BeginProcess
  <1>3. CASE ~ processing /\ mutex' = Main /\ processing' = TRUE /\ Continue(<<Walk(1)>>)
    <2>1. Walk(1) \in Calls /\ Walk(1).op = "walk" /\ Walk(1).i = 1
      BY OpsTypes DEF Walk
    <2>2. /\ DOMAIN ctl' = DOMAIN ctl /\ ctl'[1] = Walk(1)
          /\ \A k \in DOMAIN ctl : k # 1 => ctl'[k] = ctl[k]
      BY <1>1, <1>3, <2>1, Exchanged
    <2>3. \A k \in DOMAIN ctl : ~ Walks(k)
      BY <1>3 DEF WalkOnce, IInv, Control
    <2>4. \A k \in DOMAIN ctl' : Walks(k)' => k = 1
      BY <2>2, <2>3 DEF Walks
    <2>5. WalkOnce'
      BY <1>3, <2>4 DEF WalkOnce
    <2>6. \A j : ~ Passed(j)
      BY <2>3 DEF Passed, Walks
    <2>7. ASSUME NEW j \in DOMAIN queue PROVE ~ Passed(j)'
      <3>1. ~ (j < 1)
        BY <1>1 DEF TypeOK
      <3> QED
        BY <2>1, <2>2, <2>4, <3>1 DEF Passed, Walks
    <2>8. MutexHeld'
      BY <1>3 DEF MutexHeld
    <2>9. Walk(1).op \notin MessageOps /\ ctl[1].op \notin MessageOps
      BY <1>1, <2>1 DEF MessageOps
    <2> QED
      BY <1>1, <1>3, <2>1, <2>5, <2>6, <2>7, <2>8, <2>9, ExchangeStep DEF BeginProcess
  <1> QED
    BY <1>2, <1>3 DEF BeginProcess

LEMMA EndWalkStep ==
  ASSUME IInv, TypeOK', EndWalk
  PROVE  Control' /\ Order'
  <1>1. /\ TypeOK /\ ctl # <<>> /\ 1 \in DOMAIN ctl /\ Top = ctl[1] /\ Top.op = "walk"
        /\ Top.i \in Nat \ {0} /\ Top.i > Len(queue) /\ Continue(<<Clear>>)
    BY TopCall DEF EndWalk
  <1>2. Clear \in Calls /\ Clear.op = "clear"
    BY OpsTypes DEF Clear
  <1>3. /\ DOMAIN ctl' = DOMAIN ctl /\ ctl'[1] = Clear
        /\ \A k \in DOMAIN ctl : k # 1 => ctl'[k] = ctl[k]
    BY <1>1, <1>2, Exchanged
  <1>4. processing /\ \A k \in DOMAIN ctl : Walks(k) => k = 1
    BY <1>1 DEF WalkOnce, Walks, IInv, Control
  <1>5. WalkOnce'
    <2>1. \A k \in DOMAIN ctl' : Walks(k)' => k = 1
      BY <1>3, <1>4 DEF Walks
    <2> QED
      BY <1>4, <2>1 DEF WalkOnce, EndWalk
  <1>6. ASSUME NEW j \in DOMAIN queue PROVE Passed(j) /\ Passed(j)'
    <2>1. j < Top.i
      BY <1>1 DEF TypeOK
    <2> QED
      BY <1>1, <1>2, <1>3, <2>1 DEF Passed
  <1>7. MutexHeld'
    BY DEF EndWalk, MutexHeld, IInv, Control
  <1>8. Clear.op \notin MessageOps /\ ctl[1].op \notin MessageOps
    BY <1>1, <1>2 DEF MessageOps
  <1> QED
    BY <1>1, <1>2, <1>5, <1>6, <1>7, <1>8, ExchangeStep DEF EndWalk

LEMMA EndStep ==
  ASSUME IInv, TypeOK', EndProcess
  PROVE  Control' /\ Order'
  <1>1. /\ TypeOK /\ ctl # <<>> /\ 1 \in DOMAIN ctl /\ Top = ctl[1] /\ Top.op = "clear"
        /\ Continue(<<>>)
    BY TopCall DEF EndProcess
  <1>2. /\ \A k \in DOMAIN ctl' : k + 1 \in DOMAIN ctl /\ ctl'[k] = ctl[k + 1]
        /\ \A k \in DOMAIN ctl : k # 1 => k - 1 \in DOMAIN ctl' /\ ctl'[k - 1] = ctl[k]
    BY <1>1, Popped
  <1>3. \A k \in DOMAIN ctl : Walks(k) => k = 1
    BY <1>1 DEF WalkOnce, Walks, IInv, Control
  <1>4. \A k \in DOMAIN ctl' : ~ Walks(k)'
    <2> SUFFICES ASSUME NEW k \in DOMAIN ctl', Walks(k)' PROVE FALSE
      OBVIOUS
    <2>1. k + 1 \in DOMAIN ctl /\ Walks(k + 1) /\ k \in 1 .. Len(ctl')
      BY <1>2 DEF Walks, TypeOK
    <2> QED
      BY <1>3, <2>1 DEF TypeOK
  <1>5. \A k \in DOMAIN ctl' : ~ Serves(k)'
    <2> SUFFICES ASSUME NEW k \in DOMAIN ctl', Serves(k)' PROVE FALSE
      OBVIOUS
    <2>1. k + 1 \in DOMAIN ctl /\ Serves(k + 1) /\ k \in 1 .. Len(ctl')
      BY <1>2 DEF Serves, EndProcess, TypeOK
    <2>2. k + 1 + 1 \in DOMAIN ctl /\ Walks(k + 1 + 1)
      BY <2>1 DEF ServedFromQueue, Walks, IInv, Order
    <2> QED
      BY <1>3, <2>1, <2>2 DEF TypeOK
  <1>6. Queued' = {} /\ OnWire' = OnWire
    BY DEF Queued, OnWire, EndProcess
  <1>7. Begun' = Begun
    <2>1. ASSUME NEW m \in Begun PROVE m \in Begun'
      <3>1. PICK k \in DOMAIN ctl : ctl[k].op \in MessageOps /\ ctl[k].m = m
        BY <2>1, Members
      <3>2. k # 1
        BY <1>1, <3>1 DEF MessageOps
      <3> QED
        BY <1>2, <3>1, <3>2, MembersNext
    <2>2. ASSUME NEW m \in Begun' PROVE m \in Begun
      <3>1. PICK k \in DOMAIN ctl' : ctl'[k].op \in MessageOps /\ ctl'[k].m = m
        BY <2>2, MembersNext
      <3> QED
        BY <1>2, <3>1, Members
    <2> QED
      BY <2>1, <2>2
  <1>8. NothingLost'
    <2>1. \A j \in DOMAIN queue : Passed(j)
      BY <1>1 DEF Passed
    <2>2. Queued \subseteq Done \cup Begun
      BY <2>1, Members DEF PassedIsSettled, Settled, IInv, Control
    <2>3. Done' = Done
      BY <1>6 DEF Done, EndProcess
    <2> QED
      BY <1>7, <2>2, <2>3 DEF NothingLost, EndProcess, IInv, Control
  <1>9. MutexHeld' /\ WalkOnce' /\ PassedIsSettled'
    BY <1>4 DEF EndProcess, MutexHeld, WalkOnce, PassedIsSettled
  <1>10. Known'
    BY <1>6, <1>7 DEF Known, EndProcess, IInv, Control
  <1>11. ServedFromQueue' /\ QueueOrder' /\ WireBehindQueue' /\ WireBehindServed'
    BY <1>5 DEF ServedFromQueue, QueueOrder, WireBehindQueue, WireBehindServed, EndProcess
  <1>12. WaitingIsLast'
    BY <1>6 DEF WaitingIsLast, EndProcess, IInv, Order
  <1>13. ThreadOrder'
    BY DEF ThreadOrder, EndProcess, IInv, Order
  <1> QED
    BY <1>8, <1>9, <1>10, <1>11, <1>12, <1>13 DEF Control, Order

LEMMA FrameStep ==
  ASSUME IInv, TypeOK', Frame
  PROVE  Control' /\ Order'
  <1>1. TypeOK /\ Process \in Calls /\ ctl = <<>> /\ ctl' = <<Process>>
    BY OpsTypes DEF Frame, IInv
  <1>2. DOMAIN ctl = {} /\ DOMAIN ctl' = {1} /\ ctl'[1] = Process
    BY <1>1
  <1>3. \A k \in DOMAIN ctl' : ~ Walks(k)' /\ ctl'[k].op \notin MessageOps
    BY <1>2 DEF Walks, Process, MessageOps
  <1>4. MutexHeld' /\ WalkOnce'
    BY <1>3 DEF Frame, MutexHeld, WalkOnce, IInv, Control
  <1>5. \A j : ~ Passed(j) /\ ~ Passed(j)'
    BY <1>2, <1>3 DEF Passed, Walks
  <1>6. Begun' \subseteq Begun /\ Begun = {}
    BY <1>2, <1>3, Members, MembersNext
  <1>7. Settled \subseteq Settled'
    BY <1>6 DEF Settled, Done, OnWire, Frame
  <1> QED
    BY <1>3, <1>4, <1>5, <1>6, <1>7, StackStep DEF Frame

LEMMA WalkStep ==
  ASSUME IInv, TypeOK', WalkQueue
  PROVE  Control' /\ Order'
  <1> DEFINE p == Top.i
  <1>1. /\ TypeOK /\ ctl # <<>> /\ 1 \in DOMAIN ctl /\ Top = ctl[1] /\ ctl[1].op = "walk"
        /\ p \in Nat \ {0} /\ p \in DOMAIN queue /\ queue[p] \in Messages /\ ctl[1].i = p
    <2>1. /\ TypeOK /\ ctl # <<>> /\ 1 \in DOMAIN ctl /\ Top = ctl[1] /\ ctl[1].op = "walk"
          /\ p \in Nat \ {0} /\ p <= Len(queue)
      BY TopCall DEF WalkQueue
    <2> QED
      BY <2>1 DEF TypeOK
  <1>2. Continue(<<Hook(queue[p]), Walk(p + 1)>>)
    BY DEF WalkQueue
  <1> HIDE DEF p
  <1>3. Hook(queue[p]) \in Calls /\ Walk(p + 1) \in Calls
    BY <1>1, OpsTypes
  <1>4. /\ DOMAIN ctl' = 1 .. Len(ctl) + 1
        /\ ctl'[1] = Hook(queue[p]) /\ ctl'[2] = Walk(p + 1)
        /\ \A k \in DOMAIN ctl : k # 1 => ctl'[k + 1] = ctl[k]
        /\ \A k \in DOMAIN ctl' : k = 1 \/ k = 2 \/ (k - 1 \in DOMAIN ctl /\ ctl'[k] = ctl[k - 1])
    BY <1>1, <1>2, <1>3, SplitInTwo
  <1>5. /\ \A k \in DOMAIN ctl : k \in Int /\ k + 1 \in DOMAIN ctl'
        /\ DOMAIN ctl' \subseteq Int
        /\ 1 \in DOMAIN ctl' /\ 2 \in DOMAIN ctl'
    BY <1>1, <1>4 DEF TypeOK
  <1>6. processing /\ \A k \in DOMAIN ctl : Walks(k) => k = 1
    BY <1>1 DEF WalkOnce, Walks, IInv, Control
  <1>7. /\ ctl'[1].op = "hook" /\ ctl'[1].m = queue[p]
        /\ ctl'[2].op = "walk" /\ ctl'[2].i = p + 1
    BY <1>4 DEF Hook, Walk
  <1>8. \A k \in DOMAIN ctl' : Walks(k)' => k = 2
    <2> SUFFICES ASSUME NEW k \in DOMAIN ctl', Walks(k)', k # 2 PROVE FALSE
      OBVIOUS
    <2>1. k # 1
      BY <1>7 DEF Walks
    <2>2. k - 1 \in DOMAIN ctl /\ Walks(k - 1) /\ k - 1 # 1
      BY <1>4, <1>5, <2>1 DEF Walks
    <2> QED
      BY <1>6, <2>2
  <1>9. UNCHANGED <<next, sender, waiting, queue, mutex, processing, wire, dropped>>
    BY DEF WalkQueue
  <1>10. MutexHeld' /\ WalkOnce'
    BY <1>6, <1>8, <1>9 DEF MutexHeld, WalkOnce, IInv, Control
  <1>11. \A j \in DOMAIN queue : /\ Passed(j) <=> j < p
                                 /\ Passed(j)' <=> j < p \/ j = p
    <2>1. \A j \in DOMAIN queue : j \in Int /\ (j < p + 1 <=> j < p \/ j = p)
      BY <1>1 DEF TypeOK
    <2>2. \A j : Passed(j) <=> j < p
      BY <1>1, <1>6 DEF Passed, Walks
    <2>3. \A j : Passed(j)' <=> j < p + 1
      BY <1>5, <1>7, <1>8 DEF Passed, Walks
    <2> QED
      BY <2>1, <2>2, <2>3
  <1>12. OnWire' = OnWire /\ Queued' = Queued
    BY <1>9 DEF OnWire, Queued
  <1>13. Begun' = Begun \cup {queue[p]}
    <2>1. ASSUME NEW m \in Begun PROVE m \in Begun'
      <3>1. PICK k \in DOMAIN ctl : ctl[k].op \in MessageOps /\ ctl[k].m = m
        BY <2>1, Members
      <3>2. k # 1
        BY <1>1, <3>1 DEF MessageOps
      <3>3. ctl'[k + 1] = ctl[k] /\ k + 1 \in DOMAIN ctl'
        BY <1>4, <1>5, <3>2
      <3> QED
        BY <3>1, <3>3, MembersNext
    <2>2. queue[p] \in Begun'
      BY <1>5, <1>7, MembersNext DEF MessageOps
    <2>3. ASSUME NEW m \in Begun' PROVE m \in Begun \cup {queue[p]}
      <3>1. PICK k \in DOMAIN ctl' : ctl'[k].op \in MessageOps /\ ctl'[k].m = m
        BY <2>3, MembersNext
      <3>2. CASE k = 1
        BY <1>7, <3>1, <3>2
      <3>3. CASE k # 1
        <4>1. k # 2
          BY <1>7, <3>1 DEF MessageOps
        <4>2. k - 1 \in DOMAIN ctl /\ ctl'[k] = ctl[k - 1]
          BY <1>4, <3>3, <4>1
        <4> QED
          BY <3>1, <4>2, Members
      <3> QED
        BY <3>2, <3>3
    <2> QED
      BY <2>1, <2>2, <2>3
  <1>14. PassedIsSettled'
    BY <1>9, <1>11, <1>12, <1>13 DEF PassedIsSettled, Settled, Done, IInv, Control
  <1>15. Known'
    <2>1. queue[p] \in Queued
      BY <1>1, Members
    <2> QED
      BY <1>9, <1>12, <1>13, <2>1 DEF Known, IInv, Control
  <1>16. NothingLost'
    BY <1>9, <1>12, <1>13 DEF NothingLost, Done, IInv, Control
  <1>17. WaitingIsLast'
    BY <1>9, <1>12 DEF WaitingIsLast, IInv, Order
  <1>18. QueueOrder' /\ ThreadOrder'
    BY <1>9 DEF QueueOrder, SameThread, ThreadOrder, IInv, Order
  <1>19. WireBehindQueue'
    BY <1>9, <1>11 DEF WireBehindQueue, SameThread, IInv, Order
  <1>20. \A k \in DOMAIN ctl' : Serves(k)' => k = 1
    <2> SUFFICES ASSUME NEW k \in DOMAIN ctl', Serves(k)', k # 1 PROVE FALSE
      OBVIOUS
    <2>1. k # 2
      BY <1>7 DEF Serves, MessageOps
    <2>2. k - 1 \in DOMAIN ctl /\ ctl'[k] = ctl[k - 1] /\ k \in Int /\ k - 1 # 0
      BY <1>4, <1>5, <2>1
    <2>3. Serves(k - 1)
      BY <1>9, <2>2 DEF Serves
    <2>4. k - 1 + 1 \in DOMAIN ctl /\ Walks(k - 1 + 1)
      BY <2>3, <2>2 DEF ServedFromQueue, Walks, IInv, Order
    <2> QED
      BY <1>6, <2>2, <2>4
  <1>21. ServedFromQueue'
    <2>1. p + 1 - 1 = p /\ 1 + 1 = 2
      BY <1>1
    <2> QED
      BY <1>1, <1>5, <1>7, <1>9, <1>20, <2>1 DEF ServedFromQueue
  <1>22. WireBehindServed'
    <2> SUFFICES ASSUME NEW i \in DOMAIN wire, SameThread(wire[i], queue[p])
                 PROVE  wire[i] < queue[p]
      BY <1>7, <1>9, <1>20 DEF WireBehindServed, SameThread
    <2>1. ~ Passed(p)
      BY <1>1, <1>11
    <2> QED
      BY <1>1, <2>1 DEF WireBehindQueue, IInv, Order
  <1> QED
    BY <1>10, <1>14, <1>15, <1>16, <1>17, <1>18, <1>19, <1>21, <1>22 DEF Control, Order

LEMMA PutStep ==
  ASSUME IInv, TypeOK', PutOnWire
  PROVE  Control' /\ Order'
  <1> DEFINE p == Top.m
             n == Len(wire) + 1
  <1>1. /\ TypeOK /\ ctl # <<>> /\ 1 \in DOMAIN ctl /\ Top = ctl[1] /\ Top.op = "put"
        /\ p \in Messages /\ p \in Begun /\ ctl[1].m = p
    BY TopCall DEF PutOnWire, MessageOps
  <1>2. Continue(<<>>) /\ wire' = Append(wire, p)
    BY DEF PutOnWire
  <1>3. UNCHANGED <<next, sender, waiting, queue, mutex, processing, dropped>>
    BY DEF PutOnWire
  <1> HIDE DEF p
  <1>4. /\ DOMAIN wire = 1 .. Len(wire) /\ DOMAIN wire' = 1 .. n /\ Len(wire) \in Nat
        /\ wire'[n] = p /\ \A i \in DOMAIN wire : wire'[i] = wire[i] /\ i < n
        /\ \A i \in DOMAIN wire' : i \in DOMAIN wire \/ i = n
    BY <1>1, <1>2 DEF TypeOK
  <1> HIDE DEF n
  <1>5. /\ \A k \in DOMAIN ctl' : k + 1 \in DOMAIN ctl /\ ctl'[k] = ctl[k + 1]
        /\ \A k \in DOMAIN ctl : k # 1 => k - 1 \in DOMAIN ctl' /\ ctl'[k - 1] = ctl[k]
    BY <1>1, <1>2, Popped
  <1>6. /\ DOMAIN ctl \subseteq Int /\ DOMAIN ctl' \subseteq Int
        /\ \A k \in DOMAIN ctl' : k # 0
    BY <1>1 DEF TypeOK
  <1>7. Moved(-1)
    <2>1. ~ Walks(1)
      BY <1>1 DEF Walks
    <2>2. \A k \in DOMAIN ctl : Walks(k) => k + (-1) \in DOMAIN ctl' /\ ctl'[k + (-1)] = ctl[k]
      BY <1>5, <1>6, <2>1
    <2>3. \A k \in DOMAIN ctl' : k - (-1) \in DOMAIN ctl /\ ctl'[k] = ctl[k - (-1)]
      BY <1>5, <1>6
    <2> QED
      BY <2>2, <2>3 DEF Moved
  <1>8. WalkOnce' /\ \A j : Passed(j)' <=> Passed(j)
    BY <1>3, <1>7, WalkMoved
  <1>9. MutexHeld'
    BY <1>3 DEF MutexHeld, IInv, Control
  <1>10. OnWire' = OnWire \cup {p} /\ Queued' = Queued
    <2>1. \A m : m \in OnWire' <=> m \in OnWire \cup {p}
      <3>1. ASSUME NEW m \in OnWire' PROVE m \in OnWire \cup {p}
        BY <1>4, Members, MembersNext
      <3>2. ASSUME NEW m \in OnWire PROVE m \in OnWire'
        <4>1. PICK i \in DOMAIN wire : wire[i] = m
          BY <3>2, Members
        <4>2. i \in DOMAIN wire' /\ wire'[i] = m
          BY <1>4, <4>1 DEF n
        <4> QED
          BY <4>2, MembersNext
      <3>3. n \in DOMAIN wire'
        BY <1>4 DEF n
      <3> QED
        BY <1>4, <3>1, <3>2, <3>3, MembersNext
    <2> QED
      BY <2>1, <1>3 DEF Queued
  <1>11. Begun' \subseteq Begun /\ Begun \subseteq Begun' \cup {p}
    <2>1. ASSUME NEW m \in Begun' PROVE m \in Begun
      <3>1. PICK k \in DOMAIN ctl' : ctl'[k].op \in MessageOps /\ ctl'[k].m = m
        BY <2>1, MembersNext
      <3> QED
        BY <1>5, <3>1, Members
    <2>2. ASSUME NEW m \in Begun PROVE m \in Begun' \cup {p}
      <3>1. PICK k \in DOMAIN ctl : ctl[k].op \in MessageOps /\ ctl[k].m = m
        BY <2>2, Members
      <3>2. CASE k = 1
        BY <1>1, <3>1, <3>2
      <3>3. CASE k # 1
        BY <1>5, <3>1, <3>3, MembersNext
      <3> QED
        BY <3>2, <3>3
    <2> QED
      BY <2>1, <2>2
  <1>12. PassedIsSettled'
    BY <1>3, <1>8, <1>10, <1>11 DEF PassedIsSettled, Settled, Done, IInv, Control
  <1>13. Known'
    BY <1>1, <1>3, <1>10, <1>11 DEF Known, IInv, Control
  <1>14. NothingLost'
    BY <1>3, <1>10, <1>11 DEF NothingLost, Done, IInv, Control
  <1>15. sender[p] \in Others => p \in Queued /\ Serves(1)
    <2>1. sender[p] \in Others => Serves(1)
      BY <1>1 DEF Serves, MessageOps
    <2>2. Serves(1) => p \in Queued
      BY <1>1, Members DEF ServedFromQueue, IInv, Order
    <2> QED
      BY <2>1, <2>2
  <1>16. WaitingIsLast'
    BY <1>3, <1>10, <1>15 DEF WaitingIsLast, IInv, Order
  <1>17. QueueOrder'
    BY <1>3 DEF QueueOrder, SameThread, IInv, Order
  <1>18. \A k \in DOMAIN ctl' : Serves(k)' =>
           /\ k + 1 \in DOMAIN ctl /\ Serves(k + 1) /\ ctl'[k] = ctl[k + 1]
    BY <1>3, <1>5 DEF Serves
  <1>19. ServedFromQueue'
    <2> SUFFICES ASSUME NEW k \in DOMAIN ctl', Serves(k)'
                 PROVE  /\ k + 1 \in DOMAIN ctl'
                        /\ ctl'[k + 1].op = "walk"
                        /\ ctl'[k + 1].i - 1 \in DOMAIN queue
                        /\ ctl'[k].m = queue[ctl'[k + 1].i - 1]
      BY <1>3 DEF ServedFromQueue
    <2>1. /\ k + 1 + 1 \in DOMAIN ctl
          /\ ctl[k + 1 + 1].op = "walk"
          /\ ctl[k + 1 + 1].i - 1 \in DOMAIN queue
          /\ ctl[k + 1].m = queue[ctl[k + 1 + 1].i - 1]
      BY <1>18 DEF ServedFromQueue, IInv, Order
    <2>2. k \in Nat /\ k # 0
      BY DEF TypeOK
    <2>3. k + 1 \in DOMAIN ctl' /\ ctl'[k + 1] = ctl[k + 1 + 1]
      <3> DEFINE j == k + 1 + 1
      <3>1. j \in DOMAIN ctl /\ j # 1 /\ j - 1 = k + 1
        BY <2>1, <2>2
      <3> HIDE DEF j
      <3>2. j - 1 \in DOMAIN ctl' /\ ctl'[j - 1] = ctl[j]
        BY <1>5, <3>1
      <3> QED
        BY <3>1, <3>2 DEF j
    <2> QED
      BY <1>18, <2>1, <2>3
  <1>20. WireBehindQueue'
    <2> SUFFICES ASSUME NEW i \in DOMAIN wire', NEW j \in DOMAIN queue,
                        sender[wire'[i]] \in Others, sender[queue[j]] = sender[wire'[i]]
                 PROVE  wire'[i] < queue[j] \/ Passed(j)'
      BY <1>3 DEF WireBehindQueue, SameThread
    <2>1. CASE i \in DOMAIN wire
      BY <1>4, <1>8, <2>1 DEF WireBehindQueue, SameThread, IInv, Order
    <2>2. CASE i = n
      <3>1. Serves(1) /\ sender[p] \in Others /\ sender[queue[j]] = sender[p] /\ wire'[i] = p
        BY <1>4, <1>15, <2>2
      <3> DEFINE q == ctl[2].i - 1
      <3>2. 2 \in DOMAIN ctl /\ ctl[2].op = "walk" /\ q \in DOMAIN queue /\ p = queue[q]
        <4>1. 1 + 1 = 2
          OBVIOUS
        <4> QED
          BY <1>1, <3>1, <4>1 DEF ServedFromQueue, IInv, Order
      <3>3. q \in Nat /\ j \in Nat /\ ctl[2].i \in Nat
        <4>1. ctl[2] \in Calls
          BY <1>1, <3>2 DEF TypeOK
        <4>2. ctl[2].i \in Nat
          BY <3>2, <4>1, CallTypes
        <4> QED
          BY <1>1, <3>2, <4>2 DEF TypeOK
      <3>4. CASE j < ctl[2].i
        BY <1>8, <3>2, <3>4 DEF Passed
      <3>5. CASE ~ (j < ctl[2].i)
        <4>1. q < j
          BY <3>3, <3>5
        <4>2. SameThread(queue[q], queue[j])
          BY <3>1, <3>2 DEF SameThread
        <4> QED
          BY <3>1, <3>2, <4>1, <4>2 DEF QueueOrder, IInv, Order
      <3> QED
        BY <3>4, <3>5
    <2> QED
      BY <1>4, <2>1, <2>2
  <1>21. WireBehindServed'
    <2> SUFFICES ASSUME NEW i \in DOMAIN wire', NEW k \in DOMAIN ctl', Serves(k)',
                        sender[wire'[i]] \in Others, sender[ctl'[k].m] = sender[wire'[i]]
                 PROVE  wire'[i] < ctl'[k].m
      BY <1>3 DEF WireBehindServed, SameThread
    <2>1. k + 1 \in DOMAIN ctl /\ Serves(k + 1) /\ ctl'[k] = ctl[k + 1]
      BY <1>18
    <2>2. CASE i \in DOMAIN wire
      BY <1>4, <2>1, <2>2 DEF WireBehindServed, SameThread, IInv, Order
    <2>3. CASE i = n
      <3>1. Serves(1)
        BY <1>4, <1>15, <2>3
      <3>2. 1 + 1 \in DOMAIN ctl /\ Walks(1 + 1) /\ k + 1 + 1 \in DOMAIN ctl /\ Walks(k + 1 + 1)
        BY <1>1, <2>1, <3>1 DEF ServedFromQueue, Walks, IInv, Order
      <3>3. 1 + 1 = k + 1 + 1
        BY <3>2 DEF WalkOnce, IInv, Control
      <3> QED
        BY <1>6, <3>3
    <2> QED
      BY <1>4, <2>2, <2>3
  <1>22. ThreadOrder'
    <2> SUFFICES ASSUME NEW i \in DOMAIN wire', NEW j \in DOMAIN wire', i < j,
                        sender[wire'[i]] \in Others, sender[wire'[j]] = sender[wire'[i]]
                 PROVE  wire'[i] < wire'[j]
      BY <1>3 DEF ThreadOrder
    <2>1. i \in DOMAIN wire
      BY <1>4 DEF n
    <2>2. CASE j \in DOMAIN wire
      BY <1>4, <2>1, <2>2 DEF ThreadOrder, IInv, Order
    <2>3. CASE j = n
      <3>1. Serves(1) /\ SameThread(wire[i], ctl[1].m) /\ ctl[1].m = p
        BY <1>1, <1>4, <1>15, <2>1, <2>3 DEF SameThread
      <3> QED
        BY <1>1, <1>4, <2>1, <2>3, <3>1 DEF WireBehindServed, IInv, Order
    <2> QED
      BY <1>4, <2>2, <2>3
  <1> QED
    BY <1>8, <1>9, <1>12, <1>13, <1>14, <1>16, <1>17, <1>19, <1>20, <1>21, <1>22 DEF Control, Order

----------------------------------------------------------------------------
(* The steps of the other threads, and the start of a send *)
LEMMA EnqueueStep ==
  ASSUME IInv, TypeOK', NEW t \in Others, Enqueue(t)
  PROVE  Control' /\ Order'
  <1> DEFINE p == waiting[t]
             n == Len(queue) + 1
  <1>1. /\ TypeOK /\ p # 0 /\ p \in Messages /\ mutex = Nobody /\ queue' = Append(queue, p)
        /\ waiting' = [waiting EXCEPT ![t] = 0]
    BY DEF Enqueue, IInv, TypeOK
  <1>2. UNCHANGED <<next, sender, mutex, processing, ctl, wire, dropped>>
    BY DEF Enqueue
  <1>3. /\ \A u \in Others : waiting'[u] = IF u = t THEN 0 ELSE waiting[u]
    BY <1>1 DEF TypeOK
  <1>4. /\ sender[p] = t /\ p < next
        /\ \A m \in OnWire \cup Queued : sender[m] = t => m < p
    BY <1>1 DEF WaitingIsLast, Known, IInv, Control, Order
  <1> HIDE DEF p
  <1>5. /\ DOMAIN queue = 1 .. Len(queue) /\ DOMAIN queue' = 1 .. n /\ Len(queue) \in Nat
        /\ queue'[n] = p /\ \A i \in DOMAIN queue : queue'[i] = queue[i] /\ i < n
        /\ \A i \in DOMAIN queue' : i \in DOMAIN queue \/ i = n
    BY <1>1 DEF TypeOK
  <1>6. ~ processing
    BY <1>1, RakHookAssumption DEF MutexHeld, IInv, Control
  <1>7. \A k \in DOMAIN ctl : ~ Walks(k) /\ ~ Walks(k)' /\ ~ Serves(k) /\ ~ Serves(k)'
    <2>1. \A k \in DOMAIN ctl : ~ Walks(k)
      BY <1>6 DEF WalkOnce, IInv, Control
    <2>2. \A k \in DOMAIN ctl : ~ Serves(k)
      BY <2>1 DEF ServedFromQueue, Walks, IInv, Order
    <2> QED
      BY <1>2, <2>1, <2>2 DEF Walks, Serves
  <1>8. \A j : ~ Passed(j) /\ ~ Passed(j)'
    BY <1>2, <1>7 DEF Passed, Walks
  <1>9. OnWire' = OnWire /\ Begun' = Begun
    BY <1>2 DEF OnWire, Begun
  <1>10. Queued' = Queued \cup {p}
    <2>1. ASSUME NEW m \in Queued' PROVE m \in Queued \cup {p}
      BY <1>5, Members, MembersNext
    <2>2. ASSUME NEW m \in Queued PROVE m \in Queued'
      <3>1. PICK i \in DOMAIN queue : queue[i] = m
        BY <2>2, Members
      <3>2. i \in DOMAIN queue' /\ queue'[i] = m
        BY <1>5, <3>1
      <3> QED
        BY <3>2, MembersNext
    <2>3. n \in DOMAIN queue'
      BY <1>5
    <2> QED
      BY <1>5, <2>1, <2>2, <2>3, MembersNext
  <1> HIDE DEF n
  <1>11. MutexHeld' /\ WalkOnce' /\ PassedIsSettled'
    <2>1. MutexHeld'
      BY <1>2 DEF MutexHeld, IInv, Control
    <2>2. WalkOnce'
      BY <1>2, <1>7 DEF WalkOnce
    <2> QED
      BY <2>1, <2>2, <1>8 DEF PassedIsSettled
  <1>12. Known'
    <2>1. waiting'[t] < next
      BY <1>1, <1>3 DEF TypeOK
    <2> QED
      BY <1>2, <1>3, <1>4, <1>9, <1>10, <2>1 DEF Known, IInv, Control
  <1>13. NothingLost'
    <2> SUFFICES ASSUME NEW m \in 1 .. next - 1, m \notin (Done \cup Queued \cup Begun)'
                 PROVE  \E u \in Others : waiting'[u] = m
      BY <1>2 DEF NothingLost
    <2>1. m \notin Done \cup Queued \cup Begun /\ m # p /\ m # 0
      BY <1>2, <1>9, <1>10 DEF Done
    <2>2. PICK u \in Others : waiting[u] = m
      BY <2>1 DEF NothingLost, IInv, Control
    <2> QED
      BY <1>3, <2>1, <2>2 DEF p
  <1>14. ServedFromQueue' /\ WireBehindServed'
    BY <1>2, <1>7 DEF ServedFromQueue, WireBehindServed
  <1>15. QueueOrder'
    <2> SUFFICES ASSUME NEW i \in DOMAIN queue', NEW j \in DOMAIN queue', i < j,
                        sender[queue'[i]] \in Others, sender[queue'[j]] = sender[queue'[i]]
                 PROVE  queue'[i] < queue'[j]
      BY <1>2 DEF QueueOrder, SameThread
    <2>1. i \in DOMAIN queue
      BY <1>5 DEF n
    <2>2. CASE j \in DOMAIN queue
      BY <1>5, <2>1, <2>2 DEF QueueOrder, SameThread, IInv, Order
    <2>3. CASE j = n
      BY <1>4, <1>5, <2>1, <2>3, Members
    <2> QED
      BY <1>5, <2>2, <2>3
  <1>16. WaitingIsLast'
    <2> SUFFICES ASSUME NEW u \in Others, waiting'[u] # 0
                 PROVE  /\ sender[waiting'[u]] = u
                        /\ \A m \in OnWire \cup Queued \cup {p} : sender[m] = u => m < waiting'[u]
      BY <1>2, <1>9, <1>10 DEF WaitingIsLast
    <2>1. u # t /\ waiting'[u] = waiting[u]
      BY <1>3
    <2> QED
      BY <1>4, <2>1 DEF WaitingIsLast, IInv, Order
  <1>17. WireBehindQueue'
    <2> SUFFICES ASSUME NEW i \in DOMAIN wire, NEW j \in DOMAIN queue',
                        sender[wire[i]] \in Others, sender[queue'[j]] = sender[wire[i]]
                 PROVE  wire[i] < queue'[j]
      BY <1>2 DEF WireBehindQueue, SameThread
    <2>1. CASE j \in DOMAIN queue
      BY <1>5, <1>8, <2>1 DEF WireBehindQueue, SameThread, IInv, Order
    <2>2. CASE j = n
      BY <1>4, <1>5, <2>2, Members
    <2> QED
      BY <1>5, <2>1, <2>2
  <1>18. ThreadOrder'
    BY <1>2 DEF ThreadOrder, IInv, Order
  <1> QED
    BY <1>11, <1>12, <1>13, <1>14, <1>15, <1>16, <1>17, <1>18 DEF Control, Order

LEMMA CallStep ==
  ASSUME IInv, TypeOK', NEW t \in Others, CallSend(t)
  PROVE  Control' /\ Order'
  <1>1. UNCHANGED <<queue, mutex, processing, ctl, wire, dropped>> /\ Accept(t) /\ waiting[t] = 0
    BY DEF CallSend
  <1>2. /\ next \in Messages /\ next' = next + 1 /\ sender'[next] = t
        /\ \A m \in OnWire \cup Queued \cup Begun : sender'[m] = sender[m] /\ m # next /\ m < next'
        /\ \A u \in Others : waiting[u] # 0 => sender'[waiting[u]] = u /\ waiting[u] < next'
    BY <1>1, AcceptStep, RakHookAssumption
  <1>3. \A u \in Others : waiting'[u] = IF u = t THEN next ELSE waiting[u]
    BY DEF CallSend, IInv, TypeOK
  <1>4. OnWire' = OnWire /\ Queued' = Queued /\ Begun' = Begun /\ Done' = Done
    BY <1>1 DEF OnWire, Queued, Begun, Done
  <1>5. \A j : Passed(j)' <=> Passed(j)
    BY <1>1 DEF Passed
  <1>6. MutexHeld' /\ WalkOnce' /\ PassedIsSettled'
    BY <1>1, <1>4, <1>5 DEF MutexHeld, WalkOnce, Walks, PassedIsSettled, Settled, IInv, Control
  <1>7. next \in Nat /\ next < next' /\ 0 < next'
    BY <1>2 DEF Messages
  <1>8. Known'
    <2>1. \A u \in Others : waiting'[u] < next'
      BY <1>2, <1>3, <1>7
    <2> QED
      BY <1>2, <1>4, <2>1 DEF Known
  <1>9. NothingLost'
    <2> SUFFICES ASSUME NEW m \in 1 .. next' - 1, m \notin Done \cup Queued \cup Begun
                 PROVE  \E u \in Others : waiting'[u] = m
      BY <1>4 DEF NothingLost
    <2>1. CASE m = next
      BY <1>3, <2>1
    <2>2. CASE m # next
      <3>1. m \in 1 .. next - 1
        BY <1>2, <1>7, <2>2
      <3>2. PICK u \in Others : waiting[u] = m
        BY <3>1 DEF NothingLost, IInv, Control
      <3>3. u # t
        BY <1>1, <3>1, <3>2
      <3> QED
        BY <1>3, <3>2, <3>3
    <2> QED
      BY <2>1, <2>2
  <1>10. WaitingIsLast'
    <2> SUFFICES ASSUME NEW u \in Others, waiting'[u] # 0
                 PROVE  /\ sender'[waiting'[u]] = u
                        /\ \A m \in OnWire \cup Queued : sender'[m] = u => m < waiting'[u]
      BY <1>4 DEF WaitingIsLast
    <2>1. CASE u = t
      <3>1. \A m \in OnWire \cup Queued : m < next
        BY DEF Known, IInv, Control
      <3> QED
        BY <1>2, <1>3, <2>1, <3>1
    <2>2. CASE u # t
      <3>1. \A m \in OnWire \cup Queued : sender[m] = u => m < waiting[u]
        BY <1>3, <2>2 DEF WaitingIsLast, IInv, Order
      <3> QED
        BY <1>2, <1>3, <2>2, <3>1
    <2> QED
      BY <2>1, <2>2
  <1>11. ServedFromQueue' /\ QueueOrder' /\ WireBehindQueue' /\ WireBehindServed' /\ ThreadOrder'
    <2>1. \A k \in DOMAIN ctl' :
            ctl'[k].op \in MessageOps /\ sender'[ctl'[k].m] \in Others =>
              \E j \in DOMAIN ctl :
                /\ ctl[j].op \in MessageOps /\ ctl[j].m = ctl'[k].m
                /\ j + 1 \in DOMAIN ctl => k + 1 \in DOMAIN ctl' /\ ctl'[k + 1] = ctl[j + 1]
      BY <1>1
    <2> QED
      BY <1>1, <1>2, <1>5, <2>1, OrderKept
  <1> QED
    BY <1>6, <1>8, <1>9, <1>10, <1>11 DEF Control, Order

(* n calls are pushed: the last of them is the one of the new message. *)
LEMMA MainCallsStep ==
  ASSUME IInv, TypeOK', NEW ops, MainCalls(ops), NEW n \in {1, 2},
         DOMAIN ctl' = 1 .. Len(ctl) + n,
         ctl'[n].op \in MessageOps, ctl'[n].m = next,
         n = 2 => ctl'[1] = Process,
         \A k \in DOMAIN ctl : ctl'[k + n] = ctl[k],
         \A k \in DOMAIN ctl' : k <= n \/ (k - n \in DOMAIN ctl /\ ctl'[k] = ctl[k - n])
  PROVE  Control' /\ Order'
  <1>1. UNCHANGED <<queue, waiting, mutex, processing, wire, dropped>> /\ Accept(Main)
    BY DEF MainCalls
  <1>2. /\ next \in Messages /\ next' = next + 1 /\ sender'[next] = Main
        /\ \A m \in OnWire \cup Queued \cup Begun : sender'[m] = sender[m] /\ m # next /\ m < next'
        /\ \A u \in Others : waiting[u] # 0 => sender'[waiting[u]] = u /\ waiting[u] < next'
    BY <1>1, AcceptStep, RakHookAssumption
  <1>3. OnWire' = OnWire /\ Queued' = Queued /\ Done' = Done
    BY <1>1 DEF OnWire, Queued, Done
  <1>4. /\ \A k \in DOMAIN ctl : k \in Nat /\ k + n \in DOMAIN ctl'
        /\ DOMAIN ctl' \subseteq Nat \ {0} /\ n \in DOMAIN ctl'
    BY DEF IInv, TypeOK
  <1>5. \A k \in DOMAIN ctl' : k <= n => k = n \/ ctl'[k] = Process
    <2> SUFFICES ASSUME NEW k \in DOMAIN ctl', k <= n, k # n PROVE n = 2 /\ k = 1
      OBVIOUS
    <2> QED
      BY <1>4
  <1>6. \A k \in DOMAIN ctl' : k <= n => ~ Walks(k)'
    BY <1>5 DEF Walks, Process, MessageOps
  <1>7. Moved(n)
    <2>1. \A k \in DOMAIN ctl' : Walks(k)' => k - n \in DOMAIN ctl /\ ctl'[k] = ctl[k - n]
      BY <1>6
    <2> QED
      BY <1>4, <2>1 DEF Moved
  <1>8. WalkOnce' /\ \A j : Passed(j)' <=> Passed(j)
    BY <1>1, <1>7, WalkMoved
  <1>9. MutexHeld'
    BY <1>1 DEF MutexHeld, IInv, Control
  <1>10. Begun' = Begun \cup {next}
    <2>1. ASSUME NEW m \in Begun PROVE m \in Begun'
      <3>1. PICK k \in DOMAIN ctl : ctl[k].op \in MessageOps /\ ctl[k].m = m
        BY <2>1, Members
      <3>2. k + n \in DOMAIN ctl' /\ ctl'[k + n] = ctl[k]
        BY <1>4
      <3> QED
        BY <3>1, <3>2, MembersNext
    <2>2. next \in Begun'
      BY <1>4, MembersNext
    <2>3. ASSUME NEW m \in Begun' PROVE m \in Begun \cup {next}
      <3>1. PICK k \in DOMAIN ctl' : ctl'[k].op \in MessageOps /\ ctl'[k].m = m
        BY <2>3, MembersNext
      <3>2. CASE k <= n
        <4>1. ctl'[k] # Process
          BY <3>1 DEF Process, MessageOps
        <4> QED
          BY <1>5, <3>1, <3>2, <4>1
      <3>3. CASE ~ (k <= n)
        BY <3>1, <3>3, Members
      <3> QED
        BY <3>2, <3>3
    <2> QED
      BY <2>1, <2>2, <2>3
  <1>11. PassedIsSettled'
    BY <1>1, <1>3, <1>8, <1>10 DEF PassedIsSettled, Settled, IInv, Control
  <1>12. next \in Nat /\ next < next' /\ \A m \in Int : m < next => m < next'
    BY <1>2 DEF Messages
  <1>13. Known'
    <2>1. \A u \in Others : waiting'[u] < next'
      <3> SUFFICES ASSUME NEW u \in Others PROVE waiting[u] < next'
        BY <1>1
      <3>1. waiting[u] \in Int /\ waiting[u] < next
        BY DEF Known, Messages, IInv, Control, TypeOK
      <3> QED
        BY <1>12, <3>1
    <2> QED
      BY <1>2, <1>3, <1>10, <1>12, <2>1 DEF Known
  <1>14. NothingLost'
    <2> SUFFICES ASSUME NEW m \in 1 .. next' - 1, m \notin Done \cup Queued \cup Begun, m # next
                 PROVE  \E u \in Others : waiting[u] = m
      BY <1>1, <1>3, <1>10 DEF NothingLost
    <2>1. m \in 1 .. next - 1
      BY <1>2, <1>12
    <2> QED
      BY <2>1 DEF NothingLost, IInv, Control
  <1>15. WaitingIsLast'
    <2> SUFFICES ASSUME NEW u \in Others, waiting[u] # 0
                 PROVE  /\ sender'[waiting[u]] = u
                        /\ \A m \in OnWire \cup Queued : sender'[m] = u => m < waiting[u]
      BY <1>1, <1>3 DEF WaitingIsLast
    <2>1. \A m \in OnWire \cup Queued : sender[m] = u => m < waiting[u]
      BY DEF WaitingIsLast, IInv, Order
    <2> QED
      BY <1>2, <2>1
  <1>16. ServedFromQueue' /\ QueueOrder' /\ WireBehindQueue' /\ WireBehindServed' /\ ThreadOrder'
    <2>1. \A k \in DOMAIN ctl' :
            ctl'[k].op \in MessageOps /\ sender'[ctl'[k].m] \in Others =>
              \E j \in DOMAIN ctl :
                /\ ctl[j].op \in MessageOps /\ ctl[j].m = ctl'[k].m
                /\ j + 1 \in DOMAIN ctl => k + 1 \in DOMAIN ctl' /\ ctl'[k + 1] = ctl[j + 1]
      <3> SUFFICES ASSUME NEW k \in DOMAIN ctl', ctl'[k].op \in MessageOps,
                          sender'[ctl'[k].m] \in Others
                   PROVE  /\ k - n \in DOMAIN ctl
                          /\ ctl[k - n] = ctl'[k]
                          /\ k - n + 1 \in DOMAIN ctl =>
                               k + 1 \in DOMAIN ctl' /\ ctl'[k + 1] = ctl[k - n + 1]
        OBVIOUS
      <3>1. ~ (k <= n)
        <4>1. ctl'[k] # Process
          BY DEF Process, MessageOps
        <4>2. k # n
          BY <1>2, RakHookAssumption
        <4> QED
          BY <1>5, <4>1, <4>2
      <3>2. k - n + 1 + n = k + 1
        BY <1>4
      <3>3. k - n + 1 \in DOMAIN ctl => k + 1 \in DOMAIN ctl' /\ ctl'[k + 1] = ctl[k - n + 1]
        BY <1>4, <3>2
      <3> QED
        BY <3>1, <3>3
    <2> QED
      BY <1>1, <1>2, <1>8, <2>1, OrderKept
  <1> QED
    BY <1>8, <1>9, <1>11, <1>13, <1>14, <1>15, <1>16 DEF Control, Order

LEMMA MainSendStep ==
  ASSUME IInv, TypeOK', MainSend \/ MainDirect
  PROVE  Control' /\ Order'
  <1>1. TypeOK /\ next \in Messages
    <2>1. next <= MaxMessages
      BY DEF MainSend, MainDirect, MainCalls, Accept
    <2> QED
      BY <2>1, RakHookAssumption DEF IInv, TypeOK, Messages
  <1>2. Hook(next) \in Calls /\ Put(next) \in Calls /\ Process \in Calls
    BY <1>1, OpsTypes
  <1>3. CASE MainSend
    <2>1. MainCalls(<<Hook(next)>>)
      BY <1>3 DEF MainSend
    <2>2. /\ DOMAIN ctl' = 1 .. Len(ctl) + 1
          /\ ctl'[1] = Hook(next)
          /\ \A k \in DOMAIN ctl : ctl'[k + 1] = ctl[k]
          /\ \A k \in DOMAIN ctl' : k = 1 \/ (k - 1 \in DOMAIN ctl /\ ctl'[k] = ctl[k - 1])
      BY <1>1, <1>2, <2>1, PushedOne DEF MainCalls
    <2>3. ctl'[1].op \in MessageOps /\ ctl'[1].m = next
      BY <2>2 DEF Hook, MessageOps
    <2> QED
      BY <2>1, <2>2, <2>3, MainCallsStep
  <1>4. CASE MainDirect
    <2>1. MainCalls(<<Process, Put(next)>>)
      BY <1>4 DEF MainDirect
    <2>2. /\ DOMAIN ctl' = 1 .. Len(ctl) + 2
          /\ ctl'[1] = Process /\ ctl'[2] = Put(next)
          /\ \A k \in DOMAIN ctl : ctl'[k + 2] = ctl[k]
          /\ \A k \in DOMAIN ctl' : k = 1 \/ k = 2 \/ (k - 2 \in DOMAIN ctl /\ ctl'[k] = ctl[k - 2])
      BY <1>1, <1>2, <2>1, PushedTwo DEF MainCalls
    <2>3. ctl'[2].op \in MessageOps /\ ctl'[2].m = next
      BY <2>2 DEF Put, MessageOps
    <2> QED
      BY <2>1, <2>2, <2>3, MainCallsStep
  <1> QED
    BY <1>3, <1>4

----------------------------------------------------------------------------
(* The invariant *)
LEMMA InvariantInit == Init => IInv
  <1> SUFFICES ASSUME Init PROVE IInv
    OBVIOUS
  <1>1. TypeOK
    <2>1. MaxMessages + 1 \in Nat /\ 1 \in 1 .. MaxMessages + 1
      BY RakHookAssumption
    <2>2. \A S : <<>> \in Seq(S)
      OBVIOUS
    <2>3. queue \in Seq(Messages) /\ ctl \in Seq(Calls) /\ wire \in Seq(Messages)
      BY <2>2 DEF Init
    <2> QED
      BY <2>1, <2>3 DEF Init, TypeOK
  <1>2. /\ DOMAIN ctl = {} /\ DOMAIN queue = {} /\ DOMAIN wire = {}
        /\ \A t \in Others : waiting[t] = 0
    BY DEF Init
  <1>3. OnWire = {} /\ Queued = {} /\ Begun = {}
    BY <1>2, Members
  <1>4. MutexHeld /\ WalkOnce /\ PassedIsSettled
    BY <1>2 DEF Init, MutexHeld, WalkOnce, PassedIsSettled
  <1>5. Known
    BY <1>2, <1>3 DEF Init, Known
  <1>6. NothingLost
    BY DEF Init, NothingLost
  <1>7. Order
    BY <1>2, <1>3 DEF Order, ServedFromQueue, QueueOrder, WaitingIsLast, WireBehindQueue,
       WireBehindServed, ThreadOrder
  <1> QED
    BY <1>1, <1>4, <1>5, <1>6, <1>7 DEF IInv, Control

LEMMA InvariantStep == IInv /\ [Next]_vars => IInv'
  <1> SUFFICES ASSUME IInv, TypeOK', [Next]_vars PROVE Control' /\ Order'
    BY TypeStep DEF IInv
  <1>2. ASSUME NEW t \in Others, CallSend(t) PROVE Control' /\ Order'
    BY <1>2, CallStep
  <1>3. ASSUME NEW t \in Others, Enqueue(t) PROVE Control' /\ Order'
    BY <1>3, EnqueueStep
  <1>4. CASE MainSend \/ MainDirect
    BY <1>4, MainSendStep
  <1>5. CASE MainHook
    BY <1>5, HookStep
  <1>6. CASE HandlersDone
    BY <1>6, HandlersStep
  <1>7. CASE PutOnWire
    BY <1>7, PutStep
  <1>8. CASE BeginProcess
    BY <1>8, BeginStep
  <1>9. CASE WalkQueue
    BY <1>9, WalkStep
  <1>10. CASE EndWalk
    BY <1>10, EndWalkStep
  <1>11. CASE EndProcess
    BY <1>11, EndStep
  <1>12. CASE Frame
    BY <1>12, FrameStep
  <1>13. CASE UNCHANGED vars
    <2> USE <1>13 DEF vars, history
    <2>1. Control'
      BY DEF IInv, Control, MutexHeld, WalkOnce, Walks, PassedIsSettled, Passed, Settled, Known,
         NothingLost, Done, OnWire, Queued, Begun
    <2>2. Order'
      BY DEF IInv, Order, ServedFromQueue, Serves, QueueOrder, SameThread, WaitingIsLast,
         WireBehindQueue, WireBehindServed, ThreadOrder, Passed, OnWire, Queued
    <2> QED
      BY <2>1, <2>2
  <1> QED
    BY <1>2, <1>3, <1>4, <1>5, <1>6, <1>7, <1>8, <1>9, <1>10, <1>11, <1>12, <1>13 DEF Next

(* The invariant the theorems rest on holds in every state. *)
THEOREM Invariant == Spec => []IInv
  BY InvariantInit, InvariantStep, PTL DEF Spec

(* The variables keep the shape of what they stand for. *)
THEOREM TypeCorrect == Spec => []TypeOK
  <1>1. IInv => TypeOK
    BY DEF IInv
  <1> QED
    BY <1>1, Invariant, PTL

(* However the handlers of messages nest, the main thread never locks      *)
(* main_thread_mutex, which is not recursive, while it holds it.           *)
THEOREM NeverRelockedAlways == Spec => []NeverRelocked
  <1>1. IInv => NeverRelocked
    BY RakHookAssumption DEF IInv, Control, MutexHeld, NeverRelocked
  <1> QED
    BY <1>1, Invariant, PTL

(* The clear() at the end of process() wipes out nothing that was not      *)
(* served, whatever is queued while the handlers run: a send is on its     *)
(* way, out, or dropped.                                                   *)
THEOREM NothingLostAlways == Spec => []NothingLost
  <1>1. IInv => NothingLost
    BY DEF IInv, Control
  <1> QED
    BY <1>1, Invariant, PTL

(* The sends of another thread go out in their order and each of them at   *)
(* most once, for any number of threads and any nesting of handlers.       *)
THEOREM ThreadOrderAlways == Spec => []ThreadOrder
  <1>1. IInv => ThreadOrder
    BY DEF IInv, Order
  <1> QED
    BY <1>1, Invariant, PTL
----------------------------------------------------------------------------
(* What is queued when the main thread sends goes out first *)

(* The other threads queue what is theirs, and only a message of the main  *)
(* thread has something ahead of it.                                       *)
QueuedByOthers == \A m \in Queued : sender[m] \in Others
AheadOfMain ==
  \A m \in Messages : m >= next \/ sender[m] # Main => ahead[m] = {}

(* A call waits for a process() above it: the one that walks, or the one   *)
(* about to begin, which finds the flag down.                              *)
Served(k) == \E j \in DOMAIN ctl : j < k /\ Walks(j)
Due(k) ==
  /\ ~ processing
  /\ \/ k = 1 /\ ctl[1].op = "hook"
     \/ k = 2 /\ ctl[1].op = "process"

(* A message that is not nested has gone past what was ahead of it, or a   *)
(* process() above it will serve the rest, which is still in the queue.    *)
Outside(k) == ctl[k].op \in MessageOps /\ ctl[k].m \notin nested
Cleared(k) ==
  \/ ahead[ctl[k].m] \subseteq Done
  \/ ahead[ctl[k].m] \subseteq Done \cup Queued /\ (Served(k) \/ Due(k))
AheadIsCleared == \A k \in DOMAIN ctl : Outside(k) => Cleared(k)

Relative == QueuedByOthers /\ AheadOfMain /\ AheadIsCleared /\ QueuedGoFirstOutside
OInv == IInv /\ Relative

(* A call that moves on the stack stays cleared, as long as what serves it *)
(* stays above it.                                                         *)
LEMMA ClearedStays ==
  ASSUME NEW k, NEW l, Cleared(k), ctl'[l].m = ctl[k].m,
         ahead'[ctl[k].m] = ahead[ctl[k].m], Done \subseteq Done', Queued \subseteq Queued',
         Served(k) \/ Due(k) => Served(l)' \/ Due(l)'
  PROVE  Cleared(l)'
  BY DEF Cleared

(* The walk moves with the calls below it. *)
LEMMA ServedMoves ==
  ASSUME TypeOK, TypeOK', NEW d \in Int, Moved(d), NEW k \in DOMAIN ctl, Served(k)
  PROVE  Served(k + d)'
  <1>1. PICK j \in DOMAIN ctl : j < k /\ Walks(j)
    BY DEF Served
  <1>2. j \in Int /\ k \in Int
    BY DEF TypeOK
  <1>3. j + d \in DOMAIN ctl' /\ ctl'[j + d] = ctl[j] /\ j + d < k + d
    BY <1>1, <1>2 DEF Moved
  <1> QED
    BY <1>1, <1>3 DEF Served, Walks

(* A step that neither sends nor queues leaves the rest as it was. *)
LEMMA RelativeKept ==
  ASSUME OInv, UNCHANGED <<next, sender, queue, wire, ahead, nested>>, dropped \subseteq dropped',
         AheadIsCleared'
  PROVE  Relative'
  <1>1. OnWire' = OnWire /\ Queued' = Queued /\ Done \subseteq Done'
    BY DEF OnWire, Queued, Done
  <1> QED
    BY <1>1 DEF OInv, Relative, QueuedByOthers, AheadOfMain, QueuedGoFirstOutside

(* The calls below the top stay cleared when the top is replaced. *)
LEMMA PopClears ==
  ASSUME OInv, TypeOK', ctl # <<>>, Continue(<<>>), ~ Walks(1), ctl[1].op # "process" \/ processing,
         UNCHANGED <<next, sender, queue, wire, processing, ahead, nested>>,
         dropped \subseteq dropped'
  PROVE  Relative'
  <1>1. /\ TypeOK
        /\ \A k \in DOMAIN ctl' : k + 1 \in DOMAIN ctl /\ ctl'[k] = ctl[k + 1]
        /\ \A k \in DOMAIN ctl : k # 1 => k - 1 \in DOMAIN ctl' /\ ctl'[k - 1] = ctl[k]
    BY Popped DEF OInv, IInv
  <1>2. DOMAIN ctl \subseteq Int /\ DOMAIN ctl' \subseteq Nat \ {0}
    BY <1>1 DEF TypeOK
  <1>3. Moved(-1)
    <2>1. \A k \in DOMAIN ctl : Walks(k) => k + (-1) \in DOMAIN ctl' /\ ctl'[k + (-1)] = ctl[k]
      BY <1>1, <1>2
    <2>2. \A k \in DOMAIN ctl' : k - (-1) \in DOMAIN ctl /\ ctl'[k] = ctl[k - (-1)]
      BY <1>1, <1>2
    <2> QED
      BY <2>1, <2>2 DEF Moved
  <1>4. Done \subseteq Done' /\ Queued' = Queued
    BY DEF Done, OnWire, Queued
  <1>5. ASSUME NEW l \in DOMAIN ctl', Outside(l)' PROVE Cleared(l)'
    <2>1. l + 1 \in DOMAIN ctl /\ ctl'[l] = ctl[l + 1] /\ l + 1 # 1 /\ l + 1 + (-1) = l
      BY <1>1, <1>2
    <2>2. Cleared(l + 1)
      BY <1>5, <2>1 DEF Outside, OInv, Relative, AheadIsCleared
    <2>3. Served(l + 1) => Served(l + 1 + (-1))'
      BY <1>1, <1>3, <2>1, ServedMoves
    <2>4. ~ Due(l + 1)
      BY <2>1 DEF Due
    <2>5. Served(l + 1) => Served(l)'
      BY <2>1, <2>3
    <2> QED
      BY <1>4, <2>1, <2>2, <2>4, <2>5, ClearedStays
  <1> QED
    BY <1>5, RelativeKept DEF AheadIsCleared

LEMMA ExchangeClears ==
  ASSUME OInv, TypeOK', ctl # <<>>, NEW c \in Calls, Continue(<<c>>),
         UNCHANGED <<next, sender, queue, wire, dropped, ahead, nested>>,
         Walks(1) \/ (ctl[1].op = "process" /\ ~ processing) => c.op \in {"walk", "clear"},
         c.op \in MessageOps =>
           ctl[1].op \in MessageOps /\ c.m = ctl[1].m /\ ~ Due(1)
  PROVE  Relative'
  <1>1. /\ TypeOK /\ DOMAIN ctl' = DOMAIN ctl /\ 1 \in DOMAIN ctl /\ ctl'[1] = c
        /\ \A k \in DOMAIN ctl : k # 1 => ctl'[k] = ctl[k]
    BY Exchanged DEF OInv, IInv
  <1>2. DOMAIN ctl \subseteq Nat \ {0}
    BY <1>1 DEF TypeOK
  <1>3. Done' = Done /\ Queued' = Queued
    BY DEF Done, OnWire, Queued
  <1>4. \A k \in DOMAIN ctl : Served(k) => Served(k)'
    <2> SUFFICES ASSUME NEW k \in DOMAIN ctl, Served(k) PROVE Served(k)'
      OBVIOUS
    <2>1. PICK j \in DOMAIN ctl : j < k /\ Walks(j)
      BY DEF Served
    <2>2. Walks(j)'
      BY <1>1, <2>1 DEF Walks
    <2> QED
      BY <1>1, <2>1, <2>2 DEF Served
  <1>5. ASSUME NEW k \in DOMAIN ctl', Outside(k)' PROVE Cleared(k)'
    <2>1. CASE k = 1
      <3>1. ~ Due(1) /\ Cleared(1) /\ ctl'[1].m = ctl[1].m /\ (Served(1) => Served(1)')
        BY <1>1, <1>4, <1>5, <2>1 DEF Outside, OInv, Relative, AheadIsCleared
      <3> QED
        BY <1>3, <2>1, <3>1, ClearedStays
    <2>2. CASE k # 1
      <3>1. k \in DOMAIN ctl /\ ctl'[k] = ctl[k] /\ 1 < k
        BY <1>1, <1>2, <2>2
      <3>2. Cleared(k)
        BY <1>5, <3>1 DEF Outside, OInv, Relative, AheadIsCleared
      <3>3. Due(k) => Served(k)'
        BY <1>1, <2>2, <3>1 DEF Due, Served, Walks
      <3> QED
        BY <1>3, <1>4, <3>1, <3>2, <3>3, ClearedStays
    <2> QED
      BY <2>1, <2>2
  <1> QED
    BY <1>5, RelativeKept DEF AheadIsCleared

LEMMA HookClears == ASSUME OInv, TypeOK', MainHook PROVE Relative'
  <1>1. /\ TypeOK /\ ctl # <<>> /\ 1 \in DOMAIN ctl /\ Top = ctl[1] /\ Top.op = "hook"
        /\ Top.m \in Messages
    BY TopCall DEF MainHook, MessageOps, OInv
  <1>2. Process \in Calls /\ Handlers(Top.m) \in Calls
    BY <1>1, OpsTypes
  <1>3. ~ Walks(1) /\ ctl[1].op # "process" /\ ctl[1].op \in MessageOps
    BY <1>1 DEF Walks, MessageOps
  <1>4. CASE processing
    <2>1. Continue(<<Handlers(Top.m)>>)
      BY <1>4 DEF MainHook, HookOps
    <2>2. Handlers(Top.m).op \in MessageOps /\ Handlers(Top.m).m = ctl[1].m
      BY <1>1 DEF Handlers, MessageOps
    <2>3. ~ Due(1)
      BY <1>4 DEF Due
    <2> QED
      BY <1>1, <1>2, <1>3, <2>1, <2>2, <2>3, ExchangeClears DEF MainHook, history
  <1>5. CASE ~ processing
    <2>1. Continue(<<Process, Handlers(Top.m)>>)
      BY <1>5 DEF MainHook, HookOps
    <2>2. /\ DOMAIN ctl' = 1 .. Len(ctl) + 1
          /\ ctl'[1] = Process /\ ctl'[2] = Handlers(Top.m)
          /\ \A k \in DOMAIN ctl : k # 1 => ctl'[k + 1] = ctl[k]
          /\ \A k \in DOMAIN ctl' : k = 1 \/ k = 2 \/ (k - 1 \in DOMAIN ctl /\ ctl'[k] = ctl[k - 1])
      BY <1>1, <1>2, <2>1, SplitInTwo
    <2>3. Done' = Done /\ Queued' = Queued
      BY DEF Done, OnWire, Queued, MainHook
    <2>4. Due(2)'
      BY <1>5, <2>2 DEF Due, Process, MainHook
    <2>5. ASSUME NEW l \in DOMAIN ctl', Outside(l)' PROVE Cleared(l)'
      <3>1. CASE l = 1
        BY <2>2, <2>5, <3>1 DEF Outside, Process, MessageOps
      <3>2. CASE l = 2
        <4>1. Outside(1) /\ ctl'[2].m = ctl[1].m
          BY <1>1, <1>3, <2>2, <2>5, <3>2 DEF Outside, Handlers, MainHook, history
        <4>2. Cleared(1)
          BY <1>1, <4>1 DEF OInv, Relative, AheadIsCleared
        <4> QED
          BY <2>3, <2>4, <3>2, <4>1, <4>2, ClearedStays DEF MainHook, history
      <3>3. CASE l # 1 /\ l # 2
        <4>1. l - 1 \in DOMAIN ctl /\ ctl'[l] = ctl[l - 1]
          BY <2>2, <3>3
        <4>2. Cleared(l - 1)
          BY <2>5, <4>1 DEF Outside, OInv, Relative, AheadIsCleared, MainHook, history
        <4>3. l \in Int /\ l - 1 # 1 /\ ~ Due(l - 1)
          BY <1>1, <2>2, <3>3 DEF Due
        <4>4. ~ Served(l - 1)
          BY <1>5 DEF Served, WalkOnce, OInv, IInv, Control
        <4> QED
          BY <2>3, <4>1, <4>2, <4>3, <4>4, ClearedStays DEF MainHook, history
      <3> QED
        BY <3>1, <3>2, <3>3
    <2> QED
      BY <2>5, RelativeKept DEF MainHook, history, AheadIsCleared
  <1> QED
    BY <1>4, <1>5

LEMMA HandlersClears == ASSUME OInv, TypeOK', HandlersDone PROVE Relative'
  <1>1. /\ TypeOK /\ ctl # <<>> /\ 1 \in DOMAIN ctl /\ Top = ctl[1] /\ Top.op = "handlers"
        /\ Top.m \in Messages
    BY TopCall DEF HandlersDone, MessageOps, OInv
  <1>2. ~ Walks(1) /\ ctl[1].op # "process" /\ ctl[1].op \in MessageOps /\ ~ Due(1)
    BY <1>1 DEF Walks, MessageOps, Due
  <1>3. CASE Continue(<<Put(Top.m)>>) /\ UNCHANGED dropped
    <2>1. Put(Top.m) \in Calls /\ Put(Top.m).op \in MessageOps /\ Put(Top.m).m = ctl[1].m
      BY <1>1, OpsTypes DEF Put, MessageOps
    <2> QED
      BY <1>1, <1>2, <1>3, <2>1, ExchangeClears DEF HandlersDone, history
  <1>4. CASE Continue(<<>>) /\ dropped' = dropped \cup {Top.m}
    BY <1>1, <1>2, <1>4, PopClears DEF HandlersDone, history
  <1> QED
    BY <1>3, <1>4 DEF HandlersDone

LEMMA BeginClears == ASSUME OInv, TypeOK', BeginProcess PROVE Relative'
  <1>1. /\ TypeOK /\ ctl # <<>> /\ 1 \in DOMAIN ctl /\ Top = ctl[1] /\ Top.op = "process"
    BY TopCall DEF BeginProcess, OInv
  <1>2. CASE processing /\ Continue(<<>>) /\ UNCHANGED <<mutex, processing>>
    <2>1. ~ Walks(1)
      BY <1>1 DEF Walks
    <2> QED
      BY <1>1, <1>2, <2>1, PopClears DEF BeginProcess, history
  <1>3. CASE Continue(<<Walk(1)>>)
    <2>1. Walk(1) \in Calls /\ Walk(1).op = "walk"
      BY OpsTypes DEF Walk
    <2>2. Walk(1).op \in {"walk", "clear"} /\ Walk(1).op \notin MessageOps
      BY <2>1 DEF MessageOps
    <2> QED
      BY <1>1, <1>3, <2>1, <2>2, ExchangeClears DEF BeginProcess, history
  <1> QED
    BY <1>2, <1>3 DEF BeginProcess

LEMMA EndWalkClears == ASSUME OInv, TypeOK', EndWalk PROVE Relative'
  <1>1. /\ TypeOK /\ ctl # <<>> /\ Continue(<<Clear>>)
    BY TopCall DEF EndWalk, OInv
  <1>2. Clear \in Calls /\ Clear.op \in {"walk", "clear"} /\ Clear.op \notin MessageOps
    BY OpsTypes DEF Clear, MessageOps
  <1> QED
    BY <1>1, <1>2, ExchangeClears DEF EndWalk, history

LEMMA WalkClears == ASSUME OInv, TypeOK', WalkQueue PROVE Relative'
  <1>1. /\ TypeOK /\ ctl # <<>> /\ 1 \in DOMAIN ctl /\ Top = ctl[1] /\ Top.op = "walk"
        /\ Top.i \in Nat \ {0}
    BY TopCall DEF WalkQueue, OInv
  <1> DEFINE m == queue[Top.i]
  <1>2. m \in Messages /\ m \in Queued
    BY <1>1 DEF WalkQueue, TypeOK, Queued
  <1>3. Hook(m) \in Calls /\ Walk(Top.i + 1) \in Calls
    BY <1>1, <1>2, OpsTypes
  <1>4. /\ DOMAIN ctl' = 1 .. Len(ctl) + 1
        /\ ctl'[1] = Hook(m) /\ ctl'[2] = Walk(Top.i + 1)
        /\ \A k \in DOMAIN ctl : k # 1 => ctl'[k + 1] = ctl[k]
        /\ \A k \in DOMAIN ctl' : k = 1 \/ k = 2 \/ (k - 1 \in DOMAIN ctl /\ ctl'[k] = ctl[k - 1])
    BY <1>1, <1>3, SplitInTwo DEF WalkQueue
  <1>5. Done' = Done /\ Queued' = Queued
    BY DEF Done, OnWire, Queued, WalkQueue
  <1>6. ahead[m] = {}
    BY <1>2, RakHookAssumption DEF OInv, Relative, QueuedByOthers, AheadOfMain
  <1>7. Walks(2)' /\ 2 \in DOMAIN ctl'
    BY <1>1, <1>4 DEF Walks, Walk, TypeOK
  <1> HIDE DEF m
  <1>8. ASSUME NEW l \in DOMAIN ctl', Outside(l)' PROVE Cleared(l)'
    <2>1. CASE l = 1
      <3>1. ctl'[l].m = m /\ ahead'[m] = {}
        BY <1>4, <1>6, <2>1 DEF Hook, WalkQueue, history
      <3> QED
        BY <3>1 DEF Cleared
    <2>2. CASE l = 2
      BY <1>7, <1>8, <2>2 DEF Outside, Walks, MessageOps
    <2>3. CASE l # 1 /\ l # 2
      <3>1. l - 1 \in DOMAIN ctl /\ ctl'[l] = ctl[l - 1]
        BY <1>4, <2>3
      <3>2. Cleared(l - 1)
        BY <1>8, <3>1 DEF Outside, OInv, Relative, AheadIsCleared, WalkQueue, history
      <3>3. 2 < l
        BY <1>1, <1>4, <2>3 DEF TypeOK
      <3>4. Served(l)'
        BY <1>7, <3>3 DEF Served
      <3> QED
        BY <1>5, <3>1, <3>2, <3>4, ClearedStays DEF WalkQueue, history
    <2> QED
      BY <2>1, <2>2, <2>3
  <1> QED
    BY <1>8, RelativeKept DEF WalkQueue, history, AheadIsCleared

(* At its end process() has served all that is in the queue: nothing of it *)
(* is on the stack, as the walk that would be below it is over.            *)
LEMMA EndClears == ASSUME OInv, TypeOK', EndProcess PROVE Relative'
  <1>1. /\ TypeOK /\ ctl # <<>> /\ 1 \in DOMAIN ctl /\ Top = ctl[1] /\ Top.op = "clear"
        /\ Continue(<<>>)
    BY TopCall DEF EndProcess, OInv
  <1>2. \A k \in DOMAIN ctl' : k + 1 \in DOMAIN ctl /\ ctl'[k] = ctl[k + 1]
    BY <1>1, Popped
  <1>3. \A k \in DOMAIN ctl : ctl[k].op # "walk"
    BY <1>1 DEF WalkOnce, Walks, OInv, IInv, Control
  <1>4. Queued \subseteq Done
    <2> SUFFICES ASSUME NEW m \in Queued PROVE m \in Done
      OBVIOUS
    <2>1. PICK j \in DOMAIN queue : queue[j] = m
      BY Members
    <2>2. Passed(j)
      BY <1>1 DEF Passed
    <2>3. m \in Done \cup Begun
      BY <2>1, <2>2 DEF PassedIsSettled, Settled, OInv, IInv, Control
    <2>4. m \notin Begun
      <3> SUFFICES ASSUME NEW k \in DOMAIN ctl, ctl[k].op \in MessageOps, ctl[k].m = m
                   PROVE  FALSE
        BY Members
      <3>1. Serves(k)
        BY DEF Serves, OInv, Relative, QueuedByOthers
      <3>2. k + 1 \in DOMAIN ctl /\ ctl[k + 1].op = "walk"
        BY <3>1 DEF ServedFromQueue, OInv, IInv, Order
      <3> QED
        BY <1>3, <3>2
    <2> QED
      BY <2>3, <2>4
  <1>5. Queued' = {} /\ OnWire' = OnWire /\ Done' = Done
    BY DEF Queued, OnWire, Done, EndProcess
  <1>6. ASSUME NEW l \in DOMAIN ctl', Outside(l)' PROVE Cleared(l)'
    <2>1. l + 1 \in DOMAIN ctl /\ ctl'[l] = ctl[l + 1]
      BY <1>2
    <2>2. Cleared(l + 1)
      BY <1>6, <2>1 DEF Outside, OInv, Relative, AheadIsCleared, EndProcess, history
    <2> QED
      BY <1>4, <1>5, <2>1, <2>2 DEF Cleared, EndProcess, history
  <1> QED
    BY <1>5, <1>6 DEF Relative, QueuedByOthers, AheadOfMain, AheadIsCleared, QueuedGoFirstOutside,
       EndProcess, history, OInv

LEMMA PutClears == ASSUME OInv, TypeOK', PutOnWire PROVE Relative'
  <1>1. /\ TypeOK /\ ctl # <<>> /\ 1 \in DOMAIN ctl /\ Top = ctl[1] /\ Top.op = "put"
        /\ Continue(<<>>) /\ Top.m \in Messages
    BY TopCall DEF PutOnWire, OInv, MessageOps
  <1> DEFINE m == Top.m
  <1>2. /\ \A k \in DOMAIN ctl' : k + 1 \in DOMAIN ctl /\ ctl'[k] = ctl[k + 1]
        /\ \A k \in DOMAIN ctl : k # 1 => k - 1 \in DOMAIN ctl' /\ ctl'[k - 1] = ctl[k]
    BY <1>1, Popped
  <1>3. DOMAIN ctl \subseteq Nat \ {0} /\ DOMAIN ctl' \subseteq Nat \ {0}
    BY <1>1 DEF TypeOK
  <1>4. OnWire' = OnWire \cup {m} /\ Queued' = Queued /\ Done \subseteq Done'
    <2>1. wire \in Seq(Messages) /\ wire' = Append(wire, m)
      BY <1>1 DEF PutOnWire, TypeOK
    <2>2. /\ DOMAIN wire' = DOMAIN wire \cup {Len(wire) + 1} /\ wire'[Len(wire) + 1] = m
          /\ \A i \in DOMAIN wire : wire'[i] = wire[i]
      BY <1>1, <2>1
    <2>3. OnWire' = OnWire \cup {m}
      BY <2>2 DEF OnWire
    <2> QED
      BY <2>3 DEF Queued, Done, PutOnWire
  <1>5. m \notin nested => ahead[m] \subseteq Done
    <2> SUFFICES ASSUME m \notin nested PROVE ahead[m] \subseteq Done
      OBVIOUS
    <2>1. Cleared(1)
      BY <1>1 DEF Outside, MessageOps, OInv, Relative, AheadIsCleared
    <2>2. ~ Served(1) /\ ~ Due(1)
      BY <1>1, <1>3 DEF Served, Due
    <2> QED
      BY <1>1, <2>1, <2>2 DEF Cleared
  <1>6. Moved(-1)
    <2>1. ~ Walks(1)
      BY <1>1 DEF Walks
    <2>2. \A k \in DOMAIN ctl : Walks(k) => k + (-1) \in DOMAIN ctl' /\ ctl'[k + (-1)] = ctl[k]
      BY <1>2, <1>3, <2>1
    <2>3. \A k \in DOMAIN ctl' : k - (-1) \in DOMAIN ctl /\ ctl'[k] = ctl[k - (-1)]
      BY <1>2, <1>3
    <2> QED
      BY <2>2, <2>3 DEF Moved
  <1>7. ASSUME NEW l \in DOMAIN ctl', Outside(l)' PROVE Cleared(l)'
    <2>1. l + 1 \in DOMAIN ctl /\ ctl'[l] = ctl[l + 1] /\ l + 1 # 1 /\ l + 1 + (-1) = l
      BY <1>2, <1>3
    <2>2. Cleared(l + 1)
      BY <1>7, <2>1 DEF Outside, OInv, Relative, AheadIsCleared, PutOnWire, history
    <2>3. Served(l + 1) => Served(l + 1 + (-1))'
      BY <1>1, <1>6, <2>1, ServedMoves
    <2>4. ~ Due(l + 1)
      BY <1>1, <2>1 DEF Due
    <2>5. Served(l + 1) => Served(l)'
      BY <2>1, <2>3
    <2> QED
      BY <1>4, <2>1, <2>2, <2>4, <2>5, ClearedStays DEF PutOnWire, history
  <1>8. QueuedGoFirstOutside'
    BY <1>4, <1>5 DEF QueuedGoFirstOutside, OInv, Relative, PutOnWire, history
  <1> QED
    BY <1>4, <1>7, <1>8 DEF Relative, QueuedByOthers, AheadOfMain, AheadIsCleared, OInv,
       PutOnWire, history

LEMMA FrameClears == ASSUME OInv, Frame PROVE Relative'
  <1>1. DOMAIN ctl' = {1} /\ ctl'[1].op \notin MessageOps
    BY DEF Frame, Process, MessageOps
  <1> QED
    BY <1>1, RelativeKept DEF AheadIsCleared, Outside, Frame, history

(* A message that gets its number. *)
LEMMA AcceptClears ==
  ASSUME OInv, TypeOK', NEW t, t \in Others \cup {Main}, Accept(t), UNCHANGED <<queue, wire, dropped>>,
         \A m \in Messages : m # next => ahead'[m] = ahead[m], t # Main => ahead'[next] = ahead[next],
         nested \subseteq nested', AheadIsCleared'
  PROVE  Relative'
  <1>1. t # Nobody
    BY RakHookAssumption
  <1>2. IInv /\ TypeOK
    BY DEF OInv, IInv
  <1>3. /\ next \in Messages /\ next' = next + 1 /\ sender'[next] = t
        /\ \A m \in OnWire \cup Queued \cup Begun : sender'[m] = sender[m] /\ m # next
    BY <1>1, <1>2, AcceptStep
  <1>4. OnWire' = OnWire /\ Queued' = Queued /\ Done' = Done
    BY DEF OnWire, Queued, Done
  <1>5. QueuedByOthers'
    BY <1>3, <1>4 DEF QueuedByOthers, OInv, Relative
  <1>6. AheadOfMain'
    <2> SUFFICES ASSUME NEW m \in Messages, m >= next' \/ sender'[m] # Main
                 PROVE  ahead'[m] = {}
      BY DEF AheadOfMain
    <2>1. CASE m = next
      <3>1. t # Main
        BY <1>3, <2>1 DEF Messages
      <3> QED
        BY <1>3, <2>1, <3>1 DEF AheadOfMain, OInv, Relative, Messages
    <2>2. CASE m # next
      <3>1. sender'[m] = sender[m]
        BY <1>2, <2>2 DEF Accept, TypeOK
      <3>2. m >= next' => m >= next
        BY <1>3 DEF Messages
      <3> QED
        BY <2>2, <3>1, <3>2 DEF AheadOfMain, OInv, Relative
    <2> QED
      BY <2>1, <2>2
  <1>7. QueuedGoFirstOutside'
    <2>1. OnWire \subseteq Messages
      BY <1>2, InUse
    <2> QED
      BY <1>3, <1>4, <2>1 DEF QueuedGoFirstOutside, OInv, Relative
  <1> QED
    BY <1>5, <1>6, <1>7 DEF Relative

LEMMA CallClears ==
  ASSUME OInv, TypeOK', NEW t \in Others, CallSend(t)
  PROVE  Relative'
  <1>1. Done' = Done /\ Queued' = Queued
    BY DEF Done, OnWire, Queued, CallSend
  <1>2. AheadIsCleared'
    BY <1>1 DEF CallSend, history, AheadIsCleared, Outside, Cleared, Served, Due, Walks, OInv, Relative
  <1> QED
    BY <1>2, AcceptClears DEF CallSend, history

LEMMA EnqueueClears ==
  ASSUME OInv, TypeOK', NEW t \in Others, Enqueue(t)
  PROVE  Relative'
  <1>1. waiting[t] \in Messages /\ sender[waiting[t]] = t
    BY DEF Enqueue, OInv, IInv, TypeOK, Order, WaitingIsLast
  <1>2. Queued' = Queued \cup {waiting[t]}
    <2>1. queue \in Seq(Messages) /\ queue' = Append(queue, waiting[t])
      BY DEF Enqueue, OInv, IInv, TypeOK
    <2>2. /\ DOMAIN queue' = DOMAIN queue \cup {Len(queue) + 1} /\ queue'[Len(queue) + 1] = waiting[t]
          /\ \A i \in DOMAIN queue : queue'[i] = queue[i]
      BY <1>1, <2>1
    <2> QED
      BY <2>2 DEF Queued
  <1>3. Done' = Done
    BY DEF Done, OnWire, Enqueue
  <1>4. AheadIsCleared'
    <2> SUFFICES ASSUME NEW k \in DOMAIN ctl, Outside(k)' PROVE Cleared(k)'
      BY DEF AheadIsCleared, Enqueue
    <2>1. Cleared(k)
      BY DEF Outside, Enqueue, history, OInv, Relative, AheadIsCleared
    <2>2. Served(k) \/ Due(k) => Served(k)' \/ Due(k)'
      BY DEF Served, Due, Walks, Enqueue
    <2> QED
      BY <1>2, <1>3, <2>1, <2>2, ClearedStays DEF Enqueue, history
  <1>5. QueuedByOthers' /\ AheadOfMain' /\ QueuedGoFirstOutside'
    BY <1>1, <1>2, <1>3 DEF QueuedByOthers, AheadOfMain, QueuedGoFirstOutside, OnWire, Enqueue,
       history, OInv, Relative
  <1> QED
    BY <1>4, <1>5 DEF Relative

(* The main thread sends: d calls are pushed, the d-th for the message.  *)
LEMMA MainCallsClears ==
  ASSUME OInv, TypeOK', NEW ops, MainCalls(ops), NEW d \in {1, 2},
         \A k \in DOMAIN ctl : k + d \in DOMAIN ctl' /\ ctl'[k + d] = ctl[k],
         \A k \in DOMAIN ctl' :
           \/ k < d /\ ctl'[k].op = "process"
           \/ k = d /\ ctl'[k].op \in MessageOps /\ ctl'[k].m = next
           \/ k - d \in DOMAIN ctl /\ ctl'[k] = ctl[k - d],
         ~ processing => Due(d)'
  PROVE  Relative'
  <1>1. IInv /\ TypeOK /\ Main # Nobody
    BY RakHookAssumption DEF OInv, IInv
  <1>2. /\ next \in Messages
        /\ \A m \in OnWire \cup Queued \cup Begun : m # next
    BY <1>1, AcceptStep DEF MainCalls
  <1>3. /\ ahead'[next] = Queued \ (Begun \cup Done)
        /\ \A m \in Messages : m # next => ahead'[m] = ahead[m]
        /\ nested \subseteq nested' /\ (processing => next \in nested')
    BY <1>1, <1>2 DEF MainCalls, TypeOK
  <1>4. Done' = Done /\ Queued' = Queued
    BY DEF Done, OnWire, Queued, MainCalls
  <1>5. ctl = <<>> \/ ctl[1].op = "handlers"
    BY <1>1 DEF MainCalls, At, TypeOK
  <1>6. Moved(d)
    BY DEF Moved, Walks, MessageOps
  <1>7. \A k \in DOMAIN ctl : ~ Due(k)
    BY <1>1, <1>5 DEF Due, TypeOK
  <1>8. ASSUME NEW l \in DOMAIN ctl', Outside(l)' PROVE Cleared(l)'
    <2>1. CASE l < d /\ ctl'[l].op = "process"
      BY <1>8, <2>1 DEF Outside, MessageOps
    <2>2. CASE l = d /\ ctl'[l].op \in MessageOps /\ ctl'[l].m = next
      <3>1. ~ processing
        BY <1>3, <1>8, <2>2 DEF Outside
      <3> QED
        BY <1>3, <1>4, <2>2, <3>1 DEF Cleared
    <2>3. CASE l - d \in DOMAIN ctl /\ ctl'[l] = ctl[l - d]
      <3>1. ctl[l - d].op \in MessageOps /\ ctl[l - d].m \in Begun \cap Messages
        BY <1>1, <1>8, <2>3, InUse DEF Outside
      <3>2. Cleared(l - d)
        BY <1>3, <1>8, <2>3 DEF Outside, OInv, Relative, AheadIsCleared
      <3>3. ahead'[ctl[l - d].m] = ahead[ctl[l - d].m]
        BY <1>2, <1>3, <3>1
      <3>4. l \in Int /\ d \in Int /\ l - d + d = l
        <4>1. l \in Int /\ d \in Int
          BY DEF TypeOK
        <4> QED
          BY <4>1
      <3>5. Served(l - d) => Served(l - d + d)'
        BY <1>1, <1>6, <2>3, <3>4, ServedMoves
      <3>6. Served(l - d) => Served(l)'
        BY <3>4, <3>5
      <3> QED
        BY <1>4, <1>7, <2>3, <3>2, <3>3, <3>6, ClearedStays
    <2> QED
      BY <2>1, <2>2, <2>3
  <1> QED
    BY <1>3, <1>8, AcceptClears DEF MainCalls, AheadIsCleared

LEMMA MainSendClears ==
  ASSUME OInv, TypeOK', MainSend \/ MainDirect
  PROVE  Relative'
  <1>1. TypeOK /\ next \in Messages
    <2>1. next <= MaxMessages
      BY DEF MainSend, MainDirect, MainCalls, Accept
    <2> QED
      BY <2>1, RakHookAssumption DEF OInv, IInv, TypeOK, Messages
  <1>2. Hook(next) \in Calls /\ Put(next) \in Calls /\ Process \in Calls
    BY <1>1, OpsTypes
  <1>3. \A k \in DOMAIN ctl : k \in 1 .. Len(ctl) /\ Len(ctl) \in Nat
    BY <1>1 DEF TypeOK
  <1>4. CASE MainSend
    <2>1. MainCalls(<<Hook(next)>>)
      BY <1>4 DEF MainSend
    <2>2. /\ DOMAIN ctl' = 1 .. Len(ctl) + 1
          /\ ctl'[1] = Hook(next)
          /\ \A k \in DOMAIN ctl : ctl'[k + 1] = ctl[k]
          /\ \A k \in DOMAIN ctl' : k = 1 \/ (k - 1 \in DOMAIN ctl /\ ctl'[k] = ctl[k - 1])
      BY <1>1, <1>2, <2>1, PushedOne DEF MainCalls
    <2>3. ctl'[1].op = "hook" /\ ctl'[1].op \in MessageOps /\ ctl'[1].m = next
      BY <2>2 DEF Hook, MessageOps
    <2>4. ~ processing => Due(1)'
      BY <2>1, <2>3 DEF Due, MainCalls
    <2>5. \A k \in DOMAIN ctl : k + 1 \in DOMAIN ctl'
      BY <1>3, <2>2
    <2> QED
      BY <2>1, <2>2, <2>3, <2>4, <2>5, MainCallsClears
  <1>5. CASE MainDirect
    <2>1. MainCalls(<<Process, Put(next)>>)
      BY <1>5 DEF MainDirect
    <2>2. /\ DOMAIN ctl' = 1 .. Len(ctl) + 2
          /\ ctl'[1] = Process /\ ctl'[2] = Put(next)
          /\ \A k \in DOMAIN ctl : ctl'[k + 2] = ctl[k]
          /\ \A k \in DOMAIN ctl' : k = 1 \/ k = 2 \/ (k - 2 \in DOMAIN ctl /\ ctl'[k] = ctl[k - 2])
      BY <1>1, <1>2, <2>1, PushedTwo DEF MainCalls
    <2>3. /\ ctl'[2].op \in MessageOps /\ ctl'[2].m = next
          /\ ctl'[1].op = "process" /\ 1 < 2
      BY <2>2 DEF Put, Process, MessageOps
    <2>4. ~ processing => Due(2)'
      BY <2>1, <2>3 DEF Due, MainCalls
    <2>5. \A k \in DOMAIN ctl : k + 2 \in DOMAIN ctl'
      BY <1>3, <2>2
    <2> QED
      BY <2>1, <2>2, <2>3, <2>4, <2>5, MainCallsClears
  <1> QED
    BY <1>4, <1>5

LEMMA RelativeStep == OInv /\ [Next]_vars => OInv'
  <1>1. ASSUME OInv, [Next]_vars PROVE IInv'
    BY <1>1, InvariantStep DEF OInv
  <1> SUFFICES ASSUME OInv, TypeOK', [Next]_vars PROVE Relative'
    BY <1>1 DEF OInv, IInv
  <1>2. ASSUME NEW t \in Others, CallSend(t) PROVE Relative'
    BY <1>2, CallClears
  <1>3. ASSUME NEW t \in Others, Enqueue(t) PROVE Relative'
    BY <1>3, EnqueueClears
  <1>4. CASE MainSend \/ MainDirect
    BY <1>4, MainSendClears
  <1>5. CASE MainHook
    BY <1>5, HookClears
  <1>6. CASE HandlersDone
    BY <1>6, HandlersClears
  <1>7. CASE PutOnWire
    BY <1>7, PutClears
  <1>8. CASE BeginProcess
    BY <1>8, BeginClears
  <1>9. CASE WalkQueue
    BY <1>9, WalkClears
  <1>10. CASE EndWalk
    BY <1>10, EndWalkClears
  <1>11. CASE EndProcess
    BY <1>11, EndClears
  <1>12. CASE Frame
    BY <1>12, FrameClears
  <1>13. CASE UNCHANGED vars
    <2>1. AheadIsCleared'
      BY <1>13 DEF vars, history, AheadIsCleared, Outside, Cleared, Served, Due, Walks, Done,
         OnWire, Queued, OInv, Relative
    <2> QED
      BY <1>13, <2>1, RelativeKept DEF vars, history
  <1> QED
    BY <1>2, <1>3, <1>4, <1>5, <1>6, <1>7, <1>8, <1>9, <1>10, <1>11, <1>12, <1>13 DEF Next

(* "Ensure relative order" (rakhook.cpp:213, 270), for any number of       *)
(* threads and messages: a message of the main thread that was not sent    *)
(* while process() ran reaches RakNet after all that was queued before it. *)
THEOREM QueuedAlwaysFirstOutside == Spec => []QueuedGoFirstOutside
  <1>1. Init => OInv
    <2>1. Init => Relative
      BY DEF Init, Relative, QueuedByOthers, AheadOfMain, AheadIsCleared, QueuedGoFirstOutside,
         Queued, OnWire
    <2> QED
      BY <2>1, InvariantInit DEF OInv
  <1>2. OInv => QueuedGoFirstOutside
    BY DEF OInv, Relative
  <1> QED
    BY <1>1, <1>2, RelativeStep, PTL DEF Spec

============================================================================
