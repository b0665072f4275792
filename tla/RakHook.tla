------------------------------ MODULE RakHook ------------------------------
(***************************************************************************)
(* The sending half of rakhook (cpp/game/rakhook.cpp): the hooks of        *)
(* RakClient's Send and RPC.                                               *)
(*                                                                         *)
(* The hooks run Lua handlers and Lua belongs to the main thread, so a     *)
(* send of any other thread is put into main_thread_queue and sent by      *)
(* process(), once per frame and before each send of the main thread       *)
(* ("Ensure relative order", rakhook.cpp:213).  process() keeps            *)
(* main_thread_mutex, which is not recursive, while the handlers run; the  *)
(* handlers may send in their turn, with or without running handlers.      *)
(* ctl is the call stack of the main thread, innermost call first.         *)
(***************************************************************************)
EXTENDS Integers, Sequences, FiniteSets

CONSTANTS
  Main,          \* the game's main thread
  Others,        \* the other threads that send
  MaxMessages    \* bound: messages sent in a behaviour

Nobody == "nobody"

ASSUME RakHookAssumption ==
  /\ Main \notin Others
  /\ Nobody \notin Others \cup {Main}
  /\ MaxMessages \in Nat

Messages == 1 .. MaxMessages

VARIABLES
  next,        (* the number of the next message                            *)
  sender,      (* who called the hook, or is about to                       *)
  waiting,     (* the message each other thread wants to queue, or 0        *)
  queue,       (* main_thread_queue                                         *)
  mutex,       (* the holder of main_thread_mutex                           *)
  processing,  (* processing_other_thread                                   *)
  ctl,         (* the calls of the main thread                              *)
  wire,        (* what the original Send and RPC were given                 *)
  dropped,     (* messages a handler or netinfo kept from being sent        *)
  ahead,       (* history: what was queued when a message was sent          *)
  nested       (* history: the messages sent while process() was running    *)

history == <<ahead, nested>>
vars == <<next, sender, waiting, queue, mutex, processing, ctl, wire, dropped,
          history>>

Hook(m)     == [op |-> "hook", m |-> m]       \* h_rci_send, h_rci_rpc
Handlers(m) == [op |-> "handlers", m |-> m]   \* out_packet, out_rpc
Put(m)      == [op |-> "put", m |-> m]        \* o_rci_send, o_rci_rpc
Process     == [op |-> "process"]             \* process()
Walk(i)     == [op |-> "walk", i |-> i]       \* ... its loop at position i
Clear       == [op |-> "clear"]               \* ... and its end

MessageOps == {"hook", "handlers", "put"}
Calls == [op : MessageOps, m : Messages] \cup {Process, Clear}
           \cup [op : {"walk"}, i : Nat \ {0}]

At(op) == ctl # <<>> /\ Head(ctl).op = op
Top    == Head(ctl)
Continue(ops) == ctl' = ops \o Tail(ctl)

OnWire == {wire[i] : i \in DOMAIN wire}
Done   == OnWire \cup dropped
Begun  == {ctl[i].m : i \in {j \in DOMAIN ctl : ctl[j].op \in MessageOps}}
Queued == {queue[i] : i \in DOMAIN queue}

Init ==
  /\ next = 1
  /\ sender = [m \in Messages |-> Nobody]
  /\ waiting = [t \in Others |-> 0]
  /\ queue = <<>>
  /\ mutex = Nobody
  /\ processing = FALSE
  /\ ctl = <<>>
  /\ wire = <<>>
  /\ dropped = {}
  /\ ahead = [m \in Messages |-> {}]
  /\ nested = {}

----------------------------------------------------------------------------
(* Another thread: it waits for the mutex and queues its message. *)
Accept(t) ==
  /\ next <= MaxMessages
  /\ next' = next + 1
  /\ sender' = [sender EXCEPT ![next] = t]

CallSend(t) ==
  /\ waiting[t] = 0
  /\ Accept(t)
  /\ waiting' = [waiting EXCEPT ![t] = next]
  /\ UNCHANGED <<queue, mutex, processing, ctl, wire, dropped, history>>

EnqueueUnlocked(t) ==          \* mutant: the mutex is not taken
  /\ waiting[t] # 0
  /\ queue' = Append(queue, waiting[t])
  /\ waiting' = [waiting EXCEPT ![t] = 0]
  /\ UNCHANGED <<next, sender, mutex, processing, ctl, wire, dropped, history>>

EnqueueInFront(t) ==           \* mutant: push_front
  /\ waiting[t] # 0
  /\ mutex = Nobody
  /\ queue' = <<waiting[t]>> \o queue
  /\ waiting' = [waiting EXCEPT ![t] = 0]
  /\ UNCHANGED <<next, sender, mutex, processing, ctl, wire, dropped, history>>

Enqueue(t) ==
  /\ waiting[t] # 0
  /\ mutex = Nobody
  /\ queue' = Append(queue, waiting[t])
  /\ waiting' = [waiting EXCEPT ![t] = 0]
  /\ UNCHANGED <<next, sender, mutex, processing, ctl, wire, dropped, history>>

----------------------------------------------------------------------------
(* The main thread sends: the game, a script outside of the handlers below *)
(* (ctl is empty) or a handler of a message.  A script may bypass the      *)
(* handlers (send::packet, send::rpc).                                     *)
MainCalls(ops) ==
  /\ ctl = <<>> \/ At("handlers")
  /\ Accept(Main)
  /\ ctl' = ops \o ctl
  /\ ahead' = [ahead EXCEPT ![next] = Queued \ (Begun \cup Done)]
  /\ nested' = IF processing THEN nested \cup {next} ELSE nested
  /\ UNCHANGED <<waiting, queue, mutex, processing, wire, dropped>>

MainSend   == MainCalls(<<Hook(next)>>)
MainDirect == MainCalls(<<Process, Put(next)>>)

(* The hook on the main thread. *)
HookForgets(m) == <<Handlers(m)>>   \* mutant: process() is not called
HookOps(m) == IF processing THEN <<Handlers(m)>> ELSE <<Process, Handlers(m)>>

MainHook ==
  /\ At("hook")
  /\ Continue(HookOps(Top.m))
  /\ UNCHANGED <<next, sender, waiting, queue, mutex, processing, wire, dropped,
                 history>>

(* The handlers are done: the message goes to RakNet or is dropped. *)
HandlersDone ==
  /\ At("handlers")
  /\ \/ Continue(<<Put(Top.m)>>) /\ UNCHANGED dropped
     \/ Continue(<<>>) /\ dropped' = dropped \cup {Top.m}
  /\ UNCHANGED <<next, sender, waiting, queue, mutex, processing, wire, history>>

PutOnWire ==
  /\ At("put")
  /\ wire' = Append(wire, Top.m)
  /\ Continue(<<>>)
  /\ UNCHANGED <<next, sender, waiting, queue, mutex, processing, dropped, history>>

----------------------------------------------------------------------------
(* process() *)
ProcessUnflagged ==            \* mutant: processing_other_thread is not set
  /\ At("process")
  /\ mutex = Nobody
  /\ mutex' = Main
  /\ Continue(<<Walk(1)>>)
  /\ UNCHANGED <<next, sender, waiting, queue, processing, wire, dropped, history>>

BeginProcess ==
  /\ At("process")
  /\ \/ processing /\ Continue(<<>>) /\ UNCHANGED <<mutex, processing>>
     \/ /\ ~processing
        /\ mutex = Nobody
        /\ mutex' = Main
        /\ processing' = TRUE
        /\ Continue(<<Walk(1)>>)
  /\ UNCHANGED <<next, sender, waiting, queue, wire, dropped, history>>

WalkQueue ==
  /\ At("walk") /\ Top.i <= Len(queue)
  /\ Continue(<<Hook(queue[Top.i]), Walk(Top.i + 1)>>)
  /\ UNCHANGED <<next, sender, waiting, queue, mutex, processing, wire, dropped,
                 history>>

EndWalk ==
  /\ At("walk") /\ Top.i > Len(queue)
  /\ Continue(<<Clear>>)
  /\ UNCHANGED <<next, sender, waiting, queue, mutex, processing, wire, dropped,
                 history>>

EndProcess ==
  /\ At("clear")
  /\ queue' = <<>>
  /\ mutex' = Nobody
  /\ processing' = FALSE
  /\ Continue(<<>>)
  /\ UNCHANGED <<next, sender, waiting, wire, dropped, history>>

(* h_cgame_process calls process() in every frame. *)
FrameIdle ==                   \* mutant: the frame does not call process()
  /\ ctl = <<>>
  /\ UNCHANGED vars

Frame ==
  /\ ctl = <<>>
  /\ ctl' = <<Process>>
  /\ UNCHANGED <<next, sender, waiting, queue, mutex, processing, wire, dropped,
                 history>>

MainStep == MainHook \/ HandlersDone \/ PutOnWire \/ BeginProcess \/ WalkQueue
              \/ EndWalk \/ EndProcess

Next ==
  \/ \E t \in Others : CallSend(t) \/ Enqueue(t)
  \/ MainSend
  \/ MainDirect
  \/ MainHook
  \/ HandlersDone
  \/ PutOnWire
  \/ BeginProcess
  \/ WalkQueue
  \/ EndWalk
  \/ EndProcess
  \/ Frame

Spec == Init /\ [][Next]_vars

(* The game goes on from frame to frame, handlers end, and a thread that   *)
(* waits for a mutex that is free again and again gets it.                 *)
FairSpec ==
  /\ Spec
  /\ WF_vars(Frame)
  /\ WF_vars(MainStep)
  /\ \A t \in Others : SF_vars(Enqueue(t))

----------------------------------------------------------------------------
(* Every variable keeps the shape of what it stands for. *)
TypeOK ==
  /\ next \in 1 .. MaxMessages + 1
  /\ sender \in [Messages -> Others \cup {Main, Nobody}]
  /\ waiting \in [Others -> {0} \cup Messages]
  /\ queue \in Seq(Messages)
  /\ mutex \in {Main, Nobody}
  /\ processing \in BOOLEAN
  /\ ctl \in Seq(Calls)
  /\ wire \in Seq(Messages)
  /\ dropped \subseteq Messages
  /\ ahead \in [Messages -> SUBSET Messages]
  /\ nested \subseteq Messages

(* "Ensure relative order" (rakhook.cpp:213, 270): when a message of the   *)
(* main thread reaches RakNet, what the other threads had queued when it   *)
(* was sent has gone out before.                                           *)
QueuedGoFirst == \A m \in OnWire : ahead[m] \subseteq Done

(* So it is for the messages sent while process() is not running, whatever *)
(* is queued or sent by handlers before they reach RakNet.                 *)
QueuedGoFirstOutside == \A m \in OnWire \ nested : ahead[m] \subseteq Done

(* The sends of one of the other threads go out in their order, each of    *)
(* them once, whatever the handlers do meanwhile.                          *)
ThreadOrder ==
  \A i, j \in DOMAIN wire :
    i < j /\ sender[wire[i]] \in Others /\ sender[wire[j]] = sender[wire[i]]
      => wire[i] < wire[j]

(* A message queued while process() runs the handlers is not wiped out by  *)
(* the clear() at its end: a send is on its way, out, or dropped.          *)
NothingLost ==
  \A m \in 1 .. next - 1 :
    \/ m \in Done \cup Queued \cup Begun
    \/ \E t \in Others : waiting[t] = m

(* main_thread_mutex is not recursive: however the handlers nest, the main *)
(* thread never locks it while it holds it.                                *)
NeverRelocked == At("process") /\ ~processing => mutex # Main

(* Every send of another thread is settled at last.                        *)
QueuedIsSent ==
  \A m \in Messages : sender[m] \in Others ~> m \in Done
============================================================================
