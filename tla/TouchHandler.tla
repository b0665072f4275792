---------------------------- MODULE TouchHandler ---------------------------
(***************************************************************************)
(* Touches on their way from Android's input thread to the one that takes  *)
(* them: the queue of main.cpp, the overlay's touch_handler, those of the  *)
(* scripts' mimgui renderers, the scripts' onTouch handlers, the game      *)
(* (cpp/main.cpp, cpp/gui/touch_handler.h and .cpp, cpp/gui/render.cpp,    *)
(* cpp/script/modules/mimgui/renderer.cpp).                                *)
(*                                                                         *)
(* The input thread queues events under a lock, the main thread walks the  *)
(* queue under it once per frame and offers each event to the handlers in  *)
(* turn.  A touch_handler turns the pointers it has captured into the one  *)
(* mouse ImGui knows, and puts the mouse right when ImGui's frame ends.    *)
(* A position is the pointer whose position it is; what ImGui answers when *)
(* asked whether it wants the mouse is chosen.                             *)
(***************************************************************************)
EXTENDS Integers, FiniteSets, Sequences, SequencesExt

CONSTANTS
  Chain,       \* the touch_handlers in the order they are asked, overlay first
  Pointers,    \* pointer numbers
  NoPointer,   \* the mouse is nowhere (-FLT_MAX); no push is delayed
  MaxQueue     \* bound: length of the queue

Handlers == ToSet(Chain)
Overlay  == Head(Chain)

ASSUME TouchAssumption ==
  /\ Chain \in Seq(Handlers) /\ Chain # <<>> /\ IsInjective(Chain)
  /\ Pointers \subseteq Nat /\ IsFiniteSet(Pointers)
  /\ NoPointer \notin Pointers
  /\ "none" \notin Handlers
  /\ MaxQueue \in Nat

Renderers  == Handlers \ {Overlay}
Multitouch == {Overlay}       \* enable_multitouch() is called for it alone

VARIABLES
  fingers,     (* the pointers that are down on the device                  *)
  queue,       (* g_touch_queue                                             *)
  phase,       (* the main thread: outside process_touch(), in it, or in    *)
               (* the onTouch handlers it has called                        *)
  handler,     (* the members of each touch_handler and its ImGuiIO         *)
  (* History, read by the properties only:                                  *)
  owner,       (* the handler that took the PUSH of a pointer's gesture     *)
  dropped,     (* handlers that count a pointer which is no longer theirs:  *)
               (* disabled with it down, or another took its POP            *)
  lost,        (* renderers that captured a pointer with a clean-up due     *)
  ghosts       (* handlers whose delayed push lost its pointer              *)

history == <<owner, dropped, lost, ghosts>>
vars == <<fingers, queue, phase, handler, history>>

Types == {"PUSH", "MOVE", "POP"}
Event == [type : Types, num : Pointers]

Members ==
  [enabled : BOOLEAN, pointers : SUBSET Pointers, active : Nat, mouse_down : BOOLEAN,
   mouse_pos : Pointers \cup {NoPointer}, clear_pos : BOOLEAN, clear_down : BOOLEAN,
   delayed : Pointers \cup {NoPointer}]

Fresh == [enabled |-> FALSE, pointers |-> {}, active |-> 0, mouse_down |-> FALSE,
          mouse_pos |-> NoPointer, clear_pos |-> FALSE, clear_down |-> FALSE,
          delayed |-> NoPointer]

Init ==
  /\ fingers \in SUBSET Pointers
  /\ queue = <<>>
  /\ phase = "frame"
  /\ handler = [h \in Handlers |-> Fresh]
  /\ owner = [p \in Pointers |-> "none"]
  /\ dropped = {}
  /\ lost = {}
  /\ ghosts = {}

----------------------------------------------------------------------------
(* touch_handler *)
IsNumValidAnyway(h, s, e) ==   \* mutant: a MOVE need not be of a captured pointer
  \/ e.type = "POP" /\ e.num \in s.pointers
  \/ e.type = "MOVE"
  \/ e.type = "PUSH" /\ (s.active = 0 \/ h \in Multitouch)

IsNumValidLast(h, s, e) ==     \* mutant: the POP of one of two pointers is ignored
  \/ e.type \in {"POP", "MOVE"} /\ e.num \in s.pointers /\ (e.type = "POP" => s.active = 1)
  \/ e.type = "PUSH" /\ (s.active = 0 \/ h \in Multitouch)

IsNumValid(h, s, e) ==
  \/ e.type \in {"POP", "MOVE"} /\ e.num \in s.pointers
  \/ e.type = "PUSH" /\ (s.active = 0 \/ h \in Multitouch)

Consume(s, e) ==
  CASE e.type = "POP"  -> [s EXCEPT !.mouse_down = FALSE, !.clear_pos = TRUE]
    [] e.type = "PUSH" -> [s EXCEPT !.mouse_down = TRUE, !.mouse_pos = e.num]
    [] e.type = "MOVE" -> [s EXCEPT !.mouse_pos = e.num]

Reset(s, e) == [s EXCEPT !.pointers = @ \ {e.num}, !.active = @ - 1]

(* handle() of a pointer it has captured *)
HandleHeld(s, e) == IF e.type = "POP" THEN Reset(Consume(s, e), e) ELSE Consume(s, e)

CaptureUncounted(s, e) == [s EXCEPT !.pointers = @ \cup {e.num}]   \* mutant

Capture(s, e) == [s EXCEPT !.pointers = @ \cup {e.num}, !.active = @ + 1]

(* handle() of the first pointer, of another one, of one ImGui lets pass *)
HandleFirst(s, e) == Capture(Consume(s, e), e)
HandleSecond(s, e) == Capture([s EXCEPT !.mouse_down = FALSE, !.delayed = e.num], e)
LetPassKeeping(s, e) ==        \* mutant: the press is not taken back
  IF s.active = 0 THEN [Consume(s, e) EXCEPT !.clear_pos = TRUE] ELSE s
LetPass(s, e) ==
  IF s.active = 0 THEN [Consume(s, e) EXCEPT !.clear_pos = TRUE, !.clear_down = TRUE]
                  ELSE s

MaxPointers == 10              \* the length of pointers[]

Answers(h, s, e) == s.enabled /\ e.num < MaxPointers /\ IsNumValid(h, s, e)

(* ImGui is asked whether it wants a pointer that is not captured. *)
Asked(h, s, e) == Answers(h, s, e) /\ e.num \notin s.pointers

MayCapture(h, s) == s.active = 0 \/ h \in Multitouch

Takes(h, s, e, want) ==
  Answers(h, s, e) /\ (e.num \in s.pointers \/ (want /\ MayCapture(h, s)))

Handle(h, s, e, want) ==
  CASE ~Answers(h, s, e) -> s
    [] Answers(h, s, e) /\ ~Asked(h, s, e) -> HandleHeld(s, e)
    [] Asked(h, s, e) /\ Takes(h, s, e, want) ->
         IF s.active = 0 THEN HandleFirst(s, e) ELSE HandleSecond(s, e)
    [] OTHER -> LetPass(s, e)

EndFrameOf(s) ==
  LET cleared == [s EXCEPT !.mouse_pos  = IF s.clear_pos THEN NoPointer ELSE @,
                           !.mouse_down = @ /\ ~s.clear_down,
                           !.clear_pos = FALSE, !.clear_down = FALSE]
  IN IF s.delayed = NoPointer THEN cleared
     ELSE [cleared EXCEPT !.mouse_down = TRUE, !.mouse_pos = s.delayed,
                          !.delayed = NoPointer]

----------------------------------------------------------------------------
(* The input thread *)
Touch(type, num) ==
  /\ type = "PUSH" <=> num \notin fingers
  /\ fingers' = CASE type = "PUSH" -> fingers \cup {num}
                  [] type = "POP"  -> fingers \ {num}
                  [] type = "MOVE" -> fingers

Submit(events) ==
  /\ phase = "frame"           \* g_touch_queue_lock
  /\ Len(queue) + Len(events) <= MaxQueue
  /\ queue' = queue \o events
  /\ UNCHANGED <<phase, handler, history>>

(* h_and_touchevent, from when the scripts are there: before, the game     *)
(* gets the event itself, and Init has any finger down already.            *)
TouchEvent(type, num) ==
  /\ Touch(type, num)
  /\ Submit(<<[type |-> type, num |-> num]>>)

InOrder(moved) ==
  {s \in [1 .. Cardinality(moved) -> moved] :
     \A i, j \in DOMAIN s : i < j => s[i] < s[j]}

(* h_nveventinsertnewest: an event of one finger, then a MOVE of every     *)
(* other whose position has changed, in order.  A build has one of the two *)
(* hooks.                                                                  *)
NvEvent(type, num, moved) ==
  /\ Touch(type, num)
  /\ type = "MOVE" \/ num \notin moved
  /\ \E order \in InOrder(moved) :
       Submit((IF type = "MOVE" THEN <<>> ELSE <<[type |-> type, num |-> num]>>)
                \o [i \in DOMAIN order |-> [type |-> "MOVE", num |-> order[i]]])

----------------------------------------------------------------------------
(* The main thread *)
(* gui::render::init() *)
InitOverlay ==
  /\ ~handler[Overlay].enabled /\ phase = "frame"
  /\ handler' = [handler EXCEPT ![Overlay].enabled = TRUE]
  /\ UNCHANGED <<fingers, queue, phase, history>>

BeginTouches ==
  /\ phase = "frame" /\ queue # <<>>
  /\ phase' = "pass"
  /\ UNCHANGED <<fingers, queue, handler, history>>

(* on_touch(): the first to take the event ends it; what no touch_handler  *)
(* takes goes to the onTouch handlers and, unless one says false, the game.*)
Before(h) == {g \in Handlers : \E i, j \in DOMAIN Chain :
                 i < j /\ Chain[i] = g /\ Chain[j] = h}
TakerOf(e, want) ==
  LET takers == {h \in Handlers : Takes(h, handler[h], e, h \in want)}
  IN IF takers = {} THEN "none"
     ELSE CHOOSE h \in takers : Before(h) \cap takers = {}

OnTouch(want) ==
  LET e == Head(queue)
      taker == TakerOf(e, want)
      asked == IF taker = "none" THEN Handlers ELSE Before(taker) \cup {taker}
  IN /\ phase \in {"pass", "script"} /\ queue # <<>>
     /\ queue' = Tail(queue)
     /\ phase' = IF taker = "none" THEN "script" ELSE "pass"
     /\ handler' = [h \in Handlers |-> IF h \in asked
                                       THEN Handle(h, handler[h], e, h \in want)
                                       ELSE handler[h]]
     /\ owner' = [owner EXCEPT ![e.num] =
                    CASE e.type = "PUSH" -> taker
                      [] e.type = "POP"  -> "none"
                      [] e.type = "MOVE" -> @]
     /\ dropped' = {d \in dropped : d[2] # e.num
                      \/ d[1] # taker \/ e.type = "MOVE"}
                     \cup {<<h, e.num>> : h \in {h \in Handlers \ {taker} :
                              /\ e.type = "POP" /\ taker # "none"
                              /\ owner[e.num] = h}}
     /\ lost' = {h \in lost : handler'[h].active > 0}
                  \cup {h \in {taker} \cap Renderers :
                          /\ e.type = "PUSH"
                          /\ handler[h].clear_pos \/ handler[h].clear_down}
     /\ ghosts' = (ghosts \ (IF e.type = "MOVE" THEN {} ELSE {taker}))
                    \cup {h \in {taker} \ {"none"} :
                            /\ e.type = "POP" /\ handler[h].delayed # NoPointer
                            /\ handler[h].delayed \notin handler'[h].pointers}
     /\ UNCHANGED fingers

EndTouches ==
  /\ phase # "frame" /\ queue = <<>>
  /\ phase' = "frame"
  /\ UNCHANGED <<fingers, queue, handler, history>>

LuaRuns == phase \in {"frame", "script"}

(* What is no longer served by h; its gestures are nobody's. *)
Dropping(h) ==
  owner' = [p \in Pointers |-> IF owner[p] = h THEN "none" ELSE owner[p]]

EnableIO(h) ==
  /\ LuaRuns /\ ~handler[h].enabled
  /\ handler' = [handler EXCEPT ![h].enabled = TRUE]
  /\ UNCHANGED <<fingers, queue, phase, history>>

DisableIO(h) ==
  /\ LuaRuns /\ handler[h].enabled
  /\ handler' = [handler EXCEPT ![h] =
       [handler[h] EXCEPT !.enabled = FALSE, !.mouse_down = FALSE,
                          !.mouse_pos = IF handler[h].mouse_down THEN NoPointer ELSE @]]
  /\ Dropping(h)
  /\ dropped' = dropped \cup {h} \X handler[h].pointers
  /\ UNCHANGED <<fingers, queue, phase, lost, ghosts>>

(* A renderer is destroyed; another takes its place in the list. *)
Recreate(h) ==
  /\ LuaRuns /\ handler[h] # Fresh
  /\ handler' = [handler EXCEPT ![h] = Fresh]
  /\ Dropping(h)
  /\ dropped' = {d \in dropped : d[1] # h}
  /\ lost' = lost \ {h}
  /\ ghosts' = ghosts \ {h}
  /\ UNCHANGED <<fingers, queue, phase>>

(* The end of an ImGui frame of one context. *)
EndFrame(h) ==
  /\ phase = "frame"
  /\ handler[h].enabled \/ h # Overlay
  /\ EndFrameOf(handler[h]) # handler[h]
  /\ handler' = [handler EXCEPT ![h] = EndFrameOf(@)]
  /\ UNCHANGED <<fingers, queue, phase, history>>

ProcessTouch ==
  \/ BeginTouches
  \/ \E want \in SUBSET {h \in Handlers : queue # <<>> /\ Asked(h, handler[h], Head(queue))} :
       OnTouch(want)
  \/ EndTouches

Next ==
  \/ \E type \in Types, num \in Pointers :
       \/ TouchEvent(type, num)
       \/ \E moved \in SUBSET Pointers : NvEvent(type, num, moved)
  \/ InitOverlay
  \/ ProcessTouch
  \/ \E h \in Renderers : EnableIO(h) \/ DisableIO(h) \/ Recreate(h)
  \/ \E h \in Handlers : EndFrame(h)

Spec == Init /\ [][Next]_vars

(* Every frame runs process_touch(), which comes to its end. *)
Fairness == WF_vars(ProcessTouch)

FairSpec == Spec /\ Fairness
----------------------------------------------------------------------------
(* Every variable keeps the shape of the members it stands for; the count *)
(* of pointers never wraps below 0.                                        *)
TypeOK ==
  /\ fingers \subseteq Pointers
  /\ queue \in Seq(Event) /\ Len(queue) <= MaxQueue
  /\ phase \in {"frame", "pass", "script"}
  /\ handler \in [Handlers -> Members]
  /\ owner \in [Pointers -> Handlers \cup {"none"}]
  /\ dropped \subseteq Handlers \X Pointers
  /\ lost \subseteq Renderers /\ ghosts \subseteq Handlers

(* A touch_handler has and counts exactly the pointers whose PUSH it took, *)
(* so no gesture is split between two takers - unless it was disabled with *)
(* the finger down: then it keeps the pointer, will take MOVEs again, and  *)
(* may take the POP that ends the gesture of a handler asked after it,     *)
(* which keeps its pointer in turn.                                        *)
HolderIsTaker ==
  \A h \in Handlers :
    /\ handler[h].active = Cardinality(handler[h].pointers)
    /\ \A p \in Pointers :
         <<h, p>> \notin dropped => (p \in handler[h].pointers <=> owner[p] = h)

(* ImGui's mouse is down only while a captured pointer is, or until the    *)
(* end of the frame - unless that end carries out a delayed push whose     *)
(* pointers have been released.                                            *)
NoGhostPress ==
  \A h \in Handlers :
    handler[h].mouse_down =>
      handler[h].pointers # {} \/ handler[h].clear_down \/ h \in ghosts

(* The mouse of a renderer that has captured a pointer is down and follows *)
(* it - unless the capture came with a clean-up due from an earlier touch  *)
(* of the same frame, which then undoes it.                                *)
HeldIsPressed ==
  \A h \in Renderers :
    handler[h].pointers # {} =>
      \/ handler[h].mouse_down /\ handler[h].mouse_pos \in handler[h].pointers
      \/ h \in lost
      \/ \E p \in Pointers : <<h, p>> \in dropped

(* ImGui's mouse is down while a captured finger is, and only then.        *)
MouseIsFinger == NoGhostPress /\ HeldIsPressed

Captured(p) == \E h \in Handlers : p \in handler[h].pointers /\ <<h, p>> \notin dropped

(* A finger that has left the screen does not stay captured, unless the    *)
(* handler was disabled with the finger down.                              *)
ReleasedIsLetGo ==
  \A p \in Pointers :
    (Captured(p) /\ p \notin fingers) ~> (~Captured(p) \/ p \in fingers)
============================================================================
