------------------------- MODULE TouchHandlerProofs -------------------------
(***************************************************************************)
(* Whose a gesture is and where it puts ImGui's mouse, for any number of   *)
(* touch_handlers and pointers and any length of the queue.                *)
(***************************************************************************)
EXTENDS TouchHandler, FiniteSetTheorems, WellFoundedInduction, TLAPS

(* What a handler with a gesture needs to see its end. *)
OwnerHolds ==
  \A p \in Pointers : owner[p] # "none" =>
    /\ handler[owner[p]].enabled
    /\ p \in handler[owner[p]].pointers
    /\ p < MaxPointers

IsType(i, type, p) == i \in DOMAIN queue /\ queue[i].type = type /\ queue[i].num = p

(* Pointer p is pressed by the j-th event of the queue, or before all (0). *)
Pressed(p, j) == (j = 0 /\ owner[p] # "none") \/ IsType(j, "PUSH", p)

(* By the n-th event whatever pressed p has been followed by a POP. *)
Freed(p, n) ==
  \A j \in 0 .. n - 1 : Pressed(p, j) =>
    \E k \in 1 .. n - 1 : j < k /\ IsType(k, "POP", p)

(* The queue has a POP between two PUSHes of a pointer, and its last word  *)
(* is what the fingers are.                                                *)
Alternate ==
  /\ \A n \in DOMAIN queue : queue[n].type = "PUSH" => Freed(queue[n].num, n)
  /\ \A p \in Pointers \ fingers : Freed(p, Len(queue) + 1)

IInv == TypeOK /\ HolderIsTaker /\ OwnerHolds /\ Alternate

----------------------------------------------------------------------------
(* touch_handler *)
LEMMA ConsumeKeeps ==
  ASSUME NEW s \in Members, NEW e \in Event
  PROVE  LET t == Consume(s, e) IN
         /\ t \in Members
         /\ t.enabled = s.enabled /\ t.pointers = s.pointers /\ t.active = s.active
  <1>1. e.num \in Pointers /\ e.type \in {"PUSH", "MOVE", "POP"}
    BY DEF Event, Types
  <1>2. CASE e.type = "PUSH"
    BY <1>1, <1>2 DEF Consume, Members
  <1>3. CASE e.type = "POP"
    BY <1>1, <1>3 DEF Consume, Members
  <1>4. CASE e.type = "MOVE"
    BY <1>1, <1>4 DEF Consume, Members
  <1> QED
    BY <1>1, <1>2, <1>3, <1>4

LEMMA CaptureCounts ==
  ASSUME NEW s \in Members, NEW e \in Event, e.num \notin s.pointers,
         IsFiniteSet(s.pointers), s.active = Cardinality(s.pointers)
  PROVE  LET t == Capture(s, e) IN
         /\ t \in Members
         /\ t.enabled = s.enabled /\ t.pointers = s.pointers \cup {e.num}
         /\ t.active = Cardinality(t.pointers)
  <1>1. e.num \in Pointers
    BY DEF Event
  <1>2. Cardinality(s.pointers \cup {e.num}) = s.active + 1
    BY FS_AddElement
  <1> DEFINE t == Capture(s, e)
  <1>3. t \in Members /\ t.enabled = s.enabled
        /\ t.pointers = s.pointers \cup {e.num} /\ t.active = s.active + 1
    <2>1. s.active + 1 \in Nat /\ s.pointers \cup {e.num} \in SUBSET Pointers
      BY <1>1 DEF Members
    <2>2. t = [s EXCEPT !.pointers = s.pointers \cup {e.num}, !.active = s.active + 1]
      BY DEF Capture
    <2> QED
      BY <2>1, <2>2 DEF Members
  <1> QED
    BY <1>2, <1>3

LEMMA ResetCounts ==
  ASSUME NEW s \in Members, NEW e \in Event, e.num \in s.pointers,
         IsFiniteSet(s.pointers), s.active = Cardinality(s.pointers)
  PROVE  LET t == Reset(s, e) IN
         /\ t \in Members
         /\ t.enabled = s.enabled /\ t.pointers = s.pointers \ {e.num}
         /\ t.active = Cardinality(t.pointers)
  <1>1. /\ IsFiniteSet(s.pointers \ {e.num})
        /\ Cardinality(s.pointers \ {e.num}) = s.active - 1
    BY FS_RemoveElement
  <1>2. s.active - 1 \in Nat
    BY <1>1, FS_CardinalityType
  <1> QED
    BY <1>1, <1>2 DEF Reset, Members

(* What handle() does to the captured pointers and their count. *)
LEMMA HandleCounts ==
  ASSUME NEW h \in Handlers, NEW s \in Members, NEW e \in Event, NEW want,
         IsFiniteSet(s.pointers), s.active = Cardinality(s.pointers)
  PROVE  LET t == Handle(h, s, e, h \in want) IN
         /\ t \in Members
         /\ t.enabled = s.enabled
         /\ t.active = Cardinality(t.pointers)
         /\ ~Takes(h, s, e, h \in want) => t.pointers = s.pointers
         /\ Takes(h, s, e, h \in want) =>
              /\ e.type = "PUSH" => t.pointers = s.pointers \cup {e.num}
              /\ e.type = "POP"  => e.num \in s.pointers /\ t.pointers = s.pointers \ {e.num}
              /\ e.type = "MOVE" => t.pointers = s.pointers
  <1>1. e.type \in {"PUSH", "MOVE", "POP"} /\ e.num \in Pointers
    BY DEF Event, Types
  <1>2. CASE ~Answers(h, s, e)
    <2>1. Handle(h, s, e, h \in want) = s /\ ~Takes(h, s, e, h \in want)
      BY <1>2 DEF Handle, Takes
    <2> QED
      BY <2>1
  <1>3. CASE Answers(h, s, e) /\ e.num \in s.pointers
    <2>1. Handle(h, s, e, h \in want) = HandleHeld(s, e) /\ Takes(h, s, e, h \in want)
      BY <1>3 DEF Handle, Asked, Takes
    <2>2. CASE e.type = "POP"
      <3> DEFINE c == Consume(s, e)
      <3>1. c \in Members /\ c.enabled = s.enabled /\ c.pointers = s.pointers /\ c.active = s.active
        BY ConsumeKeeps
      <3> HIDE DEF c
      <3>2. Reset(c, e) \in Members /\ Reset(c, e).enabled = s.enabled
            /\ Reset(c, e).pointers = s.pointers \ {e.num}
            /\ Reset(c, e).active = Cardinality(Reset(c, e).pointers)
        BY <1>3, <3>1, ResetCounts
      <3>3. HandleHeld(s, e) = Reset(c, e)
        BY <2>2 DEF HandleHeld, c
      <3> QED
        BY <1>3, <2>1, <2>2, <3>2, <3>3
    <2>3. CASE e.type # "POP"
      <3>1. HandleHeld(s, e) = Consume(s, e)
        BY <2>3 DEF HandleHeld
      <3> QED
        BY <1>3, <2>1, <2>3, <3>1, ConsumeKeeps
    <2> QED
      BY <2>2, <2>3
  <1>4. CASE Answers(h, s, e) /\ e.num \notin s.pointers /\ Takes(h, s, e, h \in want)
    <2>1. e.type = "PUSH"
      BY <1>1, <1>4 DEF Answers, IsNumValid
    <2>2. CASE s.active = 0
      <3> DEFINE c == Consume(s, e)
      <3>1. c \in Members /\ c.enabled = s.enabled /\ c.pointers = s.pointers /\ c.active = s.active
        BY ConsumeKeeps
      <3>2. Handle(h, s, e, h \in want) = Capture(c, e)
        BY <1>4, <2>2 DEF Handle, Asked, HandleFirst
      <3> HIDE DEF c
      <3> QED
        BY <1>4, <2>1, <3>1, <3>2, CaptureCounts
    <2>3. CASE s.active # 0
      <3> DEFINE c == [s EXCEPT !.mouse_down = FALSE, !.delayed = e.num]
      <3>1. c \in Members /\ c.enabled = s.enabled /\ c.pointers = s.pointers /\ c.active = s.active
        BY <1>1 DEF Members
      <3>2. Handle(h, s, e, h \in want) = Capture(c, e)
        BY <1>4, <2>3 DEF Handle, Asked, HandleSecond
      <3> HIDE DEF c
      <3> QED
        BY <1>4, <2>1, <3>1, <3>2, CaptureCounts
    <2> QED
      BY <2>2, <2>3
  <1>5. CASE Answers(h, s, e) /\ e.num \notin s.pointers /\ ~Takes(h, s, e, h \in want)
    <2>1. Handle(h, s, e, h \in want) = LetPass(s, e)
      BY <1>5 DEF Handle, Asked
    <2>2. CASE s.active = 0
      <3> DEFINE c == Consume(s, e)
      <3>1. c \in Members /\ c.enabled = s.enabled /\ c.pointers = s.pointers /\ c.active = s.active
        BY ConsumeKeeps
      <3>2. LetPass(s, e) = [c EXCEPT !.clear_pos = TRUE, !.clear_down = TRUE]
        BY <2>2 DEF LetPass
      <3> HIDE DEF c
      <3>3. /\ LetPass(s, e) \in Members /\ LetPass(s, e).enabled = s.enabled
            /\ LetPass(s, e).pointers = s.pointers /\ LetPass(s, e).active = s.active
        BY <3>1, <3>2 DEF Members
      <3> QED
        BY <1>5, <2>1, <3>3
    <2>3. CASE s.active # 0
      BY <1>5, <2>1, <2>3 DEF LetPass
    <2> QED
      BY <2>2, <2>3
  <1> QED
    BY <1>2, <1>3, <1>4, <1>5

LEMMA EndFrameKeeps ==
  ASSUME NEW s \in Members
  PROVE  LET t == EndFrameOf(s) IN
         /\ t \in Members
         /\ t.enabled = s.enabled /\ t.pointers = s.pointers /\ t.active = s.active
  <1> DEFINE c == [s EXCEPT !.mouse_pos  = IF s.clear_pos THEN NoPointer ELSE @,
                           !.mouse_down = @ /\ ~s.clear_down,
                           !.clear_pos = FALSE, !.clear_down = FALSE]
  <1>1. c \in Members /\ c.enabled = s.enabled /\ c.pointers = s.pointers /\ c.active = s.active
    BY DEF Members
  <1>2. EndFrameOf(s) = IF s.delayed = NoPointer THEN c
                        ELSE [c EXCEPT !.mouse_down = TRUE, !.mouse_pos = s.delayed,
                                       !.delayed = NoPointer]
    BY DEF EndFrameOf
  <1>3. s.delayed \in Pointers \cup {NoPointer}
    BY DEF Members
  <1> HIDE DEF c
  <1> QED
    BY <1>1, <1>2, <1>3 DEF Members

----------------------------------------------------------------------------
(* on_touch() *)
LEMMA HandlersFinite == IsFiniteSet(Handlers)
  <1>1. Chain \in Seq(Handlers)
    BY TouchAssumption
  <1>2. Len(Chain) \in Nat /\ DOMAIN Chain = 1 .. Len(Chain)
    BY <1>1
  <1>3. IsFiniteSet(1 .. Len(Chain))
    BY <1>2, FS_Interval
  <1>4. Handlers = {Chain[i] : i \in DOMAIN Chain}
    BY DEF Handlers, ToSet
  <1>5. Chain \in Surjection(1 .. Len(Chain), Handlers)
    <2>1. Chain \in [1 .. Len(Chain) -> Handlers]
      BY <1>1, <1>2
    <2>2. \A h \in Handlers : \E i \in 1 .. Len(Chain) : Chain[i] = h
      BY <1>2, <1>4
    <2> QED
      BY <2>1, <2>2 DEF Surjection
  <1> QED
    BY <1>3, <1>5, FS_Surjection

(* No handler is asked before itself, and the ones asked before one of     *)
(* them are asked before the handler.                                      *)
LEMMA BeforeIsOrder ==
  ASSUME NEW g \in Handlers, NEW h \in Handlers, g \in Before(h)
  PROVE  Before(g) \subseteq Before(h) /\ g \notin Before(g)
  <1>1. Chain \in Seq(Handlers) /\ \A i, j \in DOMAIN Chain : Chain[i] = Chain[j] => i = j
    BY TouchAssumption DEF IsInjective
  <1>2. DOMAIN Chain \subseteq Int
    BY <1>1
  <1>3. PICK i, j \in DOMAIN Chain : i < j /\ Chain[i] = g /\ Chain[j] = h
    BY DEF Before
  <1>4. g \notin Before(g)
    <2> SUFFICES ASSUME NEW k \in DOMAIN Chain, NEW l \in DOMAIN Chain,
                        k < l, Chain[k] = g, Chain[l] = g
                 PROVE  FALSE
      BY DEF Before
    <2>1. k = l
      BY <1>1
    <2> QED
      BY <1>2, <2>1
  <1>5. Before(g) \subseteq Before(h)
    <2> SUFFICES ASSUME NEW f \in Handlers, NEW k \in DOMAIN Chain, NEW l \in DOMAIN Chain,
                        k < l, Chain[k] = f, Chain[l] = g
                 PROVE  f \in Before(h)
      BY DEF Before
    <2>1. l = i
      BY <1>1, <1>3
    <2>2. k < j
      BY <1>2, <1>3, <2>1
    <2> QED
      BY <1>3, <2>2 DEF Before
  <1> QED
    BY <1>4, <1>5

Takers(e, want) == {h \in Handlers : Takes(h, handler[h], e, h \in want)}

(* The taker takes the event and none asked before it does. *)
LEMMA TakerIsFirst ==
  ASSUME NEW e, NEW want, Takers(e, want) # {}
  PROVE  /\ TakerOf(e, want) \in Takers(e, want)
         /\ Before(TakerOf(e, want)) \cap Takers(e, want) = {}
  <1> DEFINE S == Takers(e, want)
             R == StrictSubsetOrdering(Handlers)
             T == {Before(h) : h \in S}
  <1>1. S \subseteq Handlers
    BY DEF Takers
  <1>2. T \subseteq SUBSET Handlers /\ T # {}
    <2>1. \A h \in S : Before(h) \in SUBSET Handlers
      BY DEF Before
    <2> HIDE DEF S
    <2>2. S # {}
      BY DEF S
    <2> QED
      BY <2>1, <2>2
  <1>3. PICK b \in T : \A c \in T : ~ (<<c, b>> \in R)
    <2>1. IsWellFoundedOn(R, SUBSET Handlers)
      <3>1. IsWellFoundedOn(R, FiniteSubsetsOf(Handlers))
        BY FS_StrictSubsetOrderingWellFounded
      <3>2. FiniteSubsetsOf(Handlers) = SUBSET Handlers
        BY HandlersFinite, FS_FiniteSubsetsOfFinite
      <3> QED
        BY <3>1, <3>2
    <2> HIDE DEF R, T
    <2> QED
      BY <1>2, <2>1, WFMin
  <1>4. PICK h \in S : b = Before(h)
    BY <1>3
  <1>5. Before(h) \cap S = {}
    <2> SUFFICES ASSUME NEW g \in S, g \in Before(h) PROVE FALSE
      OBVIOUS
    <2>1. Before(g) \subseteq Before(h) /\ Before(g) # Before(h)
      BY <1>1, BeforeIsOrder
    <2>2. <<Before(g), b>> \in R
      <3>1. Before(g) \in SUBSET Handlers /\ Before(h) \in SUBSET Handlers
        BY DEF Before
      <3> QED
        BY <1>4, <2>1, <3>1 DEF StrictSubsetOrdering
    <2> QED
      BY <1>3, <2>2
  <1>6. TakerOf(e, want) = CHOOSE f \in S : Before(f) \cap S = {}
    BY DEF TakerOf, Takers
  <1> HIDE DEF S
  <1> QED
    BY <1>4, <1>5, <1>6 DEF S

LEMMA NoTaker ==
  ASSUME NEW e, NEW want, Takers(e, want) = {}
  PROVE  TakerOf(e, want) = "none"
  BY DEF TakerOf, Takers

----------------------------------------------------------------------------
(* The input thread *)

(* What one call of a hook queues: the event of the finger, if it is no    *)
(* MOVE, and MOVEs.                                                        *)
Queues(type, num, events) ==
  /\ events \in Seq(Event)
  /\ \A i \in DOMAIN events : events[i].type # "MOVE" =>
        i = 1 /\ events[i].type = type /\ events[i].num = num
  /\ type # "MOVE" => 1 \in DOMAIN events /\ events[1].type = type /\ events[1].num = num

LEMMA SubmitStep ==
  ASSUME IInv, NEW type \in Types, NEW num \in Pointers, NEW events,
         Queues(type, num, events), Touch(type, num), Submit(events)
  PROVE  IInv'
  <1>1. /\ queue \in Seq(Event) /\ events \in Seq(Event) /\ queue' = queue \o events
        /\ fingers \subseteq Pointers /\ UNCHANGED <<phase, handler, history>>
    BY DEF IInv, TypeOK, Queues, Submit
  <1>2. /\ queue' \in Seq(Event) /\ Len(queue') = Len(queue) + Len(events)
        /\ Len(queue) \in Nat /\ Len(events) \in Nat
        /\ DOMAIN queue = 1 .. Len(queue) /\ DOMAIN events = 1 .. Len(events)
        /\ DOMAIN queue' = 1 .. Len(queue')
    BY <1>1
  <1>3. /\ \A i \in 1 .. Len(queue) : queue'[i] = queue[i]
        /\ \A i \in 1 .. Len(events) : queue'[Len(queue) + i] = events[i]
    BY <1>1, <1>2
  <1>4. type \in {"PUSH", "MOVE", "POP"}
    BY DEF Types
  <1>5. \A i \in DOMAIN queue' : i \notin DOMAIN queue => i - Len(queue) \in DOMAIN events
           /\ queue'[i] = events[i - Len(queue)]
    BY <1>2, <1>3
  <1>6. TypeOK'
    <2>1. fingers' \subseteq Pointers
      BY <1>1, <1>4 DEF Touch
    <2>2. Len(queue') <= MaxQueue
      BY <1>2 DEF Submit
    <2> QED
      BY <1>1, <1>2, <2>1, <2>2 DEF IInv, TypeOK, history
  <1>7. HolderIsTaker' /\ OwnerHolds'
    BY <1>1 DEF IInv, HolderIsTaker, OwnerHolds, history
  (* A press is an old one, or that of the finger, at the first new place. *)
  <1>8. ASSUME NEW p, NEW j \in 0 .. Len(queue'), Pressed(p, j)'
        PROVE  \/ j \in 0 .. Len(queue) /\ Pressed(p, j)
               \/ j = Len(queue) + 1 /\ p = num /\ type = "PUSH"
    <2>1. CASE j = 0 /\ owner'[p] # "none"
      BY <1>1, <1>2, <2>1 DEF Pressed, history
    <2>2. CASE IsType(j, "PUSH", p)' /\ j \in DOMAIN queue
      BY <1>2, <1>3, <2>2 DEF Pressed, IsType
    <2>3. CASE IsType(j, "PUSH", p)' /\ j \notin DOMAIN queue
      <3>1. j \in DOMAIN queue' /\ queue'[j].type = "PUSH" /\ queue'[j].num = p
        BY <2>3 DEF IsType
      <3>2. j - Len(queue) \in DOMAIN events /\ queue'[j] = events[j - Len(queue)]
        BY <1>5, <2>3, <3>1
      <3>3. j - Len(queue) = 1 /\ type = "PUSH" /\ num = p
        BY <3>1, <3>2 DEF Queues
      <3> QED
        BY <1>2, <3>3
    <2> QED
      BY <1>8, <2>1, <2>2, <2>3 DEF Pressed
  <1>9. ASSUME NEW p, NEW k, IsType(k, "POP", p)
        PROVE  IsType(k, "POP", p)'
    BY <1>2, <1>3, <1>9 DEF IsType
  (* Up to the old end nothing has changed. *)
  <1>10. ASSUME NEW p, NEW n \in 1 .. Len(queue) + 1, Freed(p, n)
         PROVE  Freed(p, n)'
    <2> SUFFICES ASSUME NEW j \in 0 .. n - 1, Pressed(p, j)'
                 PROVE  \E k \in 1 .. n - 1 : j < k /\ IsType(k, "POP", p)'
      BY DEF Freed
    <2>1. j \in 0 .. Len(queue) /\ j \in 0 .. Len(queue')
      BY <1>2
    <2>2. Pressed(p, j)
      BY <1>2, <1>8, <2>1
    <2>3. PICK k \in 1 .. n - 1 : j < k /\ IsType(k, "POP", p)
      BY <1>10, <2>2 DEF Freed
    <2> QED
      BY <1>9, <2>3
  <1>11. ASSUME NEW n \in DOMAIN queue', queue'[n].type = "PUSH"
         PROVE  Freed(queue[n].num, n)'
    <2>1. CASE n \in DOMAIN queue
      <3>1. queue[n].type = "PUSH" /\ queue'[n].num = queue[n].num
        BY <1>2, <1>3, <1>11, <2>1
      <3>2. Freed(queue[n].num, n)
        BY <2>1, <3>1 DEF IInv, Alternate
      <3>3. n \in 1 .. Len(queue) + 1
        BY <1>2, <2>1
      <3> QED
        BY <1>10, <3>1, <3>2, <3>3
    <2>2. CASE n \notin DOMAIN queue
      <3>1. n - Len(queue) \in DOMAIN events /\ queue'[n] = events[n - Len(queue)]
        BY <1>5, <2>2
      <3>2. n = Len(queue) + 1 /\ type = "PUSH" /\ queue'[n].num = num
        BY <1>2, <1>11, <3>1 DEF Queues
      <3>3. Freed(num, n)
        BY <3>2 DEF IInv, Alternate, Touch
      <3> QED
        BY <1>2, <1>10, <3>2, <3>3
    <2> QED
      BY <2>1, <2>2
  <1>12. ASSUME NEW p \in Pointers \ fingers'
         PROVE  Freed(p, Len(queue) + 1)'
    <2> SUFFICES ASSUME NEW j \in 0 .. Len(queue'), Pressed(p, j)'
                 PROVE  \E k \in 1 .. Len(queue') : j < k /\ IsType(k, "POP", p)'
      BY <1>2 DEF Freed
    <2>1. type = "PUSH" => p # num
      BY <1>12 DEF Touch
    <2>2. j \in 0 .. Len(queue) /\ Pressed(p, j)
      BY <1>8, <2>1
    <2>3. CASE p \notin fingers
      <3>1. Freed(p, Len(queue) + 1)
        BY <2>3 DEF IInv, Alternate
      <3>2. PICK k \in 1 .. Len(queue) : j < k /\ IsType(k, "POP", p)
        BY <1>2, <2>2, <3>1 DEF Freed
      <3> QED
        BY <1>2, <1>9, <3>2
    <2>4. CASE p \in fingers
      <3>1. type = "POP" /\ p = num
        BY <1>4, <1>12, <2>4 DEF Touch
      <3>2. 1 \in DOMAIN events /\ events[1].type = "POP" /\ events[1].num = p
        BY <3>1 DEF Queues
      <3>3. PICK n : n = Len(queue) + 1
        OBVIOUS
      <3>4. 1 \in 1 .. Len(events) /\ n \in 1 .. Len(queue')
        BY <1>2, <3>2, <3>3
      <3>5. queue'[n] = events[1]
        BY <1>3, <3>3, <3>4
      <3>6. IsType(n, "POP", p)'
        BY <1>2, <3>2, <3>4, <3>5 DEF IsType
      <3>7. j < n
        BY <1>2, <2>2, <3>3
      <3> QED
        BY <3>4, <3>6, <3>7
    <2> QED
      BY <2>3, <2>4
  <1> QED
    BY <1>6, <1>7, <1>11, <1>12 DEF IInv, Alternate

LEMMA InputStep ==
  ASSUME IInv, NEW type \in Types, NEW num \in Pointers,
         \/ TouchEvent(type, num)
         \/ \E moved \in SUBSET Pointers : NvEvent(type, num, moved)
  PROVE  IInv'
  <1>1. [type |-> type, num |-> num] \in Event
    BY DEF Event
  <1>2. CASE TouchEvent(type, num)
    <2> DEFINE events == <<[type |-> type, num |-> num]>>
    <2>1. Queues(type, num, events)
      BY <1>1 DEF Queues
    <2> QED
      BY <1>2, <2>1, SubmitStep DEF TouchEvent
  <1>3. ASSUME NEW moved \in SUBSET Pointers, NvEvent(type, num, moved) PROVE IInv'
    <2>1. PICK order \in InOrder(moved) :
            Submit((IF type = "MOVE" THEN <<>> ELSE <<[type |-> type, num |-> num]>>)
                     \o [i \in DOMAIN order |-> [type |-> "MOVE", num |-> order[i]]])
      BY <1>3 DEF NvEvent
    <2> DEFINE own   == IF type = "MOVE" THEN <<>> ELSE <<[type |-> type, num |-> num]>>
               moves == [i \in DOMAIN order |-> [type |-> "MOVE", num |-> order[i]]]
    <2>2. Cardinality(moved) \in Nat /\ order \in [1 .. Cardinality(moved) -> moved]
      BY TouchAssumption, FS_Subset, FS_CardinalityType DEF InOrder
    <2>3. moves \in Seq(Event) /\ \A i \in DOMAIN moves : moves[i].type = "MOVE"
      <3>1. \A i \in 1 .. Cardinality(moved) : [type |-> "MOVE", num |-> order[i]] \in Event
        BY <2>2 DEF Event, Types
      <3> QED
        BY <2>2, <3>1
    <2>4. own \in Seq(Event) /\ (type = "MOVE" => Len(own) = 0)
          /\ (type # "MOVE" => Len(own) = 1 /\ own[1].type = type /\ own[1].num = num)
      BY <1>1
    <2> HIDE DEF own, moves
    <2>5. Queues(type, num, own \o moves)
      BY <2>3, <2>4 DEF Queues
    <2> QED
      BY <1>3, <2>1, <2>5, SubmitStep DEF NvEvent, own, moves
  <1> QED
    BY <1>2, <1>3

----------------------------------------------------------------------------
(* The main thread *)

(* The first event has been taken off the queue. *)
LEMMA QueueShrinks ==
  ASSUME queue \in Seq(Event), queue # <<>>, queue' = Tail(queue)
  PROVE  /\ Head(queue) \in Event /\ queue' \in Seq(Event)
         /\ Len(queue) \in Nat \ {0} /\ Len(queue') = Len(queue) - 1
         /\ DOMAIN queue = 1 .. Len(queue) /\ DOMAIN queue' = 1 .. Len(queue) - 1
         /\ \A i \in DOMAIN queue' : queue'[i] = queue[i + 1]
         /\ \A i \in DOMAIN queue \ {1} : i - 1 \in DOMAIN queue' /\ queue'[i - 1] = queue[i]
  OBVIOUS

LEMMA FreedShrinks ==
  ASSUME IInv, queue # <<>>, queue' = Tail(queue),
         NEW p, NEW n \in 1 .. Len(queue), Freed(p, n + 1),
         owner'[p] # "none" => IsType(1, "PUSH", p) \/ (owner[p] # "none" /\ ~IsType(1, "POP", p))
  PROVE  Freed(p, n)'
  <1>1. /\ Len(queue) \in Nat \ {0} /\ Len(queue') = Len(queue) - 1
        /\ DOMAIN queue = 1 .. Len(queue) /\ DOMAIN queue' = 1 .. Len(queue) - 1
        /\ \A i \in DOMAIN queue' : queue'[i] = queue[i + 1]
        /\ \A i \in DOMAIN queue \ {1} : i - 1 \in DOMAIN queue' /\ queue'[i - 1] = queue[i]
    BY QueueShrinks DEF IInv, TypeOK
  <1> SUFFICES ASSUME NEW j \in 0 .. n - 1, Pressed(p, j)'
               PROVE  \E k \in 1 .. n - 1 : j < k /\ IsType(k, "POP", p)'
    BY DEF Freed
  <1>2. ASSUME NEW k \in 2 .. n, j + 1 < k, IsType(k, "POP", p)
        PROVE  \E l \in 1 .. n - 1 : j < l /\ IsType(l, "POP", p)'
    <2>1. PICK l : l = k - 1
      OBVIOUS
    <2>2. l \in 1 .. n - 1 /\ j < l
      BY <1>2, <2>1
    <2>3. k \in DOMAIN queue \ {1} /\ queue[k].type = "POP" /\ queue[k].num = p
      BY <1>2 DEF IsType
    <2>4. IsType(l, "POP", p)'
      BY <1>1, <2>1, <2>3 DEF IsType
    <2> QED
      BY <2>2, <2>4
  <1>3. CASE Pressed(p, j + 1)
    <2>1. PICK k \in 1 .. n : j + 1 < k /\ IsType(k, "POP", p)
      BY <1>3 DEF Freed
    <2> QED
      BY <1>2, <2>1
  <1>4. CASE j = 0 /\ owner'[p] # "none"
    <2>1. CASE IsType(1, "PUSH", p)
      <3>1. Pressed(p, 1)
        BY <2>1 DEF Pressed
      <3> QED
        BY <1>3, <1>4, <3>1
    <2>2. CASE owner[p] # "none" /\ ~IsType(1, "POP", p)
      <3>1. Pressed(p, 0)
        BY <2>2 DEF Pressed
      <3>2. PICK k \in 1 .. n : 0 < k /\ IsType(k, "POP", p)
        BY <3>1 DEF Freed
      <3>3. k # 1
        BY <2>2, <3>2
      <3> QED
        BY <1>2, <1>4, <3>2, <3>3
    <2> QED
      BY <1>4, <2>1, <2>2
  <1>5. CASE IsType(j, "PUSH", p)'
    <2>1. j \in DOMAIN queue' /\ queue'[j].type = "PUSH" /\ queue'[j].num = p
      BY <1>5 DEF IsType
    <2>2. IsType(j + 1, "PUSH", p)
      BY <1>1, <2>1 DEF IsType
    <2>3. Pressed(p, j + 1)
      BY <2>2 DEF Pressed
    <2> QED
      BY <1>3, <2>3
  <1> QED
    BY <1>4, <1>5 DEF Pressed

(* One takes the event, the others let it pass. *)
LEMMA OnTouchTaker ==
  ASSUME IInv, NEW want, OnTouch(want)
  PROVE  LET e == Head(queue)
             taker == TakerOf(e, want)
             asked == IF taker = "none" THEN Handlers ELSE Before(taker) \cup {taker}
         IN /\ taker \in Handlers \cup {"none"}
            /\ taker # "none" => Takes(taker, handler[taker], e, taker \in want) /\ taker \in asked
            /\ \A h \in Handlers \cap asked :
                 h # taker => ~ Takes(h, handler[h], e, h \in want)
  <1> DEFINE e == Head(queue)
             taker == TakerOf(e, want)
             asked == IF taker = "none" THEN Handlers ELSE Before(taker) \cup {taker}
  <1>0. "none" \notin Handlers
    BY TouchAssumption
  <1>1. /\ taker \in Handlers \cup {"none"}
        /\ taker # "none" => Takes(taker, handler[taker], e, taker \in want) /\ taker \in asked
        /\ \A h \in Handlers \cap asked :
             h # taker => ~ Takes(h, handler[h], e, h \in want)
    <2>1. CASE Takers(e, want) = {}
      <3>1. taker = "none"
        BY <2>1, NoTaker
      <3> QED
        BY <2>1, <3>1 DEF Takers
    <2>2. CASE Takers(e, want) # {}
      <3>1. taker \in Takers(e, want) /\ Before(taker) \cap Takers(e, want) = {}
        BY <2>2, TakerIsFirst
      <3> HIDE DEF taker, e
      <3>2. taker \in Handlers /\ Takes(taker, handler[taker], e, taker \in want)
        BY <3>1 DEF Takers
      <3>3. asked = Before(taker) \cup {taker}
        BY <1>0, <3>2
      <3>4. \A h \in Handlers \cap Before(taker) : ~ Takes(h, handler[h], e, h \in want)
        BY <3>1 DEF Takers
      <3> QED
        BY <3>2, <3>3, <3>4
    <2> QED
      BY <2>1, <2>2
  <1> QED
    BY <1>1

LEMMA OnTouchStep ==
  ASSUME IInv, NEW want, OnTouch(want)
  PROVE  IInv'
  <1> DEFINE e == Head(queue)
             taker == TakerOf(e, want)
             asked == IF taker = "none" THEN Handlers ELSE Before(taker) \cup {taker}
  <1>1. /\ queue # <<>> /\ queue \in Seq(Event) /\ queue' = Tail(queue)
        /\ e \in Event /\ e.num \in Pointers /\ e.type \in {"PUSH", "MOVE", "POP"}
        /\ 1 \in DOMAIN queue /\ queue[1] = e
    <2>1. queue # <<>> /\ queue \in Seq(Event) /\ queue' = Tail(queue)
      BY DEF OnTouch, IInv, TypeOK
    <2>2. e \in Event /\ queue[1] = e /\ 1 \in DOMAIN queue
      BY <2>1
    <2> QED
      BY <2>1, <2>2 DEF Event, Types
  <1>2. /\ handler \in [Handlers -> Members]
        /\ owner \in [Pointers -> Handlers \cup {"none"}]
        /\ "none" \notin Handlers
    BY TouchAssumption DEF IInv, TypeOK
  <1>3. /\ taker \in Handlers \cup {"none"}
        /\ taker # "none" => Takes(taker, handler[taker], e, taker \in want) /\ taker \in asked
        /\ \A h \in Handlers \cap asked :
             h # taker => ~ Takes(h, handler[h], e, h \in want)
    BY OnTouchTaker
  <1>4. handler' = [h \in Handlers |-> IF h \in asked
                                       THEN Handle(h, handler[h], e, h \in want)
                                       ELSE handler[h]]
    BY DEF OnTouch
  <1>5. owner' = [owner EXCEPT ![e.num] = CASE e.type = "PUSH" -> taker
                                            [] e.type = "POP"  -> "none"
                                            [] e.type = "MOVE" -> @]
    BY DEF OnTouch
  <1>6. /\ dropped' = {d \in dropped : d[2] # e.num \/ d[1] # taker \/ e.type = "MOVE"}
                        \cup {<<h, e.num>> : h \in {h \in Handlers \ {taker} :
                                 /\ e.type = "POP" /\ taker # "none"
                                 /\ owner[e.num] = h}}
        /\ phase' = (IF taker = "none" THEN "script" ELSE "pass")
        /\ lost' = {h \in lost : handler'[h].active > 0}
                     \cup {h \in {taker} \cap Renderers :
                            e.type = "PUSH" /\ (handler[h].clear_pos \/ handler[h].clear_down)}
        /\ ghosts' = (ghosts \ (IF e.type = "MOVE" THEN {} ELSE {taker}))
                       \cup {h \in {taker} \ {"none"} :
                               /\ e.type = "POP" /\ handler[h].delayed # NoPointer
                               /\ handler[h].delayed \notin handler'[h].pointers}
        /\ fingers' = fingers
    BY DEF OnTouch
  <1> HIDE DEF taker, asked, e
  <1>7. ASSUME NEW h \in Handlers
        PROVE  /\ handler'[h] \in Members
               /\ handler'[h].enabled = handler[h].enabled
               /\ handler'[h].active = Cardinality(handler'[h].pointers)
               /\ h # taker => handler'[h].pointers = handler[h].pointers
               /\ h = taker =>
                    /\ handler[h].enabled /\ e.num < MaxPointers
                    /\ e.type = "PUSH" => handler'[h].pointers = handler[h].pointers \cup {e.num}
                    /\ e.type = "POP"  => handler'[h].pointers = handler[h].pointers \ {e.num}
                    /\ e.type = "MOVE" => handler'[h].pointers = handler[h].pointers
    <2>1. handler[h] \in Members /\ handler[h].active = Cardinality(handler[h].pointers)
      BY <1>2 DEF IInv, HolderIsTaker
    <2>2. IsFiniteSet(handler[h].pointers)
      BY <2>1, TouchAssumption, FS_Subset DEF Members
    <2>3. CASE h \in asked
      <3>1. handler'[h] = Handle(h, handler[h], e, h \in want)
        BY <1>4, <2>3
      <3>2. CASE h # taker
        <4>1. ~ Takes(h, handler[h], e, h \in want)
          BY <1>3, <2>3, <3>2
        <4> QED
          BY <1>1, <2>1, <2>2, <3>1, <3>2, <4>1, HandleCounts
      <3>3. CASE h = taker
        <4>1. Takes(h, handler[h], e, h \in want)
          BY <1>2, <1>3, <3>3
        <4>2. handler[h].enabled /\ e.num < MaxPointers
          BY <4>1 DEF Takes, Answers
        <4>3. /\ handler'[h] \in Members
              /\ handler'[h].enabled = handler[h].enabled
              /\ handler'[h].active = Cardinality(handler'[h].pointers)
              /\ e.type = "PUSH" => handler'[h].pointers = handler[h].pointers \cup {e.num}
              /\ e.type = "POP"  => handler'[h].pointers = handler[h].pointers \ {e.num}
              /\ e.type = "MOVE" => handler'[h].pointers = handler[h].pointers
          BY <1>1, <2>1, <2>2, <3>1, <4>1, HandleCounts
        <4> QED
          BY <3>3, <4>2, <4>3
      <3> QED
        BY <3>2, <3>3
    <2>4. CASE h \notin asked
      <3>1. handler'[h] = handler[h] /\ h # taker
        BY <1>2, <1>3, <1>4, <2>4
      <3> QED
        BY <2>1, <3>1
    <2> QED
      BY <2>3, <2>4
  <1>8. /\ owner' \in [Pointers -> Handlers \cup {"none"}]
        /\ \A p \in Pointers : p # e.num => owner'[p] = owner[p]
        /\ e.type = "PUSH" => owner'[e.num] = taker
        /\ e.type = "POP"  => owner'[e.num] = "none"
        /\ e.type = "MOVE" => owner'[e.num] = owner[e.num]
    BY <1>1, <1>2, <1>3, <1>5
  (* A PUSH finds its pointer without an owner. *)
  <1>9. e.type = "PUSH" => owner[e.num] = "none"
    <2> SUFFICES ASSUME e.type = "PUSH", owner[e.num] # "none" PROVE FALSE
      OBVIOUS
    <2>1. Freed(e.num, 1)
      BY <1>1 DEF IInv, Alternate
    <2>2. Pressed(e.num, 0)
      BY DEF Pressed
    <2>3. \E k \in 1 .. 0 : IsType(k, "POP", e.num)
      BY <2>1, <2>2 DEF Freed
    <2> QED
      BY <2>3
  <1>10. TypeOK'
    <2>1. handler' \in [Handlers -> Members]
      BY <1>4, <1>7
    <2>2. queue' \in Seq(Event) /\ Len(queue') <= MaxQueue
      <3>1. queue' \in Seq(Event) /\ Len(queue') = Len(queue) - 1 /\ Len(queue) \in Nat
        BY <1>1, QueueShrinks
      <3>2. Len(queue) <= MaxQueue /\ MaxQueue \in Nat
        BY TouchAssumption DEF IInv, TypeOK
      <3> QED
        BY <3>1, <3>2
    <2>3. dropped' \subseteq Handlers \X Pointers
      BY <1>1, <1>6 DEF IInv, TypeOK
    <2>4. lost' \subseteq Renderers /\ ghosts' \subseteq Handlers
      BY <1>3, <1>6 DEF IInv, TypeOK
    <2> QED
      BY <1>6, <1>8, <2>1, <2>2, <2>3, <2>4 DEF IInv, TypeOK
  <1>11. HolderIsTaker'
    <2> SUFFICES ASSUME NEW h \in Handlers, NEW p \in Pointers, <<h, p>> \notin dropped'
                 PROVE  p \in handler'[h].pointers <=> owner'[p] = h
      BY <1>7 DEF HolderIsTaker
    <2>1. <<h, p>> \notin dropped => (p \in handler[h].pointers <=> owner[p] = h)
      BY DEF IInv, HolderIsTaker
    <2>2. <<h, p>> \in dropped => p = e.num /\ h = taker /\ e.type # "MOVE"
      BY <1>6
    <2>3. CASE p # e.num
      BY <1>1, <1>7, <1>8, <2>1, <2>2, <2>3
    <2>4. CASE p = e.num /\ e.type = "PUSH"
      BY <1>2, <1>7, <1>8, <1>9, <2>1, <2>2, <2>4
    <2>5. CASE p = e.num /\ e.type = "POP"
      (* The owner is enabled and has the pointer: somebody takes the POP. *)
      <3>2. ASSUME taker = "none", owner[p] = h PROVE FALSE
        <4>1. handler[h].enabled /\ p \in handler[h].pointers /\ p < MaxPointers
          BY <1>2, <3>2 DEF IInv, OwnerHolds
        <4>2. Takes(h, handler[h], e, h \in want)
          BY <2>5, <4>1 DEF Takes, Answers, IsNumValid
        <4>3. h \in asked /\ h # taker
          BY <1>2, <3>2 DEF asked
        <4> QED
          BY <1>3, <4>2, <4>3
      <3>1. h # taker => owner[p] # h
        BY <1>6, <2>5, <3>2
      <3> QED
        BY <1>2, <1>7, <1>8, <2>1, <2>2, <2>5, <3>1
    <2>6. CASE p = e.num /\ e.type = "MOVE"
      BY <1>7, <1>8, <2>1, <2>2, <2>6
    <2> QED
      BY <1>1, <2>3, <2>4, <2>5, <2>6
  <1>12. OwnerHolds'
    <2> SUFFICES ASSUME NEW p \in Pointers, owner'[p] # "none"
                 PROVE  /\ handler'[owner'[p]].enabled
                        /\ p \in handler'[owner'[p]].pointers
                        /\ p < MaxPointers
      BY DEF OwnerHolds
    <2>1. owner'[p] \in Handlers
      BY <1>8
    <2>2. CASE owner'[p] = owner[p] /\ (p = e.num => e.type = "MOVE")
      <3>1. /\ handler[owner'[p]].enabled /\ p \in handler[owner'[p]].pointers
            /\ p < MaxPointers
        BY <2>2 DEF IInv, OwnerHolds
      <3> QED
        BY <1>1, <1>7, <2>1, <2>2, <3>1
    <2>3. CASE p = e.num /\ e.type = "PUSH"
      BY <1>7, <1>8, <2>1, <2>3
    <2> QED
      BY <1>1, <1>8, <2>2, <2>3
  <1>13. ASSUME NEW p \in Pointers, owner'[p] # "none"
         PROVE  IsType(1, "PUSH", p) \/ (owner[p] # "none" /\ ~IsType(1, "POP", p))
    BY <1>1, <1>8, <1>13 DEF IsType
  <1>14. Alternate'
    <2>1. /\ Len(queue) \in Nat \ {0} /\ Len(queue') = Len(queue) - 1
          /\ DOMAIN queue = 1 .. Len(queue) /\ DOMAIN queue' = 1 .. Len(queue) - 1
          /\ \A i \in DOMAIN queue' : queue'[i] = queue[i + 1]
          /\ queue' \in Seq(Event)
      BY <1>1, QueueShrinks
    <2>2. ASSUME NEW n \in DOMAIN queue', queue'[n].type = "PUSH"
          PROVE  Freed(queue[n].num, n)'
      <3>1. n + 1 \in DOMAIN queue /\ queue[n + 1] = queue'[n] /\ n \in 1 .. Len(queue)
        BY <2>1
      <3>2. Freed(queue'[n].num, n + 1)
        BY <2>2, <3>1 DEF IInv, Alternate
      <3>3. queue'[n].num \in Pointers
        <4>1. queue'[n] \in Event
          BY <2>1, <2>2
        <4> QED
          BY <4>1 DEF Event
      <3>4. PICK p \in Pointers : p = queue'[n].num
        BY <3>3
      <3>5. Freed(p, n)'
        BY <1>1, <1>13, <3>1, <3>2, <3>4, FreedShrinks
      <3> QED
        BY <3>4, <3>5
    <2>3. ASSUME NEW p \in Pointers \ fingers'
          PROVE  Freed(p, Len(queue) + 1)'
      <3>1. Freed(p, Len(queue) + 1)
        BY <1>6, <2>3 DEF IInv, Alternate
      <3>2. PICK n : n = Len(queue)
        OBVIOUS
      <3>3. n \in 1 .. Len(queue) /\ n = Len(queue') + 1
        BY <2>1, <3>2
      <3>4. Freed(p, n)'
        BY <1>1, <1>13, <3>1, <3>2, <3>3, FreedShrinks
      <3> QED
        BY <3>3, <3>4
    <2> QED
      BY <2>2, <2>3 DEF Alternate
  <1> QED
    BY <1>10, <1>11, <1>12, <1>14 DEF IInv

(* A step that leaves the queue, the fingers and the owners alone, and the *)
(* captured pointers of every handler.                                     *)
LEMMA HandlersKept ==
  ASSUME IInv, UNCHANGED <<fingers, queue, owner, dropped, lost, ghosts>>,
         phase' \in {"frame", "pass", "script"}, handler' \in [Handlers -> Members],
         \A h \in Handlers : /\ handler'[h].pointers = handler[h].pointers
                             /\ handler'[h].active = handler[h].active
                             /\ handler[h].enabled => handler'[h].enabled
  PROVE  IInv'
  <1>1. TypeOK'
    BY DEF IInv, TypeOK
  <1>2. HolderIsTaker'
    BY DEF IInv, HolderIsTaker
  <1>3. OwnerHolds'
    <2>1. \A p \in Pointers : owner[p] # "none" => owner[p] \in Handlers
      BY DEF IInv, TypeOK
    <2> QED
      BY <2>1 DEF IInv, OwnerHolds
  <1>4. Alternate'
    BY DEF IInv, Alternate, Freed, Pressed, IsType
  <1> QED
    BY <1>1, <1>2, <1>3, <1>4 DEF IInv

(* A renderer loses its gestures: it is disabled, or made anew. *)
LEMMA GesturesEnd ==
  ASSUME IInv, NEW h \in Renderers, UNCHANGED <<fingers, queue, phase>>, Dropping(h),
         lost' \subseteq lost, ghosts' \subseteq ghosts,
         NEW s \in Members, handler' = [handler EXCEPT ![h] = s],
         s.active = Cardinality(s.pointers), dropped' \subseteq Handlers \X Pointers,
         \A p \in Pointers : <<h, p>> \notin dropped' => p \notin s.pointers,
         \A g \in Handlers \ {h}, p \in Pointers : <<g, p>> \in dropped => <<g, p>> \in dropped'
  PROVE  IInv'
  <1>1. /\ handler \in [Handlers -> Members] /\ owner \in [Pointers -> Handlers \cup {"none"}]
        /\ h \in Handlers /\ "none" \notin Handlers
    BY TouchAssumption DEF IInv, TypeOK, Renderers
  <1>2. handler'[h] = s /\ \A g \in Handlers \ {h} : handler'[g] = handler[g]
    BY <1>1
  <1>3. /\ owner' \in [Pointers -> Handlers \cup {"none"}]
        /\ \A p \in Pointers : owner'[p] = IF owner[p] = h THEN "none" ELSE owner[p]
    BY <1>1 DEF Dropping
  <1>4. TypeOK'
    <2>1. handler' \in [Handlers -> Members]
      BY <1>1
    <2> QED
      BY <1>3, <2>1 DEF IInv, TypeOK
  <1>5. HolderIsTaker'
    <2> SUFFICES ASSUME NEW g \in Handlers
                 PROVE  /\ handler'[g].active = Cardinality(handler'[g].pointers)
                        /\ \A p \in Pointers : <<g, p>> \notin dropped'
                             => (p \in handler'[g].pointers <=> owner'[p] = g)
      BY DEF HolderIsTaker
    <2>1. CASE g = h
      BY <1>1, <1>2, <1>3, <2>1
    <2>2. CASE g # h
      <3>1. /\ handler[g].active = Cardinality(handler[g].pointers)
            /\ \A p \in Pointers : <<g, p>> \notin dropped
                 => (p \in handler[g].pointers <=> owner[p] = g)
        BY DEF IInv, HolderIsTaker
      <3> QED
        BY <1>1, <1>2, <1>3, <2>2, <3>1
    <2> QED
      BY <2>1, <2>2
  <1>6. OwnerHolds'
    <2> SUFFICES ASSUME NEW p \in Pointers, owner'[p] # "none"
                 PROVE  /\ handler'[owner'[p]].enabled
                        /\ p \in handler'[owner'[p]].pointers
                        /\ p < MaxPointers
      BY DEF OwnerHolds
    <2>1. owner'[p] = owner[p] /\ owner[p] \in Handlers \ {h}
      BY <1>1, <1>3
    <2>2. /\ handler[owner[p]].enabled /\ p \in handler[owner[p]].pointers
          /\ p < MaxPointers
      BY <1>1, <2>1 DEF IInv, OwnerHolds
    <2> QED
      BY <1>2, <2>1, <2>2
  <1>7. Alternate'
    <2>1. ASSUME NEW p \in Pointers, NEW n, Freed(p, n) PROVE Freed(p, n)'
      <3>1. \A j : Pressed(p, j)' => Pressed(p, j)
        BY <1>1, <1>3 DEF Pressed, IsType
      <3>2. \A k : IsType(k, "POP", p)' <=> IsType(k, "POP", p)
        BY DEF IsType
      <3> QED
        BY <2>1, <3>1, <3>2 DEF Freed
    <2>2. queue \in Seq(Event)
      BY DEF IInv, TypeOK
    <2>3. \A n \in DOMAIN queue : queue[n].num \in Pointers
      <3>1. \A n \in DOMAIN queue : queue[n] \in Event
        BY <2>2
      <3> QED
        BY <3>1 DEF Event
    <2>4. ASSUME NEW n \in DOMAIN queue', queue'[n].type = "PUSH"
          PROVE  Freed(queue[n].num, n)'
      <3>1. PICK p \in Pointers : p = queue[n].num
        BY <2>3, <2>4
      <3>2. Freed(p, n)
        BY <2>4, <3>1 DEF IInv, Alternate
      <3>3. Freed(p, n)'
        BY <2>1, <3>2
      <3> QED
        BY <3>1, <3>3
    <2>5. ASSUME NEW p \in Pointers \ fingers' PROVE Freed(p, Len(queue) + 1)'
      <3>1. PICK n : n = Len(queue) + 1
        OBVIOUS
      <3>2. Freed(p, n)
        BY <2>5, <3>1 DEF IInv, Alternate
      <3>3. Freed(p, n)'
        BY <2>1, <3>2
      <3> QED
        BY <3>1, <3>3
    <2> QED
      BY <2>4, <2>5 DEF Alternate
  <1> QED
    BY <1>4, <1>5, <1>6, <1>7 DEF IInv

----------------------------------------------------------------------------
LEMMA FreshCounts == Fresh \in Members /\ Fresh.active = Cardinality(Fresh.pointers)
  <1>1. Cardinality({}) = 0
    BY FS_EmptySet
  <1> QED
    BY <1>1 DEF Fresh, Members

LEMMA InvariantInit == Init => IInv
  <1> SUFFICES ASSUME Init PROVE IInv
    OBVIOUS
  <1>1. queue = <<>> /\ Len(queue) = 0 /\ DOMAIN queue = {}
    BY DEF Init
  <1>2. \A h \in Handlers : handler[h] = Fresh
    BY DEF Init
  <1>3. \A p \in Pointers : owner[p] = "none"
    BY DEF Init
  <1>4. TypeOK
    <2>1. handler \in [Handlers -> Members]
      BY FreshCounts DEF Init
    <2> QED
      BY <1>1, <2>1, TouchAssumption DEF Init, TypeOK
  <1>5. HolderIsTaker
    <2>1. \A h \in Handlers : handler[h].active = Cardinality(handler[h].pointers)
      BY <1>2, FreshCounts
    <2>2. \A h \in Handlers : handler[h].pointers = {} /\ h # "none"
      BY <1>2, TouchAssumption DEF Fresh
    <2> QED
      BY <1>3, <2>1, <2>2 DEF HolderIsTaker
  <1>6. OwnerHolds
    BY <1>3 DEF OwnerHolds
  <1>7. Alternate
    <2>1. \A j : \A p \in Pointers : ~ Pressed(p, j)
      BY <1>1, <1>3 DEF Pressed, IsType
    <2> QED
      BY <1>1, <2>1 DEF Alternate, Freed
  <1> QED
    BY <1>4, <1>5, <1>6, <1>7 DEF IInv

LEMMA InvariantStep == IInv /\ [Next]_vars => IInv'
  <1> SUFFICES ASSUME IInv, [Next]_vars PROVE IInv'
    OBVIOUS
  <1>1. /\ handler \in [Handlers -> Members] /\ phase \in {"frame", "pass", "script"}
        /\ dropped \subseteq Handlers \X Pointers
    BY DEF IInv, TypeOK
  <1>2. Overlay \in Handlers
    <2>1. Chain \in Seq(Handlers) /\ Chain # <<>>
      BY TouchAssumption
    <2> QED
      BY <2>1 DEF Overlay
  <1>3. Renderers \subseteq Handlers
    BY DEF Renderers
  <1>4. ASSUME NEW type \in Types, NEW num \in Pointers,
               \/ TouchEvent(type, num)
               \/ \E moved \in SUBSET Pointers : NvEvent(type, num, moved)
        PROVE  IInv'
    BY <1>4, InputStep
  <1>5. CASE InitOverlay
    BY <1>1, <1>2, <1>5, HandlersKept DEF InitOverlay, history, Members
  <1>6. CASE ProcessTouch
    <2>1. CASE BeginTouches
      BY <1>1, <2>1, HandlersKept DEF BeginTouches, history
    <2>2. ASSUME NEW want, OnTouch(want) PROVE IInv'
      BY <2>2, OnTouchStep
    <2>3. CASE EndTouches
      BY <1>1, <2>3, HandlersKept DEF EndTouches, history
    <2> QED
      BY <1>6, <2>1, <2>2, <2>3 DEF ProcessTouch
  <1>7. ASSUME NEW h \in Renderers, EnableIO(h) PROVE IInv'
    BY <1>1, <1>3, <1>7, HandlersKept DEF EnableIO, history, Members
  <1>8. ASSUME NEW h \in Renderers, DisableIO(h) PROVE IInv'
    <2> DEFINE s == [handler[h] EXCEPT !.enabled = FALSE, !.mouse_down = FALSE,
                       !.mouse_pos = IF handler[h].mouse_down THEN NoPointer ELSE @]
    <2>1. handler[h] \in Members /\ handler[h].active = Cardinality(handler[h].pointers)
      BY <1>1, <1>3 DEF IInv, HolderIsTaker
    <2>2. s \in Members /\ s.pointers = handler[h].pointers /\ s.active = handler[h].active
      BY <2>1 DEF Members
    <2>3. handler' = [handler EXCEPT ![h] = s]
      BY <1>8 DEF DisableIO
    <2> HIDE DEF s
    <2>4. dropped' = dropped \cup {h} \X s.pointers /\ s.pointers \subseteq Pointers
      BY <1>8, <2>1, <2>2 DEF DisableIO, Members
    <2>5. dropped' \subseteq Handlers \X Pointers
      BY <1>1, <1>3, <2>4
    <2> QED
      BY <1>8, <2>1, <2>2, <2>3, <2>4, <2>5, GesturesEnd DEF DisableIO
  <1>9. ASSUME NEW h \in Renderers, Recreate(h) PROVE IInv'
    <2>1. Fresh \in Members /\ Fresh.active = Cardinality(Fresh.pointers) /\ Fresh.pointers = {}
      BY FreshCounts DEF Fresh
    <2>2. dropped' = {d \in dropped : d[1] # h} /\ handler' = [handler EXCEPT ![h] = Fresh]
          /\ UNCHANGED <<fingers, queue, phase>> /\ Dropping(h)
          /\ lost' \subseteq lost /\ ghosts' \subseteq ghosts
      BY <1>9 DEF Recreate
    <2>3. dropped' \subseteq Handlers \X Pointers
      BY <1>1, <2>2
    <2>4. \A g \in Handlers \ {h}, p \in Pointers : <<g, p>> \in dropped => <<g, p>> \in dropped'
      BY <2>2
    <2> QED
      BY <2>1, <2>2, <2>3, <2>4, GesturesEnd
  <1>10. ASSUME NEW h \in Handlers, EndFrame(h) PROVE IInv'
    <2>1. handler[h] \in Members
      BY <1>1
    <2>2. handler' = [handler EXCEPT ![h] = EndFrameOf(handler[h])]
      BY <1>10 DEF EndFrame
    <2>3. /\ handler' \in [Handlers -> Members]
          /\ \A g \in Handlers : /\ handler'[g].pointers = handler[g].pointers
                                 /\ handler'[g].active = handler[g].active
                                 /\ handler'[g].enabled = handler[g].enabled
      BY <1>1, <2>1, <2>2, EndFrameKeeps
    <2> QED
      BY <1>1, <1>10, <2>3, HandlersKept DEF EndFrame, history
  <1>11. CASE UNCHANGED vars
    BY <1>1, <1>11, HandlersKept DEF vars, history
  <1> QED
    BY <1>4, <1>5, <1>6, <1>7, <1>8, <1>9, <1>10, <1>11 DEF Next

LEMMA Invariant == Spec => []IInv
  BY InvariantInit, InvariantStep, PTL DEF Spec

(* The members of every touch_handler keep their types; the count of       *)
(* captured pointers never goes below 0.                                   *)
THEOREM TypeCorrect == Spec => []TypeOK
  <1>1. IInv => TypeOK
    BY DEF IInv
  <1> QED
    BY Invariant, <1>1, PTL

(* However many renderers are enabled, disabled and replaced with fingers  *)
(* down: a handler has and counts the pointers whose PUSH it took, and no  *)
(* other, but for those that were taken from it or that it was disabled    *)
(* with.                                                                   *)
THEOREM HolderAlwaysTaker == Spec => []HolderIsTaker
  <1>1. IInv => HolderIsTaker
    BY DEF IInv
  <1> QED
    BY Invariant, <1>1, PTL
----------------------------------------------------------------------------
(* The mouse.  Who has a pointer in the members, what handle() makes of    *)
(* the mouse, and then the invariant.                                      *)
Excused(h) == h \in lost \/ \E p \in Pointers : <<h, p>> \in dropped

Follows(s) ==
  s.mouse_down /\ s.mouse_pos \in s.pointers /\ ~ s.clear_pos /\ ~ s.clear_down

(* A press without a pointer is about to be undone, and one that is        *)
(* delayed has a pointer, unless h is a ghost; a renderer has one pointer  *)
(* at most and delays nothing, and nothing is due that would undo a press. *)
MouseOK(h) ==
  LET s == handler[h] IN
  /\ s.mouse_down => s.pointers # {} \/ s.clear_down \/ h \in ghosts
  /\ s.delayed # NoPointer => s.pointers # {} \/ h \in ghosts
  /\ h \in Renderers =>
       /\ s.delayed = NoPointer
       /\ \A p, q \in s.pointers : p = q
       /\ s.pointers # {} => Follows(s) \/ Excused(h)

Mice == \A h \in Handlers : MouseOK(h)

LEMMA HandleMouse ==
  ASSUME NEW h \in Handlers, NEW s \in Members, NEW e \in Event, NEW want,
         IsFiniteSet(s.pointers), s.active = Cardinality(s.pointers)
  PROVE  LET t == Handle(h, s, e, h \in want) IN
         /\ ~Takes(h, s, e, h \in want) =>
              \/ t = s
              \/ s.pointers = {} /\ t.pointers = {} /\ t.clear_down /\ t.delayed = s.delayed
         /\ Takes(h, s, e, h \in want) =>
              /\ e.type = "POP" => ~t.mouse_down /\ t.delayed = s.delayed
              /\ e.type = "MOVE" =>
                   /\ e.num \in s.pointers /\ t.mouse_pos = e.num /\ t.pointers = s.pointers
                   /\ t.mouse_down = s.mouse_down /\ t.delayed = s.delayed
                   /\ t.clear_pos = s.clear_pos /\ t.clear_down = s.clear_down
              /\ e.type = "PUSH" /\ h \in Renderers =>
                   /\ t.mouse_down /\ t.mouse_pos = e.num /\ t.pointers = {e.num}
                   /\ t.delayed = s.delayed
                   /\ t.clear_pos = s.clear_pos /\ t.clear_down = s.clear_down
  <1>1. e.type \in {"PUSH", "MOVE", "POP"} /\ e.num \in Pointers
    BY DEF Event, Types
  <1>2. s.active = 0 => s.pointers = {}
    BY FS_EmptySet
  <1>3. CASE ~Answers(h, s, e)
    BY <1>3 DEF Handle, Takes
  <1>4. CASE Answers(h, s, e) /\ e.num \in s.pointers
    <2>1. Handle(h, s, e, h \in want) = HandleHeld(s, e) /\ Takes(h, s, e, h \in want)
      BY <1>4 DEF Handle, Asked, Takes
    <2>2. CASE e.type = "POP"
      <3>1. HandleHeld(s, e).mouse_down = FALSE /\ HandleHeld(s, e).delayed = s.delayed
        BY <2>2 DEF HandleHeld, Reset, Consume, Members
      <3> QED
        BY <2>1, <2>2, <3>1
    <2>3. CASE e.type = "MOVE"
      <3>1. HandleHeld(s, e) = [s EXCEPT !.mouse_pos = e.num]
        BY <2>3 DEF HandleHeld, Consume
      <3> QED
        BY <1>1, <1>4, <2>1, <2>3, <3>1 DEF Members
    (* Only the overlay answers to a second PUSH. *)
    <2>4. CASE e.type = "PUSH"
      <3>1. h \notin Renderers
        <4>1. s.active # 0
          BY <1>2, <1>4
        <4>2. h \in Multitouch
          BY <1>4, <2>4, <4>1 DEF Answers, IsNumValid
        <4> QED
          BY <4>2 DEF Multitouch, Renderers
      <3> QED
        BY <2>1, <2>4, <3>1
    <2> QED
      BY <1>1, <2>2, <2>3, <2>4
  <1>5. CASE Answers(h, s, e) /\ e.num \notin s.pointers /\ Takes(h, s, e, h \in want)
    <2>1. e.type = "PUSH"
      BY <1>1, <1>5 DEF Answers, IsNumValid
    <2>2. CASE h \in Renderers
      <3>1. s.active = 0
        BY <1>5, <2>2 DEF Takes, MayCapture, Multitouch, Renderers
      <3>2. Handle(h, s, e, h \in want) = Capture(Consume(s, e), e)
        BY <1>5, <3>1 DEF Handle, Asked, HandleFirst
      <3>3. Consume(s, e) = [s EXCEPT !.mouse_down = TRUE, !.mouse_pos = e.num]
        BY <2>1 DEF Consume
      <3> DEFINE c == Consume(s, e)
                 t == Capture(c, e)
      <3>4. /\ c \in Members /\ c.mouse_down /\ c.mouse_pos = e.num /\ c.pointers = {}
            /\ c.delayed = s.delayed /\ c.clear_pos = s.clear_pos
            /\ c.clear_down = s.clear_down
        BY <1>1, <1>2, <3>1, <3>3 DEF Members
      <3> HIDE DEF c
      <3>5. /\ t.mouse_down = c.mouse_down /\ t.mouse_pos = c.mouse_pos
            /\ t.pointers = c.pointers \cup {e.num} /\ t.delayed = c.delayed
            /\ t.clear_pos = c.clear_pos /\ t.clear_down = c.clear_down
        BY <3>4 DEF Capture, Members
      <3>6. Handle(h, s, e, h \in want) = t
        BY <3>2 DEF c
      <3> HIDE DEF t
      <3>7. t.mouse_down /\ t.mouse_pos = e.num /\ t.pointers = {e.num}
            /\ t.delayed = s.delayed
            /\ t.clear_pos = s.clear_pos /\ t.clear_down = s.clear_down
        BY <3>4, <3>5
      <3> QED
        BY <1>5, <2>1, <3>6, <3>7
    <2> QED
      BY <1>5, <2>1, <2>2
  <1>6. CASE Answers(h, s, e) /\ e.num \notin s.pointers /\ ~Takes(h, s, e, h \in want)
    <2>1. Handle(h, s, e, h \in want) = LetPass(s, e)
      BY <1>6 DEF Handle, Asked
    <2>2. CASE s.active = 0
      <3> DEFINE c == Consume(s, e)
      <3>1. c \in Members /\ c.pointers = {}
        BY <1>2, <2>2, ConsumeKeeps
      <3>2. c.delayed = s.delayed
        BY <1>1 DEF Consume, Members
      <3>3. LetPass(s, e) = [c EXCEPT !.clear_pos = TRUE, !.clear_down = TRUE]
        BY <2>2 DEF LetPass
      <3> HIDE DEF c
      <3>4. /\ LetPass(s, e).pointers = {} /\ LetPass(s, e).clear_down = TRUE
            /\ LetPass(s, e).delayed = s.delayed
        BY <3>1, <3>2, <3>3 DEF Members
      <3> QED
        BY <1>2, <1>6, <2>1, <2>2, <3>4
    <2>3. CASE s.active # 0
      BY <1>6, <2>1, <2>3 DEF LetPass
    <2> QED
      BY <2>2, <2>3
  <1> QED
    BY <1>3, <1>4, <1>5, <1>6

(* A handler that nothing happens to, in a step that takes no excuse away. *)
LEMMA MouseKept ==
  ASSUME NEW h \in Handlers, MouseOK(h), handler'[h] = handler[h],
         h \in ghosts => h \in ghosts',
         handler[h].pointers # {} /\ Excused(h) => Excused(h)'
  PROVE  MouseOK(h)'
  BY DEF MouseOK, Follows

(* An event changes its taker, and those asked before it. *)
LEMMA OnTouchHandlers ==
  ASSUME IInv, NEW want, OnTouch(want)
  PROVE  \E e \in Event, taker \in Handlers \cup {"none"} :
           /\ \A h \in Handlers :
                LET s == handler[h]  t == handler'[h] IN
                /\ s \in Members /\ IsFiniteSet(s.pointers) /\ s.active = Cardinality(s.pointers)
                /\ t = s \/ t = Handle(h, s, e, h \in want)
                /\ h = taker => t = Handle(h, s, e, h \in want)
                /\ t = s \/ (Takes(h, s, e, h \in want) <=> h = taker)
                /\ h = taker => Takes(h, s, e, h \in want)
           /\ \A h \in Handlers, p \in Pointers : <<h, p>> \in dropped =>
                <<h, p>> \in dropped' \/ (h = taker /\ e.type # "MOVE")
           /\ \A h \in lost : handler'[h].active > 0 => h \in lost'
           /\ taker \in Renderers /\ e.type = "PUSH"
                /\ (handler[taker].clear_pos \/ handler[taker].clear_down) => taker \in lost'
           /\ \A h \in ghosts : h \in ghosts' \/ (h = taker /\ e.type # "MOVE")
           /\ taker \in Handlers /\ e.type = "POP" /\ handler[taker].delayed # NoPointer
                => handler'[taker].pointers # {} \/ taker \in ghosts'
  <1> DEFINE e == Head(queue)
             taker == TakerOf(e, want)
             asked == IF taker = "none" THEN Handlers ELSE Before(taker) \cup {taker}
  <1>1. e \in Event
    BY DEF OnTouch, IInv, TypeOK
  <1>2. handler \in [Handlers -> Members] /\ "none" \notin Handlers
    BY TouchAssumption DEF IInv, TypeOK
  <1>3. /\ taker \in Handlers \cup {"none"}
        /\ taker # "none" => Takes(taker, handler[taker], e, taker \in want) /\ taker \in asked
        /\ \A h \in Handlers \cap asked :
             h # taker => ~ Takes(h, handler[h], e, h \in want)
    BY OnTouchTaker
  <1>4. handler' = [h \in Handlers |-> IF h \in asked
                                       THEN Handle(h, handler[h], e, h \in want)
                                       ELSE handler[h]]
    BY DEF OnTouch
  <1>5. dropped' = {d \in dropped : d[2] # e.num \/ d[1] # taker \/ e.type = "MOVE"}
                     \cup {<<h, e.num>> : h \in {h \in Handlers \ {taker} :
                              /\ e.type = "POP" /\ taker # "none"
                              /\ owner[e.num] = h}}
    BY DEF OnTouch
  <1>6. lost' = {h \in lost : handler'[h].active > 0}
                     \cup {h \in {taker} \cap Renderers :
                            e.type = "PUSH" /\ (handler[h].clear_pos \/ handler[h].clear_down)}
    BY DEF OnTouch
  <1>7. ghosts' = (ghosts \ (IF e.type = "MOVE" THEN {} ELSE {taker}))
                    \cup {h \in {taker} \ {"none"} :
                            /\ e.type = "POP" /\ handler[h].delayed # NoPointer
                            /\ handler[h].delayed \notin handler'[h].pointers}
    BY DEF OnTouch
  <1> HIDE DEF taker, asked, e
  <1>8. ASSUME NEW h \in Handlers
        PROVE  /\ handler[h] \in Members /\ IsFiniteSet(handler[h].pointers)
               /\ handler[h].active = Cardinality(handler[h].pointers)
               /\ handler'[h] = handler[h] \/ handler'[h] = Handle(h, handler[h], e, h \in want)
               /\ h = taker => handler'[h] = Handle(h, handler[h], e, h \in want)
               /\ handler'[h] = handler[h] \/ (Takes(h, handler[h], e, h \in want) <=> h = taker)
               /\ h = taker => Takes(h, handler[h], e, h \in want)
    <2>1. handler[h] \in Members /\ handler[h].active = Cardinality(handler[h].pointers)
      BY <1>2 DEF IInv, HolderIsTaker
    <2>2. IsFiniteSet(handler[h].pointers)
      BY <2>1, TouchAssumption, FS_Subset DEF Members
    <2>3. h = taker => Takes(h, handler[h], e, h \in want) /\ h \in asked
      BY <1>2, <1>3
    <2>4. CASE h \in asked
      <3>1. handler'[h] = Handle(h, handler[h], e, h \in want)
        BY <1>4, <2>4
      <3>2. h # taker => ~ Takes(h, handler[h], e, h \in want)
        BY <1>3, <2>4
      <3> QED
        BY <2>1, <2>2, <2>3, <3>1, <3>2
    <2>5. CASE h \notin asked
      <3>1. handler'[h] = handler[h] /\ h # taker
        BY <1>4, <2>3, <2>5
      <3> QED
        BY <2>1, <2>2, <3>1
    <2> QED
      BY <2>4, <2>5
  <1>9. \A h \in Handlers, p \in Pointers : <<h, p>> \in dropped =>
          <<h, p>> \in dropped' \/ (h = taker /\ e.type # "MOVE")
    BY <1>5
  <1>10. /\ \A h \in lost : handler'[h].active > 0 => h \in lost'
         /\ taker \in Renderers /\ e.type = "PUSH"
              /\ (handler[taker].clear_pos \/ handler[taker].clear_down) => taker \in lost'
    BY <1>6
  <1>11. /\ \A h \in ghosts : h \in ghosts' \/ (h = taker /\ e.type # "MOVE")
         /\ taker \in Handlers /\ e.type = "POP" /\ handler[taker].delayed # NoPointer
              => handler'[taker].pointers # {} \/ taker \in ghosts'
    BY <1>2, <1>7
  <1> QED
    BY <1>1, <1>3, <1>8, <1>9, <1>10, <1>11

LEMMA OnTouchMouse ==
  ASSUME IInv, IInv', Mice, NEW want, OnTouch(want)
  PROVE  Mice'
  <1>1. PICK e \in Event, taker \in Handlers \cup {"none"} :
           /\ \A h \in Handlers :
                LET s == handler[h]  t == handler'[h] IN
                /\ s \in Members /\ IsFiniteSet(s.pointers) /\ s.active = Cardinality(s.pointers)
                /\ t = s \/ t = Handle(h, s, e, h \in want)
                /\ h = taker => t = Handle(h, s, e, h \in want)
                /\ t = s \/ (Takes(h, s, e, h \in want) <=> h = taker)
                /\ h = taker => Takes(h, s, e, h \in want)
           /\ \A h \in Handlers, p \in Pointers : <<h, p>> \in dropped =>
                <<h, p>> \in dropped' \/ (h = taker /\ e.type # "MOVE")
           /\ \A h \in lost : handler'[h].active > 0 => h \in lost'
           /\ taker \in Renderers /\ e.type = "PUSH"
                /\ (handler[taker].clear_pos \/ handler[taker].clear_down) => taker \in lost'
           /\ \A h \in ghosts : h \in ghosts' \/ (h = taker /\ e.type # "MOVE")
           /\ taker \in Handlers /\ e.type = "POP" /\ handler[taker].delayed # NoPointer
                => handler'[taker].pointers # {} \/ taker \in ghosts'
    BY OnTouchHandlers
  <1> SUFFICES ASSUME NEW h \in Handlers PROVE MouseOK(h)'
    BY DEF Mice
  <1> DEFINE s == handler[h]
  <1>2. PICK t : t = handler'[h]
    OBVIOUS
  <1>3. /\ s \in Members /\ IsFiniteSet(s.pointers) /\ s.active = Cardinality(s.pointers)
        /\ t = s \/ t = Handle(h, s, e, h \in want)
        /\ h = taker => t = Handle(h, s, e, h \in want)
        /\ t = s \/ (Takes(h, s, e, h \in want) <=> h = taker)
        /\ h = taker => Takes(h, s, e, h \in want)
    BY <1>1, <1>2
  <1>4. MouseOK(h)
    BY DEF Mice
  (* What excused h still does, while it has a pointer. *)
  <1>5. ASSUME Excused(h), h # taker \/ e.type = "MOVE", t.pointers # {}
        PROVE  Excused(h)'
    <2>1. CASE h \in lost
      <3>1. t \in Members /\ t.active = Cardinality(t.pointers)
        BY <1>2 DEF IInv, TypeOK, HolderIsTaker
      <3>2. IsFiniteSet(t.pointers)
        BY <3>1, TouchAssumption, FS_Subset DEF Members
      <3>3. t.active > 0
        BY <1>5, <3>1, <3>2, FS_EmptySet, FS_CardinalityType
      <3> QED
        BY <1>1, <1>2, <2>1, <3>3 DEF Excused
    <2>2. CASE \E p \in Pointers : <<h, p>> \in dropped
      BY <1>1, <1>5, <2>2 DEF Excused
    <2> QED
      BY <1>5, <2>1, <2>2 DEF Excused
  <1>6. h \in ghosts => h \in ghosts' \/ (h = taker /\ e.type # "MOVE")
    BY <1>1
  <1>7. CASE h # taker
    <2>1. CASE t = s
      BY <1>2, <1>4, <1>5, <1>6, <1>7, <2>1, MouseKept
    <2>2. CASE s.pointers = {} /\ t.pointers = {} /\ t.clear_down /\ t.delayed = s.delayed
      <3>1. s.delayed # NoPointer => h \in ghosts'
        BY <1>4, <1>6, <1>7, <2>2 DEF MouseOK
      <3> QED
        BY <1>2, <1>4, <1>6, <1>7, <2>2, <3>1 DEF MouseOK
    <2>3. t = s \/ (s.pointers = {} /\ t.pointers = {} /\ t.clear_down /\ t.delayed = s.delayed)
      BY <1>3, <1>7, HandleMouse
    <2> QED
      BY <2>1, <2>2, <2>3
  <1>8. CASE h = taker
    <2>1. t = Handle(h, s, e, h \in want) /\ Takes(h, s, e, h \in want)
      BY <1>3, <1>8
    <2>2. CASE e.type = "POP"
      <3>1. ~t.mouse_down /\ t.delayed = s.delayed
        BY <1>3, <2>1, <2>2, HandleMouse
      <3>2. e.num \in s.pointers /\ t.pointers = s.pointers \ {e.num}
        BY <1>3, <2>1, <2>2, HandleCounts
      <3>3. s.delayed # NoPointer => t.pointers # {} \/ h \in ghosts'
        BY <1>1, <1>2, <1>8, <2>2
      <3>4. h \in Renderers => t.pointers = {} /\ s.delayed = NoPointer
        BY <1>4, <3>2 DEF MouseOK
      <3> QED
        BY <1>2, <3>1, <3>3, <3>4 DEF MouseOK
    <2>3. CASE e.type = "MOVE"
      <3>1. /\ e.num \in s.pointers /\ t.mouse_pos = e.num /\ t.pointers = s.pointers
            /\ t.mouse_down = s.mouse_down /\ t.delayed = s.delayed
            /\ t.clear_pos = s.clear_pos /\ t.clear_down = s.clear_down
        BY <1>3, <2>1, <2>3, HandleMouse
      <3>2. h \in Renderers =>
              /\ t.delayed = NoPointer
              /\ \A p, q \in t.pointers : p = q
              /\ Follows(t) \/ Excused(h)'
        BY <1>4, <1>5, <2>3, <3>1 DEF MouseOK, Follows
      <3> QED
        BY <1>2, <3>1, <3>2 DEF MouseOK
    <2>4. CASE e.type = "PUSH"
      <3>1. e.num \in t.pointers
        BY <1>3, <2>1, <2>4, HandleCounts
      <3>2. h \in Renderers =>
              /\ t.delayed = NoPointer
              /\ \A p, q \in t.pointers : p = q
              /\ Follows(t) \/ Excused(h)'
        <4> SUFFICES ASSUME h \in Renderers
                     PROVE  /\ t.delayed = NoPointer
                            /\ \A p, q \in t.pointers : p = q
                            /\ Follows(t) \/ Excused(h)'
          OBVIOUS
        <4>1. /\ t.mouse_down /\ t.mouse_pos = e.num /\ t.pointers = {e.num}
              /\ t.delayed = s.delayed
              /\ t.clear_pos = s.clear_pos /\ t.clear_down = s.clear_down
          BY <1>3, <2>1, <2>4, HandleMouse
        <4>2. s.clear_pos \/ s.clear_down => h \in lost'
          BY <1>1, <1>8, <2>4
        <4> QED
          BY <1>4, <4>1, <4>2 DEF MouseOK, Follows, Excused
      <3> QED
        BY <1>2, <3>1, <3>2 DEF MouseOK
    <2> QED
      BY <2>2, <2>3, <2>4 DEF Event, Types
  <1> QED
    BY <1>7, <1>8

(* EndFrame() carries out what is due. *)
LEMMA EndFrameMouse ==
  ASSUME IInv, Mice, NEW h \in Handlers, EndFrame(h)
  PROVE  Mice'
  <1>1. handler[h] \in Members /\ MouseOK(h) /\ UNCHANGED <<dropped, lost, ghosts>>
    BY DEF IInv, TypeOK, Mice, EndFrame, history
  <1>2. handler' = [handler EXCEPT ![h] = EndFrameOf(handler[h])] /\ handler \in [Handlers -> Members]
    BY DEF IInv, TypeOK, EndFrame
  <1>3. PICK t : t = EndFrameOf(handler[h])
    OBVIOUS
  <1>4. handler'[h] = t /\ \A g \in Handlers \ {h} : handler'[g] = handler[g]
    BY <1>2, <1>3
  <1>5. t.pointers = handler[h].pointers
    BY <1>1, <1>3, EndFrameKeeps
  <1>6. t.delayed = NoPointer
    BY <1>1, <1>3 DEF EndFrameOf, Members
  <1>7. handler[h].delayed = NoPointer =>
          /\ t.mouse_down = (handler[h].mouse_down /\ ~handler[h].clear_down)
          /\ t.mouse_pos = IF handler[h].clear_pos THEN NoPointer ELSE handler[h].mouse_pos
          /\ ~t.clear_pos /\ ~t.clear_down
    BY <1>1, <1>3 DEF EndFrameOf, Members
  <1>8. Excused(h)' <=> Excused(h)
    BY <1>1 DEF Excused
  <1>9. MouseOK(h)'
    <2>1. t.mouse_down => t.pointers # {} \/ h \in ghosts
      BY <1>1, <1>5, <1>7 DEF MouseOK
    <2>2. h \in Renderers => (t.pointers # {} => Follows(t) \/ Excused(h))
      BY <1>1, <1>5, <1>7 DEF MouseOK, Follows
    <2>3. h \in Renderers => \A p, q \in t.pointers : p = q
      BY <1>1, <1>5 DEF MouseOK
    <2> QED
      BY <1>1, <1>4, <1>6, <1>8, <2>1, <2>2, <2>3 DEF MouseOK
  <1>10. ASSUME NEW g \in Handlers \ {h} PROVE MouseOK(g)'
    <2>1. MouseOK(g) /\ handler'[g] = handler[g] /\ (Excused(g)' <=> Excused(g))
      BY <1>1, <1>4, <1>10 DEF Mice, Excused
    <2> QED
      BY <1>1, <2>1, MouseKept
  <1> QED
    BY <1>9, <1>10 DEF Mice

(* A renderer is disabled, with its pointers, or made anew. *)
LEMMA GestureMouse ==
  ASSUME IInv, Mice, NEW h \in Renderers, DisableIO(h) \/ Recreate(h)
  PROVE  Mice'
  <1>1. /\ handler \in [Handlers -> Members] /\ h \in Handlers /\ handler[h] \in Members
        /\ dropped \subseteq Handlers \X Pointers
    BY DEF IInv, TypeOK, Renderers
  <1>2. ASSUME NEW g \in Handlers \ {h} PROVE MouseOK(g)'
    <2>1. MouseOK(g)
      BY <1>2 DEF Mice
    <2>2. handler'[g] = handler[g]
      BY <1>1 DEF DisableIO, Recreate
    <2>3. /\ g \in lost => g \in lost'
          /\ g \in ghosts => g \in ghosts'
          /\ \A p \in Pointers : <<g, p>> \in dropped => <<g, p>> \in dropped'
      BY DEF DisableIO, Recreate
    <2> QED
      BY <2>1, <2>2, <2>3, MouseKept DEF Excused
  <1>3. CASE DisableIO(h)
    <2>1. MouseOK(h) /\ handler[h].pointers \subseteq Pointers
      BY <1>1 DEF Mice, Members
    <2>2. PICK t : t = handler'[h]
      OBVIOUS
    <2>3. ~t.mouse_down /\ t.pointers = handler[h].pointers /\ t.delayed = handler[h].delayed
      <3>1. t = [handler[h] EXCEPT !.enabled = FALSE, !.mouse_down = FALSE,
                   !.mouse_pos = IF handler[h].mouse_down THEN NoPointer ELSE @]
        BY <1>1, <1>3, <2>2 DEF DisableIO
      <3> QED
        BY <1>1, <3>1 DEF Members
    <2>4. ghosts' = ghosts /\ \A p \in handler[h].pointers : <<h, p>> \in dropped'
      BY <1>3 DEF DisableIO
    <2>5. t.pointers # {} => Excused(h)'
      BY <2>1, <2>3, <2>4 DEF Excused
    <2>6. MouseOK(h)'
      BY <2>1, <2>2, <2>3, <2>4, <2>5 DEF MouseOK
    <2> QED
      BY <1>2, <2>6 DEF Mice
  <1>4. CASE Recreate(h)
    <2>1. handler'[h] = Fresh
      BY <1>1, <1>4 DEF Recreate
    <2>2. MouseOK(h)'
      BY <2>1 DEF MouseOK, Fresh
    <2> QED
      BY <1>2, <2>2 DEF Mice
  <1> QED
    BY <1>3, <1>4

(* A step that leaves the mice alone. *)
LEMMA MiceKept ==
  ASSUME Mice, UNCHANGED <<dropped, lost, ghosts>>,
         \A h \in Handlers : /\ handler'[h].pointers = handler[h].pointers
                             /\ handler'[h].mouse_down = handler[h].mouse_down
                             /\ handler'[h].mouse_pos = handler[h].mouse_pos
                             /\ handler'[h].clear_pos = handler[h].clear_pos
                             /\ handler'[h].clear_down = handler[h].clear_down
                             /\ handler'[h].delayed = handler[h].delayed
  PROVE  Mice'
  BY DEF Mice, MouseOK, Follows, Excused

LEMMA MouseInit == Init => Mice
  BY DEF Init, Mice, MouseOK, Fresh

LEMMA MouseStep == IInv /\ IInv' /\ Mice /\ [Next]_vars => Mice'
  <1> SUFFICES ASSUME IInv, IInv', Mice, [Next]_vars PROVE Mice'
    OBVIOUS
  <1>1. handler \in [Handlers -> Members]
    BY DEF IInv, TypeOK
  <1>2. ASSUME NEW type \in Types, NEW num \in Pointers,
               \/ TouchEvent(type, num)
               \/ \E moved \in SUBSET Pointers : NvEvent(type, num, moved)
        PROVE  Mice'
    <2>1. UNCHANGED <<handler, history>>
      BY <1>2 DEF TouchEvent, NvEvent, Submit
    <2> QED
      BY <2>1, MiceKept DEF history
  <1>3. ASSUME NEW h \in Handlers, handler' = [handler EXCEPT ![h].enabled = TRUE],
               UNCHANGED history
        PROVE  Mice'
    <2>1. handler[h] \in Members
      BY <1>1
    <2> QED
      BY <1>1, <1>3, <2>1, MiceKept DEF history, Members
  <1>4. CASE InitOverlay
    <2>1. Overlay \in Handlers
      <3>1. Chain \in Seq(Handlers) /\ Chain # <<>>
        BY TouchAssumption
      <3> QED
        BY <3>1 DEF Overlay
    <2> QED
      BY <1>3, <1>4, <2>1 DEF InitOverlay
  <1>5. CASE ProcessTouch
    <2>1. ASSUME UNCHANGED <<handler, history>> PROVE Mice'
      BY <2>1, MiceKept DEF history
    <2>2. ASSUME NEW want, OnTouch(want) PROVE Mice'
      BY <2>2, OnTouchMouse
    <2> QED
      BY <1>5, <2>1, <2>2 DEF ProcessTouch, BeginTouches, EndTouches
  <1>6. ASSUME NEW h \in Renderers, EnableIO(h) PROVE Mice'
    BY <1>3, <1>6 DEF EnableIO, Renderers
  <1>7. ASSUME NEW h \in Renderers, DisableIO(h) \/ Recreate(h) PROVE Mice'
    BY <1>7, GestureMouse
  <1>8. ASSUME NEW h \in Handlers, EndFrame(h) PROVE Mice'
    BY <1>8, EndFrameMouse
  <1>9. CASE UNCHANGED vars
    BY <1>9, MiceKept DEF vars, history
  <1> QED
    BY <1>2, <1>4, <1>5, <1>6, <1>7, <1>8, <1>9 DEF Next

(* The mouse of ImGui is down only while a finger is captured, and that of *)
(* a renderer that has captured one is down and on it - but for the cases  *)
(* the code does not put right: a delayed push whose pointers are released *)
(* first, a press in the frame whose end clears the mouse, a handler       *)
(* disabled with a finger down, a POP another has taken.                   *)
THEOREM MouseAlwaysFinger == Spec => []MouseIsFinger
  <1>1. Mice => MouseIsFinger
    BY DEF Mice, MouseOK, Follows, Excused, MouseIsFinger, NoGhostPress, HeldIsPressed, Renderers
  <1>2. Init => IInv /\ Mice
    BY InvariantInit, MouseInit
  <1>3. IInv /\ Mice /\ [Next]_vars => (IInv /\ Mice)'
    BY InvariantStep, MouseStep
  <1> QED
    BY <1>1, <1>2, <1>3, PTL DEF Spec

=============================================================================
