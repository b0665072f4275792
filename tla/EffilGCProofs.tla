--------------------------- MODULE EffilGCProofs ---------------------------
(***************************************************************************)
(* The collector of effil's shared objects is safe and complete for any    *)
(* number of objects and threads: what is in use stays, the assertions of  *)
(* the source hold, and what was unreachable when collect() began goes.    *)
(***************************************************************************)
EXTENDS EffilGC, FiniteSetTheorems, TLAPS

WriterOps == {"add", "release", "assign", "hold", "remove", "erase",
              "oldmeta", "newmeta", "refmeta"}
Calls == {Idle} \cup [at : {"get"}, o : Objects, x : Objects]
           \cup [at : WriterOps, o : Objects, k : Slots, x : Objects]

Types ==
  /\ TypeOK
  /\ call \in [Threads -> Calls]
  /\ gc \in [phase : {"idle", "scan"}, todo : SUBSET Objects, grey : SUBSET Objects,
             black : SUBSET Objects]
  /\ garbage \subseteq Objects

----------------------------------------------------------------------------
(* What a call knows: it has a view of the object it works on, and of the  *)
(* one it is about to refer to; the lock it has taken; what is stored in   *)
(* the slot.                                                               *)
CallSound(t) ==
  LET c == call[t] IN
  /\ c.at # "idle" => c.o \in strong[t]
  /\ c.at \in {"add", "release", "oldmeta", "newmeta", "refmeta"} => c.x \in strong[t]
  /\ c.at \in WriterOps => writer[c.o] = t
  /\ c.at = "get" => writer[c.o] = None /\ weak[c.o][c.x] > 0
  /\ c.at \in {"hold", "remove", "erase", "refmeta"} => entries[c.o][c.k] = c.x
  /\ c.at = "oldmeta" => entries[c.o][Meta] # None
  /\ c.at \in {"oldmeta", "newmeta", "refmeta"} => c.k = Meta
CallsSound == \A t \in Threads : CallSound(t)

(* The slots of o whose references to x are in weakRefs_: those that hold  *)
(* x, but for one whose reference has just been taken away or is still to  *)
(* be added; and the one that is about to hold it.                         *)
Unreferenced(o, k) ==
  \E t \in Threads : call[t].at \in {"erase", "refmeta"} /\ call[t].o = o /\ call[t].k = k
Awaited(o, k, x) ==
  \E t \in Threads :
    call[t].at \in {"release", "assign"} /\ call[t].o = o /\ call[t].k = k /\ call[t].x = x
Counts(o, x) ==
  {k \in Slots : (entries[o][k] = x /\ ~Unreferenced(o, k)) \/ Awaited(o, k, x)}
StoredAreCounted ==
  \A o, x \in Objects :
    IsFiniteSet(Counts(o, x)) /\ Cardinality(Counts(o, x)) <= weak[o][x]

(* What threads have views of and what objects refer to is in objects_.    *)
Managed == HeldIsManaged /\ \A o \in Objects : Refers(o) \subseteq objects

(* Tri-color marking: what a thread has is not passed over, and no black   *)
(* object refers to a white one.                                           *)
Colored ==
  gc.phase = "scan" =>
    /\ gc.todo \cup gc.grey \cup gc.black \subseteq objects
    /\ gc.black # {} => gc.todo = {}
    /\ Held \subseteq gc.todo \cup gc.grey \cup gc.black
    /\ \A o \in gc.black : Refers(o) \subseteq gc.grey \cup gc.black

(* What was unreachable stays so: no thread, no other object, no color     *)
(* comes to it.                                                            *)
Hopeless ==
  /\ LockFree => garbage = {}
  /\ garbage \subseteq objects
  /\ (Held \cup gc.grey \cup gc.black) \cap garbage = {}
  /\ \A o \in objects \ garbage : Refers(o) \cap garbage = {}

Heap == Managed /\ Colored /\ Hopeless
IInv == Types /\ CallsSound /\ StoredAreCounted /\ Heap

----------------------------------------------------------------------------
(* Calls *)
LEMMA CallType ==
  ASSUME Types, NEW t \in Threads
  PROVE  /\ call[t].at \in {"idle", "get"} \cup WriterOps
         /\ call[t].at # "idle" => call[t].o \in Objects /\ call[t].x \in Objects
         /\ call[t].at \in WriterOps =>
              /\ call[t].k \in Slots
              /\ call[t] \in [at : WriterOps, o : Objects, k : Slots, x : Objects]
  <1>1. call[t] \in Calls
    BY DEF Types
  <1>2. CASE call[t] = Idle
    BY <1>2 DEF Idle, WriterOps
  <1>3. CASE call[t] \in [at : {"get"}, o : Objects, x : Objects]
    BY <1>3 DEF WriterOps
  <1>4. CASE call[t] \in [at : WriterOps, o : Objects, k : Slots, x : Objects]
    BY <1>4 DEF WriterOps
  <1> QED
    BY <1>1, <1>2, <1>3, <1>4 DEF Calls

LEMMA Went ==
  ASSUME Types, NEW t \in Threads, NEW c \in Calls, Goto(t, c)
  PROVE  /\ call' \in [Threads -> Calls]
         /\ call'[t] = c
         /\ \A u \in Threads \ {t} : call'[u] = call[u]
  BY DEF Types, Goto

LEMMA Stepped ==
  ASSUME Types, NEW t \in Threads, call[t].at \in WriterOps, NEW w \in WriterOps, Step(t, w)
  PROVE  /\ call' \in [Threads -> Calls]
         /\ call'[t].at = w /\ call'[t].o = call[t].o
         /\ call'[t].k = call[t].k /\ call'[t].x = call[t].x
         /\ \A u \in Threads \ {t} : call'[u] = call[u]
  <1> DEFINE c == [call[t] EXCEPT !.at = w]
  <1>1. call[t] \in [at : WriterOps, o : Objects, k : Slots, x : Objects]
    BY CallType
  <1>2. /\ c \in [at : WriterOps, o : Objects, k : Slots, x : Objects]
        /\ c.at = w /\ c.o = call[t].o /\ c.k = call[t].k /\ c.x = call[t].x
    BY <1>1
  <1>3. c \in Calls /\ Goto(t, c)
    BY <1>2 DEF Calls, Step
  <1> HIDE DEF c
  <1> QED
    BY <1>2, <1>3, Went

LEMMA Ended ==
  ASSUME Types, NEW t \in Threads, Goto(t, Idle)
  PROVE  /\ call' \in [Threads -> Calls]
         /\ call'[t].at = "idle"
         /\ \A u \in Threads \ {t} : call'[u] = call[u]
  BY Went DEF Calls, Idle

----------------------------------------------------------------------------
(* References and entries *)
LEMMA ReferenceAdded ==
  ASSUME Types, NEW o \in Objects, NEW x \in Objects, AddReference(o, x)
  PROVE  /\ weak' \in [Objects -> [Objects -> 0 .. MaxRefs]]
         /\ \A p, y \in Objects :
              weak'[p][y] = IF p = o /\ y = x THEN weak[p][y] + 1 ELSE weak[p][y]
         /\ \A p \in Objects \ {o} : weak'[p] = weak[p]
  <1>1. weak \in [Objects -> [Objects -> 0 .. MaxRefs]] /\ MaxRefs \in Nat
    BY EffilGCAssumption DEF Types, TypeOK
  <1>2. weak[o][x] \in 0 .. MaxRefs /\ weak[o][x] < MaxRefs
    BY <1>1 DEF AddReference
  <1>3. weak[o][x] + 1 \in 0 .. MaxRefs
    BY <1>1, <1>2
  <1>4. weak' = [weak EXCEPT ![o] = [weak[o] EXCEPT ![x] = weak[o][x] + 1]]
    BY DEF AddReference
  <1> QED
    BY <1>1, <1>3, <1>4

LEMMA ReferenceRemoved ==
  ASSUME Types, NEW o \in Objects, NEW x \in Objects, RemoveReference(o, x), weak[o][x] > 0
  PROVE  /\ weak' \in [Objects -> [Objects -> 0 .. MaxRefs]]
         /\ \A p, y \in Objects :
              weak'[p][y] = IF p = o /\ y = x THEN weak[p][y] - 1 ELSE weak[p][y]
         /\ \A p \in Objects \ {o} : weak'[p] = weak[p]
  <1>1. weak \in [Objects -> [Objects -> 0 .. MaxRefs]] /\ MaxRefs \in Nat
    BY EffilGCAssumption DEF Types, TypeOK
  <1>2. weak[o][x] \in 0 .. MaxRefs
    BY <1>1
  <1>3. weak[o][x] - 1 \in 0 .. MaxRefs
    BY <1>1, <1>2
  <1>4. weak' = [weak EXCEPT ![o] = [weak[o] EXCEPT ![x] = weak[o][x] - 1]]
    BY DEF RemoveReference
  <1> QED
    BY <1>1, <1>3, <1>4

LEMMA EntryPut ==
  ASSUME Types, NEW o \in Objects, NEW k \in Slots, NEW x \in Objects \cup {None},
         entries' = [entries EXCEPT ![o][k] = x]
  PROVE  /\ entries' \in [Objects -> [Slots -> Objects \cup {None}]]
         /\ \A l \in Slots : entries'[o][l] = IF l = k THEN x ELSE entries[o][l]
         /\ \A p \in Objects \ {o} : entries'[p] = entries[p]
  BY DEF Types, TypeOK

LEMMA Views == \A x : x \in Held <=> \E t \in Threads : x \in strong[t]
  BY DEF Held

LEMMA ViewsNext == \A x : x \in Held' <=> \E t \in Threads : x \in strong'[t]
  BY DEF Held

LEMMA References == \A o, x : x \in Refers(o) <=> x \in Objects /\ weak[o][x] > 0
  BY DEF Refers

LEMMA ReferencesNext == \A o, x : x \in Refers(o)' <=> x \in Objects /\ weak'[o][x] > 0
  BY DEF Refers

----------------------------------------------------------------------------
(* Who may be in a call on an object *)
LEMMA OneWriter ==
  ASSUME Types, CallsSound, NEW t \in Threads, call[t].at \in WriterOps,
         NEW u \in Threads \ {t}, call[u].at # "idle"
  PROVE  call[u].o # call[t].o
  <1>1. writer[call[t].o] = t /\ None \notin Threads
    BY EffilGCAssumption DEF CallsSound, CallSound
  <1>2. CASE call[u].at \in WriterOps
    <2>1. writer[call[u].o] = u
      BY <1>2 DEF CallsSound, CallSound
    <2> QED
      BY <1>1, <2>1
  <1>3. CASE call[u].at = "get"
    <2>1. writer[call[u].o] = None
      BY <1>3 DEF CallsSound, CallSound
    <2> QED
      BY <1>1, <2>1
  <1> QED
    BY <1>2, <1>3, CallType

LEMMA NobodyIn ==
  ASSUME Types, CallsSound, NEW o \in Objects, Unlocked(o),
         NEW u \in Threads, call[u].at # "idle"
  PROVE  call[u].o # o
  <1>1. writer[o] = None /\ None \notin Threads
    BY EffilGCAssumption DEF Unlocked
  <1>2. CASE call[u].at \in WriterOps
    <2>1. writer[call[u].o] = u
      BY <1>2 DEF CallsSound, CallSound
    <2> QED
      BY <1>1, <2>1
  <1>3. CASE call[u].at = "get"
    BY <1>3 DEF Unlocked, Readers, At
  <1> QED
    BY <1>2, <1>3, CallType

(* A call is not disturbed by what others do to other objects. *)
LEMMA Undisturbed ==
  ASSUME Types, NEW u \in Threads, CallSound(u), call'[u] = call[u],
         \/ call[u].at = "idle"
         \/ /\ strong[u] \subseteq strong'[u]
            /\ writer'[call[u].o] = writer[call[u].o]
            /\ entries'[call[u].o] = entries[call[u].o]
            /\ weak'[call[u].o] = weak[call[u].o]
  PROVE  CallSound(u)'
  <1>1. CASE call[u].at = "idle"
    BY <1>1 DEF CallSound, WriterOps
  <1>2. CASE call[u].at # "idle"
    BY <1>2 DEF CallSound
  <1> QED
    BY <1>1, <1>2

LEMMA OthersSound ==
  ASSUME Types, CallsSound, NEW t \in Threads, call[t].at \in WriterOps,
         NEW o, o = call[t].o,
         \A u \in Threads \ {t} : call'[u] = call[u] /\ strong'[u] = strong[u],
         \A p \in Objects \ {o} :
           writer'[p] = writer[p] /\ entries'[p] = entries[p] /\ weak'[p] = weak[p]
  PROVE  \A u \in Threads \ {t} : CallSound(u)'
  <1> SUFFICES ASSUME NEW u \in Threads \ {t} PROVE CallSound(u)'
    OBVIOUS
  <1>1. call[u].at # "idle" => call[u].o \in Objects \ {o}
    BY OneWriter, CallType
  <1>2. CallSound(u)
    BY DEF CallsSound
  <1> QED
    BY <1>1, <1>2, Undisturbed

----------------------------------------------------------------------------
(* Counting *)
LEMMA CountsOf ==
  ASSUME NEW o, NEW x, NEW t \in Threads,
         call[t].at \in WriterOps => call[t].o = o,
         \A u \in Threads \ {t} : call[u].at \in WriterOps => call[u].o # o
  PROVE  Counts(o, x) =
           {k \in Slots :
              \/ entries[o][k] = x /\ ~ (call[t].at \in {"erase", "refmeta"} /\ call[t].k = k)
              \/ call[t].at \in {"release", "assign"} /\ call[t].k = k /\ call[t].x = x}
  <1>1. \A k : Unreferenced(o, k) <=> call[t].at \in {"erase", "refmeta"} /\ call[t].k = k
    BY DEF Unreferenced, WriterOps
  <1>2. \A k : Awaited(o, k, x) <=>
                 call[t].at \in {"release", "assign"} /\ call[t].k = k /\ call[t].x = x
    BY DEF Awaited, WriterOps
  <1> QED
    BY <1>1, <1>2 DEF Counts

LEMMA CountsOfNext ==
  ASSUME NEW o, NEW x, NEW t \in Threads,
         call'[t].at \in WriterOps => call'[t].o = o,
         \A u \in Threads \ {t} : call'[u].at \in WriterOps => call'[u].o # o
  PROVE  Counts(o, x)' =
           {k \in Slots :
              \/ entries'[o][k] = x /\ ~ (call'[t].at \in {"erase", "refmeta"} /\ call'[t].k = k)
              \/ call'[t].at \in {"release", "assign"} /\ call'[t].k = k /\ call'[t].x = x}
  <1>1. \A k : Unreferenced(o, k)' <=> call'[t].at \in {"erase", "refmeta"} /\ call'[t].k = k
    BY DEF Unreferenced, WriterOps
  <1>2. \A k : Awaited(o, k, x)' <=>
                 call'[t].at \in {"release", "assign"} /\ call'[t].k = k /\ call'[t].x = x
    BY DEF Awaited, WriterOps
  <1> QED
    BY <1>1, <1>2 DEF Counts

(* An entry whose reference is counted has one. *)
LEMMA Positive ==
  ASSUME Types, StoredAreCounted, NEW o \in Objects, NEW x \in Objects, NEW k \in Counts(o, x)
  PROVE  weak[o][x] > 0
  <1>1. IsFiniteSet(Counts(o, x)) /\ Cardinality(Counts(o, x)) <= weak[o][x]
    BY DEF StoredAreCounted
  <1>2. Cardinality(Counts(o, x)) \in Nat /\ Cardinality(Counts(o, x)) # 0
    BY <1>1, FS_CardinalityType, FS_EmptySet
  <1>3. weak[o][x] \in Int
    BY DEF Types, TypeOK
  <1> QED
    BY <1>1, <1>2, <1>3

LEMMA OneMore ==
  ASSUME NEW S, IsFiniteSet(S), NEW k
  PROVE  IsFiniteSet(S \cup {k}) /\ Cardinality(S \cup {k}) <= Cardinality(S) + 1
  <1>1. Cardinality(S) \in Nat
    BY FS_CardinalityType
  <1>2. CASE k \in S
    <2>1. S \cup {k} = S
      BY <1>2
    <2>2. IsFiniteSet(S \cup {k}) /\ Cardinality(S \cup {k}) = Cardinality(S)
      BY <2>1, Zenon
    <2> QED
      BY <1>1, <2>2
  <1>3. CASE k \notin S
    <2>1. IsFiniteSet(S \cup {k}) /\ Cardinality(S \cup {k}) = Cardinality(S) + 1
      BY <1>3, FS_AddElement
    <2> QED
      BY <1>1, <2>1
  <1> QED
    BY <1>2, <1>3

(* The three ways in which a step changes what is counted for o and x. *)
LEMMA CountsKept ==
  ASSUME Types, Types', StoredAreCounted, NEW o \in Objects, NEW x \in Objects,
         Counts(o, x)' \subseteq Counts(o, x), weak'[o][x] >= weak[o][x]
  PROVE  IsFiniteSet(Counts(o, x)') /\ Cardinality(Counts(o, x)') <= weak'[o][x]
  <1>1. IsFiniteSet(Counts(o, x)) /\ Cardinality(Counts(o, x)) <= weak[o][x]
    BY DEF StoredAreCounted
  <1>2. IsFiniteSet(Counts(o, x)') /\ Cardinality(Counts(o, x)') <= Cardinality(Counts(o, x))
    BY <1>1, FS_Subset
  <1>3. Cardinality(Counts(o, x)) \in Nat /\ Cardinality(Counts(o, x)') \in Nat
    BY <1>1, <1>2, FS_CardinalityType
  <1>4. weak[o][x] \in Int /\ weak'[o][x] \in Int
    BY DEF Types, TypeOK
  <1> QED
    BY <1>1, <1>2, <1>3, <1>4

LEMMA CountsAdded ==
  ASSUME Types, Types', StoredAreCounted, NEW o \in Objects, NEW x \in Objects, NEW k,
         Counts(o, x)' \subseteq Counts(o, x) \cup {k}, weak'[o][x] = weak[o][x] + 1
  PROVE  IsFiniteSet(Counts(o, x)') /\ Cardinality(Counts(o, x)') <= weak'[o][x]
  <1>1. IsFiniteSet(Counts(o, x)) /\ Cardinality(Counts(o, x)) <= weak[o][x]
    BY DEF StoredAreCounted
  <1>2. /\ IsFiniteSet(Counts(o, x) \cup {k})
        /\ Cardinality(Counts(o, x) \cup {k}) <= Cardinality(Counts(o, x)) + 1
    BY <1>1, OneMore
  <1>3. /\ IsFiniteSet(Counts(o, x)')
        /\ Cardinality(Counts(o, x)') <= Cardinality(Counts(o, x) \cup {k})
    BY <1>2, FS_Subset
  <1>4. /\ Cardinality(Counts(o, x)) \in Nat /\ Cardinality(Counts(o, x)') \in Nat
        /\ Cardinality(Counts(o, x) \cup {k}) \in Nat
    BY <1>1, <1>2, <1>3, FS_CardinalityType
  <1>5. weak[o][x] \in Int /\ weak'[o][x] \in Int
    BY DEF Types, TypeOK
  <1> QED
    BY <1>1, <1>2, <1>3, <1>4, <1>5

LEMMA CountsRemoved ==
  ASSUME Types, Types', StoredAreCounted, NEW o \in Objects, NEW x \in Objects,
         NEW k \in Counts(o, x),
         Counts(o, x)' \subseteq Counts(o, x) \ {k}, weak'[o][x] = weak[o][x] - 1
  PROVE  IsFiniteSet(Counts(o, x)') /\ Cardinality(Counts(o, x)') <= weak'[o][x]
  <1>1. IsFiniteSet(Counts(o, x)) /\ Cardinality(Counts(o, x)) <= weak[o][x]
    BY DEF StoredAreCounted
  <1>2. /\ IsFiniteSet(Counts(o, x) \ {k})
        /\ Cardinality(Counts(o, x) \ {k}) = Cardinality(Counts(o, x)) - 1
    BY <1>1, FS_RemoveElement
  <1>3. /\ IsFiniteSet(Counts(o, x)')
        /\ Cardinality(Counts(o, x)') <= Cardinality(Counts(o, x) \ {k})
    BY <1>2, FS_Subset
  <1>4. /\ Cardinality(Counts(o, x)) \in Nat /\ Cardinality(Counts(o, x)') \in Nat
        /\ Cardinality(Counts(o, x) \ {k}) \in Nat
    BY <1>1, <1>2, <1>3, FS_CardinalityType
  <1>5. weak[o][x] \in Int /\ weak'[o][x] \in Int
    BY DEF Types, TypeOK
  <1> QED
    BY <1>1, <1>2, <1>3, <1>4, <1>5

(* Nothing is counted differently for objects that are not being changed. *)
LEMMA CountsElsewhere ==
  ASSUME NEW o, entries'[o] = entries[o],
         \A u \in Threads : call'[u] = call[u]
           \/ /\ call[u].at \in WriterOps => call[u].o # o
              /\ call'[u].at \in WriterOps => call'[u].o # o
  PROVE  \A x : Counts(o, x)' = Counts(o, x)
  <1>1. \A k : Unreferenced(o, k)' <=> Unreferenced(o, k)
    BY DEF Unreferenced, WriterOps
  <1>2. \A k, x : Awaited(o, k, x)' <=> Awaited(o, k, x)
    BY DEF Awaited, WriterOps
  <1> QED
    BY <1>1, <1>2 DEF Counts

----------------------------------------------------------------------------
(* What threads may do to the heap, whether the collector is at work or    *)
(* not: refer to objects that are in use, let go of them; come by new ones *)
(* only while it is not.                                                   *)
MutatorMoves ==
  /\ UNCHANGED <<gc, garbage>>
  /\ \A p \in Objects : Refers(p)' \subseteq Refers(p) \cup Held
  /\ \/ objects' = objects /\ Held' \subseteq Held
     \/ LockFree /\ objects \subseteq objects' /\ Held' \subseteq objects'

LEMMA MutatorKeepsHeap ==
  ASSUME Types, Types', Heap, MutatorMoves
  PROVE  Heap'
  <1>1. objects \subseteq objects' /\ Held \subseteq objects /\ objects \subseteq Objects
    BY DEF MutatorMoves, Heap, Managed, HeldIsManaged, Types, TypeOK
  <1>2. Managed'
    <2>1. Held' \subseteq objects'
      BY <1>1 DEF MutatorMoves
    <2>2. \A p \in Objects : Refers(p)' \subseteq objects'
      BY <1>1 DEF MutatorMoves, Heap, Managed
    <2> QED
      BY <2>1, <2>2 DEF Managed, HeldIsManaged
  <1>3. CASE LockFree
    <2>1. LockFree' /\ garbage = {} /\ garbage' = {}
      BY <1>3 DEF MutatorMoves, LockFree, Heap, Hopeless
    <2> QED
      BY <1>2, <2>1 DEF Heap, Colored, Hopeless, LockFree
  <1>4. CASE ~LockFree
    <2>1. objects' = objects /\ Held' \subseteq Held /\ gc' = gc /\ garbage' = garbage
      BY <1>4 DEF MutatorMoves
    <2>2. gc.phase = "scan" /\ gc.grey \subseteq Objects /\ gc.black \subseteq Objects
      BY <1>4 DEF LockFree, Types
    <2>3. \A p \in Objects : Refers(p)' \subseteq Refers(p) \cup Held
      BY DEF MutatorMoves
    <2>4. Colored'
      <3>1. \A p \in gc.black : Refers(p)' \subseteq gc.grey \cup gc.black
        <4> SUFFICES ASSUME NEW p \in gc.black PROVE Refers(p)' \subseteq gc.grey \cup gc.black
          OBVIOUS
        <4>1. Refers(p) \subseteq gc.grey \cup gc.black
          BY <2>2 DEF Heap, Colored
        <4>2. Held \subseteq gc.grey \cup gc.black
          BY <2>2 DEF Heap, Colored
        <4> QED
          BY <2>2, <2>3, <4>1, <4>2
      <3> QED
        BY <2>1, <2>2, <3>1 DEF Heap, Colored
    <2>5. Hopeless'
      <3>1. \A p \in objects \ garbage : Refers(p)' \cap garbage = {}
        BY <1>1, <2>3 DEF Heap, Hopeless
      <3>2. (Held' \cup gc.grey \cup gc.black) \cap garbage = {}
        BY <2>1 DEF Heap, Hopeless
      <3> QED
        BY <1>4, <2>1, <3>1, <3>2 DEF Heap, Hopeless, LockFree
    <2> QED
      BY <1>2, <2>4, <2>5 DEF Heap
  <1> QED
    BY <1>3, <1>4

----------------------------------------------------------------------------
(* collect() *)
LEMMA ReachableIs ==
  ASSUME NEW S \in SUBSET Objects
  PROVE  S \subseteq Reachable(S) /\ \A o \in Reachable(S) : Refers(o) \subseteq Reachable(S)
  <1>1. S \subseteq Reachable(S)
    BY DEF Reachable
  <1>2. ASSUME NEW o \in Reachable(S), NEW x \in Refers(o) PROVE x \in Reachable(S)
    <2>1. x \in Objects
      BY <1>2 DEF Refers
    <2>2. ASSUME NEW C \in SUBSET Objects, S \subseteq C, Closed(C) PROVE x \in C
      <3>1. o \in C
        BY <2>2 DEF Reachable
      <3> QED
        BY <2>2, <3>1 DEF Closed
    <2> QED
      BY <2>1, <2>2 DEF Reachable
  <1> QED
    BY <1>1, <1>2

LEMMA CallsKept ==
  ASSUME Types, CallsSound, StoredAreCounted, UNCHANGED <<strong, entries, weak, writer, call>>
  PROVE  CallsSound' /\ StoredAreCounted'
  <1>1. CallsSound'
    BY DEF CallsSound, CallSound
  <1>2. \A o, x : Counts(o, x)' = Counts(o, x)
    BY DEF Counts, Unreferenced, Awaited
  <1> QED
    BY <1>1, <1>2 DEF StoredAreCounted

LEMMA BeginCollectStep ==
  ASSUME IInv, BeginCollect
  PROVE  IInv'
  <1>1. /\ gc' = [phase |-> "scan", todo |-> objects, grey |-> {}, black |-> {}]
        /\ garbage' = objects \ Reachable(Held)
        /\ UNCHANGED <<objects, strong, entries, weak, writer, call>>
    BY DEF BeginCollect
  <1>2. objects \subseteq Objects /\ Held \subseteq objects
    BY DEF IInv, Types, TypeOK, Heap, Managed, HeldIsManaged
  <1>3. Types'
    BY <1>1, <1>2 DEF IInv, Types, TypeOK
  <1>4. Held' = Held /\ \A o : Refers(o)' = Refers(o)
    BY <1>1 DEF Held, Refers
  <1>5. CallsSound' /\ StoredAreCounted'
    BY <1>1, CallsKept DEF IInv
  <1>6. Managed' /\ Colored'
    BY <1>1, <1>2, <1>4 DEF IInv, Heap, Managed, HeldIsManaged, Colored
  <1>7. Hopeless'
    <2>1. /\ Held \subseteq Reachable(Held)
          /\ \A o \in Reachable(Held) : Refers(o) \subseteq Reachable(Held)
      BY <1>2, ReachableIs
    <2>2. \A o \in objects \ garbage' : Refers(o) \cap garbage' = {}
      BY <1>1, <2>1
    <2> QED
      BY <1>1, <1>4, <2>1, <2>2 DEF Hopeless, LockFree
  <1> QED
    BY <1>3, <1>5, <1>6, <1>7 DEF IInv, Heap

LEMMA ScanStep ==
  ASSUME IInv, NEW o \in Objects, Scan(o)
  PROVE  IInv'
  <1>1. /\ gc.phase = "scan" /\ o \in gc.todo
        /\ gc' = [gc EXCEPT !.todo = @ \ {o}, !.grey = IF Counted(o) THEN @ \cup {o} ELSE @]
        /\ UNCHANGED <<objects, strong, entries, weak, writer, call, garbage>>
    BY DEF Scan
  <1>2. /\ gc'.phase = "scan" /\ gc'.todo = gc.todo \ {o} /\ gc'.black = gc.black
        /\ gc'.grey = IF o \in Held THEN gc.grey \cup {o} ELSE gc.grey
    BY <1>1 DEF IInv, Types, Counted
  <1>3. Types'
    BY <1>1 DEF IInv, Types, TypeOK
  <1>4. Held' = Held /\ \A p : Refers(p)' = Refers(p)
    BY <1>1 DEF Held, Refers
  <1>5. CallsSound' /\ StoredAreCounted'
    BY <1>1, CallsKept DEF IInv
  <1>6. Managed'
    BY <1>1, <1>4 DEF IInv, Heap, Managed, HeldIsManaged
  <1>7. Colored'
    BY <1>1, <1>2, <1>4 DEF IInv, Heap, Colored
  <1>8. Hopeless'
    BY <1>1, <1>2, <1>4 DEF IInv, Heap, Hopeless, LockFree
  <1> QED
    BY <1>3, <1>5, <1>6, <1>7, <1>8 DEF IInv, Heap

LEMMA MarkStep ==
  ASSUME IInv, NEW o \in Objects, Mark(o)
  PROVE  IInv'
  <1>1. /\ gc.phase = "scan" /\ gc.todo = {} /\ o \in gc.grey
        /\ gc' = [gc EXCEPT !.black = @ \cup {o},
                            !.grey = (@ \cup (Refers(o) \ gc.black)) \ {o}]
        /\ UNCHANGED <<objects, strong, entries, weak, writer, call, garbage>>
    BY DEF Mark
  <1>2. /\ gc'.phase = "scan" /\ gc'.todo = {} /\ gc'.black = gc.black \cup {o}
        /\ gc'.grey = (gc.grey \cup (Refers(o) \ gc.black)) \ {o}
    BY <1>1 DEF IInv, Types
  <1>3. Refers(o) \subseteq objects /\ objects \subseteq Objects
    BY DEF IInv, Heap, Managed, Types, TypeOK
  <1>4. Types'
    BY <1>1, <1>3 DEF IInv, Types, TypeOK
  <1>5. Held' = Held /\ \A p : Refers(p)' = Refers(p)
    BY <1>1 DEF Held, Refers
  <1>6. CallsSound' /\ StoredAreCounted'
    BY <1>1, CallsKept DEF IInv
  <1>7. Managed'
    BY <1>1, <1>5 DEF IInv, Heap, Managed, HeldIsManaged
  <1>8. Colored'
    BY <1>1, <1>2, <1>3, <1>5 DEF IInv, Heap, Colored
  <1>9. Hopeless'
    <2>1. o \in objects \ garbage
      BY <1>1 DEF IInv, Heap, Colored, Hopeless
    <2>2. Refers(o) \cap garbage = {}
      BY <2>1 DEF IInv, Heap, Hopeless
    <2> QED
      BY <1>1, <1>2, <1>5, <2>1, <2>2 DEF IInv, Heap, Hopeless, LockFree
  <1> QED
    BY <1>4, <1>6, <1>7, <1>8, <1>9 DEF IInv, Heap

(* When nothing is grey any more, black is closed and holds what is in use. *)
LEMMA SweepStep ==
  ASSUME IInv, Sweep
  PROVE  IInv'
  <1> DEFINE B == gc.black
  <1>1. /\ gc.phase = "scan" /\ gc.todo = {} /\ gc.grey = {}
        /\ objects' = B
        /\ gc' = [phase |-> "idle", todo |-> {}, grey |-> {}, black |-> {}]
        /\ garbage' = garbage \cap B
        /\ UNCHANGED <<strong, writer, call>>
    BY DEF Sweep
  <1>2. /\ \A o \in Objects : entries'[o] = IF o \in B THEN entries[o] ELSE [k \in Slots |-> None]
        /\ \A o \in Objects : weak'[o] = IF o \in B THEN weak[o] ELSE [x \in Objects |-> 0]
    BY DEF Sweep
  <1>3. Held \subseteq B /\ B \subseteq objects /\ B \subseteq Objects
    BY <1>1 DEF IInv, Heap, Colored, Types, TypeOK
  <1>4. \A o \in B : Refers(o) \subseteq B
    BY <1>1 DEF IInv, Heap, Colored
  <1>5. garbage' = {}
    BY <1>1 DEF IInv, Heap, Hopeless
  <1>6. Held' = Held
    BY <1>1 DEF Held
  <1>7. \A o \in Objects : Refers(o)' = IF o \in B THEN Refers(o) ELSE {}
    BY <1>2 DEF Refers
  <1>8. Types'
    <2>1. entries' \in [Objects -> [Slots -> Objects \cup {None}]]
      BY DEF Sweep, IInv, Types, TypeOK
    <2>2. weak' \in [Objects -> [Objects -> 0 .. MaxRefs]]
      BY EffilGCAssumption DEF Sweep, IInv, Types, TypeOK
    <2> QED
      BY <1>1, <1>3, <1>5, <2>1, <2>2 DEF IInv, Types, TypeOK
  <1>9. \A t \in Threads : call[t].at # "idle" => call[t].o \in B
    <2>1. \A t \in Threads : call[t].at # "idle" => call[t].o \in strong[t]
      BY DEF IInv, CallsSound, CallSound
    <2> QED
      BY <1>3, <2>1, Views
  <1>10. CallsSound'
    <2> SUFFICES ASSUME NEW t \in Threads PROVE CallSound(t)'
      BY DEF CallsSound
    <2>1. CallSound(t) /\ call'[t] = call[t] /\ strong'[t] = strong[t]
      BY <1>1 DEF IInv, CallsSound
    <2>2. call[t].at # "idle" =>
            /\ writer'[call[t].o] = writer[call[t].o]
            /\ entries'[call[t].o] = entries[call[t].o] /\ weak'[call[t].o] = weak[call[t].o]
      BY <1>1, <1>2, <1>3, <1>9
    <2> QED
      BY <2>1, <2>2, Undisturbed DEF IInv
  <1>11. StoredAreCounted'
    <2> SUFFICES ASSUME NEW o \in Objects, NEW x \in Objects
                 PROVE  IsFiniteSet(Counts(o, x)') /\ Cardinality(Counts(o, x)') <= weak'[o][x]
      BY DEF StoredAreCounted
    <2>1. CASE o \in B
      <3>1. Counts(o, x)' = Counts(o, x)
        BY <1>1, <1>2, <2>1, CountsElsewhere
      <3> QED
        BY <1>2, <2>1, <3>1 DEF IInv, StoredAreCounted
    <2>2. CASE o \notin B
      <3>1. \A k \in Slots : entries'[o][k] # x
        BY <1>2, <2>2, EffilGCAssumption
      <3>2. \A k \in Slots : ~ Awaited(o, k, x)'
        BY <1>1, <1>9, <2>2 DEF Awaited
      <3>3. Counts(o, x)' = {}
        BY <3>1, <3>2 DEF Counts
      <3>4. weak'[o][x] = 0
        BY <1>2, <2>2
      <3>5. IsFiniteSet(Counts(o, x)') /\ Cardinality(Counts(o, x)') = 0
        BY <3>3, FS_EmptySet
      <3> QED
        BY <3>4, <3>5
    <2> QED
      BY <2>1, <2>2
  <1>12. Managed'
    BY <1>1, <1>3, <1>4, <1>6, <1>7 DEF Managed, HeldIsManaged
  <1>13. Colored' /\ Hopeless'
    BY <1>1, <1>5 DEF Colored, Hopeless, LockFree
  <1> QED
    BY <1>8, <1>10, <1>11, <1>12, <1>13 DEF IInv, Heap

----------------------------------------------------------------------------
(* Threads between two calls *)
LEMMA IdleStep ==
  ASSUME IInv, Types', UNCHANGED <<entries, weak, writer, call, gc, garbage>>,
         \A u \in Threads : call[u].at = "idle" \/ strong[u] \subseteq strong'[u],
         \/ objects' = objects /\ Held' \subseteq Held
         \/ LockFree /\ objects \subseteq objects' /\ Held' \subseteq objects'
  PROVE  IInv'
  <1>1. CallsSound'
    <2> SUFFICES ASSUME NEW u \in Threads PROVE CallSound(u)'
      BY DEF CallsSound
    <2>1. CallSound(u)
      BY DEF IInv, CallsSound
    <2> QED
      BY <2>1, Undisturbed DEF IInv
  <1>2. StoredAreCounted'
    <2>1. \A o, x : Counts(o, x)' = Counts(o, x)
      BY DEF Counts, Unreferenced, Awaited
    <2> QED
      BY <2>1 DEF IInv, StoredAreCounted
  <1>3. MutatorMoves
    <2>1. \A p : Refers(p)' = Refers(p)
      BY DEF Refers
    <2> QED
      BY <2>1 DEF MutatorMoves
  <1> QED
    BY <1>1, <1>2, <1>3, MutatorKeepsHeap DEF IInv

LEMMA CreateStep ==
  ASSUME IInv, NEW t \in Threads, NEW o \in Objects, Create(t, o)
  PROVE  IInv'
  <1>1. /\ call[t].at = "idle" /\ LockFree
        /\ objects' = objects \cup {o}
        /\ \A u \in Threads : strong'[u] = IF u = t THEN strong[u] \cup {o} ELSE strong[u]
        /\ UNCHANGED <<entries, weak, writer, call, gc, garbage>>
    BY DEF Create, At, IInv, Types, TypeOK
  <1>2. Types'
    BY <1>1 DEF Create, IInv, Types, TypeOK
  <1>3. Held' \subseteq objects'
    <2>1. Held \subseteq objects
      BY DEF IInv, Heap, Managed, HeldIsManaged
    <2> QED
      BY <1>1, <2>1, Views, ViewsNext
  <1>4. \A u \in Threads : strong[u] \subseteq strong'[u]
    BY <1>1
  <1> QED
    BY <1>1, <1>2, <1>3, <1>4, IdleStep

LEMMA DropStep ==
  ASSUME IInv, NEW t \in Threads, NEW o \in Objects, Drop(t, o)
  PROVE  IInv'
  <1>1. /\ call[t].at = "idle"
        /\ \A u \in Threads : strong'[u] = IF u = t THEN strong[u] \ {o} ELSE strong[u]
        /\ UNCHANGED <<objects, entries, weak, writer, call, gc, garbage>>
    BY DEF Drop, At, IInv, Types, TypeOK
  <1>2. Types'
    BY <1>1 DEF Drop, IInv, Types, TypeOK
  <1>3. Held' \subseteq Held
    BY <1>1, Views, ViewsNext
  <1>4. \A u \in Threads : call[u].at = "idle" \/ strong[u] \subseteq strong'[u]
    BY <1>1
  <1> QED
    BY <1>1, <1>2, <1>3, <1>4, IdleStep

LEMMA RunThreadStep ==
  ASSUME IInv, NEW t \in Threads, NEW u \in Threads, NEW o \in Objects, RunThread(t, u, o)
  PROVE  IInv'
  <1>1. /\ call[u].at = "idle" /\ o \in strong[t] /\ strong[u] = {}
        /\ \A v \in Threads : strong'[v] = IF v = u THEN {o} ELSE strong[v]
        /\ UNCHANGED <<objects, entries, weak, writer, call, gc, garbage>>
    BY DEF RunThread, At, IInv, Types, TypeOK
  <1>2. Types'
    BY <1>1 DEF RunThread, IInv, Types, TypeOK
  <1>3. Held' \subseteq Held
    BY <1>1, Views, ViewsNext
  <1>4. \A v \in Threads : strong[v] \subseteq strong'[v]
    BY <1>1
  <1> QED
    BY <1>1, <1>2, <1>3, <1>4, IdleStep

(* A call begins: nobody else is in one on that object. *)
LEMMA LockStep ==
  ASSUME IInv, NEW t \in Threads, NEW o \in Objects, NEW k \in Slots, NEW x \in Objects,
         NEW w \in WriterOps \ {"release", "assign", "erase", "refmeta"},
         Lock(t, o, [at |-> w, o |-> o, k |-> k, x |-> x]),
         w \in {"add", "oldmeta", "newmeta"} => x \in strong[t],
         w \in {"hold", "remove"} => entries[o][k] = x,
         w = "oldmeta" => entries[o][Meta] # None,
         w \in {"oldmeta", "newmeta"} => k = Meta
  PROVE  IInv'
  <1> DEFINE c == [at |-> w, o |-> o, k |-> k, x |-> x]
  <1>1. /\ call[t].at = "idle" /\ o \in strong[t] /\ Unlocked(o)
        /\ Goto(t, c) /\ c \in Calls
        /\ writer' = [writer EXCEPT ![o] = t]
        /\ UNCHANGED <<objects, strong, entries, weak, gc, garbage>>
    BY DEF Lock, At, Calls
  <1>2. /\ c.at = w /\ c.o = o /\ c.k = k /\ c.x = x
    OBVIOUS
  <1> HIDE DEF c
  <1>3. /\ call' \in [Threads -> Calls] /\ call'[t] = c
        /\ \A u \in Threads \ {t} : call'[u] = call[u]
    BY <1>1, Went DEF IInv
  <1>4. /\ writer' \in [Objects -> Threads \cup {None}] /\ writer'[o] = t
        /\ \A p \in Objects \ {o} : writer'[p] = writer[p]
    BY <1>1 DEF IInv, Types, TypeOK
  <1>5. Types'
    BY <1>1, <1>3, <1>4 DEF IInv, Types, TypeOK
  <1>6. \A u \in Threads : call[u].at # "idle" => call[u].o # o /\ call[u].o \in Objects
    BY <1>1, NobodyIn, CallType DEF IInv
  <1>7. CallsSound'
    <2> SUFFICES ASSUME NEW u \in Threads PROVE CallSound(u)'
      BY DEF CallsSound
    <2>1. CASE u = t
      BY <1>1, <1>2, <1>3, <1>4, <2>1 DEF CallSound, WriterOps
    <2>2. CASE u # t
      <3>1. CallSound(u)
        BY DEF IInv, CallsSound
      <3> QED
        BY <1>1, <1>3, <1>4, <1>6, <2>2, <3>1, Undisturbed DEF IInv
    <2> QED
      BY <2>1, <2>2
  <1>8. StoredAreCounted'
    <2>1. \A p \in Objects : \A y : Counts(p, y)' = Counts(p, y)
      <3>1. \A p, l : Unreferenced(p, l)' <=> Unreferenced(p, l)
        BY <1>1, <1>2, <1>3 DEF Unreferenced
      <3>2. \A p, l, y : Awaited(p, l, y)' <=> Awaited(p, l, y)
        BY <1>1, <1>2, <1>3 DEF Awaited
      <3> QED
        BY <1>1, <3>1, <3>2 DEF Counts
    <2> QED
      BY <1>1, <2>1 DEF IInv, StoredAreCounted
  <1>9. MutatorMoves
    <2>1. Held' = Held /\ \A p : Refers(p)' = Refers(p)
      BY <1>1 DEF Held, Refers
    <2> QED
      BY <1>1, <2>1 DEF MutatorMoves
  <1> QED
    BY <1>5, <1>7, <1>8, <1>9, MutatorKeepsHeap DEF IInv

LEMMA BeginStep ==
  ASSUME IInv, NEW t \in Threads, NEW o \in Objects
  PROVE  /\ \A k \in Keys, x \in Objects : BeginSet(t, o, k, x) => IInv'
         /\ \A k \in Slots : BeginUnset(t, o, k) \/ BeginPop(t, o, k) => IInv'
         /\ \A x \in Objects : BeginSetMeta(t, o, x) => IInv'
  <1> USE DEF Slots
  <1>1. ASSUME NEW k \in Keys, NEW x \in Objects, BeginSet(t, o, k, x) PROVE IInv'
    BY <1>1, LockStep DEF BeginSet, WriterOps
  <1>2. ASSUME NEW k \in Slots, BeginUnset(t, o, k) PROVE IInv'
    <2>1. entries[o][k] \in Objects
      BY <1>2 DEF BeginUnset, IInv, Types, TypeOK
    <2> QED
      BY <1>2, <2>1, LockStep DEF BeginUnset, WriterOps
  <1>3. ASSUME NEW k \in Slots, BeginPop(t, o, k) PROVE IInv'
    <2>1. entries[o][k] \in Objects
      BY <1>3 DEF BeginPop, IInv, Types, TypeOK
    <2> QED
      BY <1>3, <2>1, LockStep DEF BeginPop, WriterOps
  <1>4. ASSUME NEW x \in Objects, BeginSetMeta(t, o, x) PROVE IInv'
    <2> DEFINE w == IF entries[o][Meta] = None THEN "newmeta" ELSE "oldmeta"
    <2>1. /\ w \in WriterOps \ {"release", "assign", "erase", "refmeta"}
          /\ w \in {"newmeta", "oldmeta"}
          /\ w = "oldmeta" => entries[o][Meta] # None
      BY DEF WriterOps
    <2>2. x \in strong[t] /\ Lock(t, o, [at |-> w, o |-> o, k |-> Meta, x |-> x])
      BY <1>4 DEF BeginSetMeta
    <2> HIDE DEF w
    <2> QED
      BY <2>1, <2>2, LockStep
  <1> QED
    BY <1>1, <1>2, <1>3, <1>4

----------------------------------------------------------------------------
(* A step of a call that holds the lock of o: nobody else is in a call on  *)
(* o, so what has to be shown is about this call and what o holds.         *)
Counted1(o, x) == IsFiniteSet(Counts(o, x)) /\ Cardinality(Counts(o, x)) <= weak[o][x]

LEMMA WriterStep ==
  ASSUME IInv, Types', NEW t \in Threads, call[t].at \in WriterOps,
         NEW o, o = call[t].o,
         UNCHANGED <<objects, gc, garbage>>,
         \A u \in Threads \ {t} : call'[u] = call[u] /\ strong'[u] = strong[u],
         \A p \in Objects \ {o} :
           writer'[p] = writer[p] /\ entries'[p] = entries[p] /\ weak'[p] = weak[p],
         call'[t].at \in WriterOps => call'[t].o = o,
         CallSound(t)',
         \A x \in Objects : Counted1(o, x)',
         strong'[t] \subseteq strong[t] \/ (LockFree /\ strong'[t] \subseteq objects),
         Refers(o)' \subseteq Refers(o) \cup Held
  PROVE  IInv'
  <1>1. o \in Objects
    BY CallType DEF IInv
  <1>2. CallsSound'
    BY OthersSound DEF IInv, CallsSound
  <1>3. StoredAreCounted'
    <2> SUFFICES ASSUME NEW p \in Objects, NEW x \in Objects, p # o PROVE Counted1(p, x)'
      BY DEF StoredAreCounted, Counted1
    <2>1. Counts(p, x)' = Counts(p, x)
      BY CountsElsewhere
    <2> QED
      BY <2>1 DEF IInv, StoredAreCounted, Counted1
  <1>4. MutatorMoves
    <2>1. \A p \in Objects \ {o} : Refers(p)' = Refers(p)
      BY DEF Refers
    <2>2. Held \subseteq objects
      BY DEF IInv, Heap, Managed, HeldIsManaged
    <2>3. (objects' = objects /\ Held' \subseteq Held) \/ (LockFree /\ Held' \subseteq objects')
      BY <2>2, Views, ViewsNext
    <2> QED
      BY <2>1, <2>3 DEF MutatorMoves
  <1> QED
    BY <1>2, <1>3, <1>4, MutatorKeepsHeap DEF IInv

(* What is counted for the object of a call, before and after its step. *)
OwnCounts(t, o, x) ==
  {k \in Slots :
     \/ entries[o][k] = x /\ ~ (call[t].at \in {"erase", "refmeta"} /\ call[t].k = k)
     \/ call[t].at \in {"release", "assign"} /\ call[t].k = k /\ call[t].x = x}

LEMMA CountsAreOwn ==
  ASSUME Types, CallsSound, NEW t \in Threads, call[t].at \in WriterOps, NEW o, o = call[t].o,
         \A u \in Threads \ {t} : call'[u] = call[u],
         call'[t].at \in WriterOps => call'[t].o = o,
         NEW x
  PROVE  Counts(o, x) = OwnCounts(t, o, x) /\ Counts(o, x)' = OwnCounts(t, o, x)'
  <1>1. \A u \in Threads \ {t} : call[u].at \in WriterOps => call[u].o # o
    BY OneWriter DEF WriterOps
  <1>2. \A u \in Threads \ {t} : call'[u].at \in WriterOps => call'[u].o # o
    BY <1>1
  <1>3. Counts(o, x) = OwnCounts(t, o, x)
    BY <1>1, CountsOf DEF OwnCounts
  <1>4. Counts(o, x)' = OwnCounts(t, o, x)'
    BY <1>2, CountsOfNext DEF OwnCounts
  <1> QED
    BY <1>3, <1>4

LEMMA SetReferencesStep ==
  ASSUME IInv, NEW t \in Threads, SetReferences(t)
  PROVE  IInv'
  <1>0. PICK o, k, x : o = call[t].o /\ k = call[t].k /\ x = call[t].x
    OBVIOUS
  <1>1. /\ call[t].at = "add" /\ AddReference(o, x) /\ Step(t, "release")
        /\ UNCHANGED <<objects, strong, entries, writer, gc, garbage>>
    BY <1>0 DEF SetReferences, At
  <1>2. call[t].at \in WriterOps /\ "release" \in WriterOps /\ o \in Objects /\ x \in Objects
    BY <1>0, <1>1, CallType DEF IInv, WriterOps
  <1>3. /\ call' \in [Threads -> Calls]
        /\ call'[t].at = "release" /\ call'[t].o = o /\ call'[t].k = k /\ call'[t].x = x
        /\ \A u \in Threads \ {t} : call'[u] = call[u]
    BY <1>0, <1>1, <1>2, Stepped DEF IInv
  <1>4. /\ weak' \in [Objects -> [Objects -> 0 .. MaxRefs]]
        /\ \A p, y \in Objects :
              weak'[p][y] = IF p = o /\ y = x THEN weak[p][y] + 1 ELSE weak[p][y]
        /\ \A p \in Objects \ {o} : weak'[p] = weak[p]
    BY <1>0, <1>1, <1>2, ReferenceAdded DEF IInv
  <1>5. Types'
    BY <1>0, <1>1, <1>3, <1>4 DEF IInv, Types, TypeOK
  <1>6. CallSound(t)'
    <2>1. CallSound(t)
      BY DEF IInv, CallsSound
    <2> QED
      BY <1>0, <1>1, <1>2, <1>3, <2>1 DEF CallSound
  <1>7. ASSUME NEW y \in Objects PROVE Counted1(o, y)'
    <2>0. Counts(o, y) = OwnCounts(t, o, y) /\ Counts(o, y)' = OwnCounts(t, o, y)'
      BY <1>0, <1>2, <1>3, CountsAreOwn DEF IInv
    <2>1. Counts(o, y)' \subseteq Counts(o, y) \cup (IF y = x THEN {k} ELSE {})
      BY <1>0, <1>1, <1>3, <2>0 DEF OwnCounts
    <2>2. CASE y = x
      BY <1>0, <1>2, <1>4, <1>5, <2>1, <2>2, CountsAdded DEF IInv, Counted1
    <2>3. CASE y # x
      <3>1. weak'[o][y] = weak[o][y] /\ weak[o][y] \in Int
        BY <1>2, <1>4, <2>3 DEF IInv, Types, TypeOK
      <3> QED
        BY <1>2, <1>5, <2>1, <2>3, <3>1, CountsKept DEF IInv, Counted1
    <2> QED
      BY <2>2, <2>3
  <1>8. Refers(o)' \subseteq Refers(o) \cup Held
    <2>1. x \in Held
      BY <1>0, <1>1, Views DEF IInv, CallsSound, CallSound
    <2> QED
      BY <1>2, <1>4, <2>1, References, ReferencesNext
  <1> QED
    BY <1>0, <1>1, <1>2, <1>3, <1>4, <1>5, <1>6, <1>7, <1>8, WriterStep

LEMMA SetReleasesStep ==
  ASSUME IInv, NEW t \in Threads, SetReleases(t)
  PROVE  IInv'
  <1>0. PICK o, k, x : o = call[t].o /\ k = call[t].k /\ x = call[t].x
    OBVIOUS
  <1>1. /\ call[t].at = "release" /\ Step(t, "assign")
        /\ UNCHANGED <<objects, entries, weak, writer, gc, garbage>>
    BY <1>0 DEF SetReleases, Release, At
  <1>2. call[t].at \in WriterOps /\ "assign" \in WriterOps /\ o \in Objects /\ x \in Objects
    BY <1>0, <1>1, CallType DEF IInv, WriterOps
  <1>3. /\ call' \in [Threads -> Calls]
        /\ call'[t].at = "assign" /\ call'[t].o = o /\ call'[t].k = k /\ call'[t].x = x
        /\ \A u \in Threads \ {t} : call'[u] = call[u]
    BY <1>0, <1>1, <1>2, Stepped DEF IInv
  <1>4. /\ strong' \in [Threads -> SUBSET Objects]
        /\ strong'[t] \subseteq strong[t] /\ (o \in strong[t] => o \in strong'[t])
        /\ \A u \in Threads \ {t} : strong'[u] = strong[u]
    BY <1>0 DEF SetReleases, Release, IInv, Types, TypeOK
  <1>5. Types'
    BY <1>0, <1>1, <1>3, <1>4 DEF IInv, Types, TypeOK
  <1>6. CallSound(t)'
    <2>1. CallSound(t)
      BY DEF IInv, CallsSound
    <2> QED
      BY <1>0, <1>1, <1>2, <1>3, <1>4, <2>1 DEF CallSound
  <1>7. ASSUME NEW y \in Objects PROVE Counted1(o, y)'
    <2> SUFFICES Counts(o, y)' \subseteq Counts(o, y)
      <3>1. weak'[o][y] = weak[o][y] /\ weak[o][y] \in Int
        BY <1>1, <1>2 DEF IInv, Types, TypeOK
      <3> QED
        BY <1>2, <1>5, <3>1, CountsKept DEF IInv, Counted1
    <2>1. Counts(o, y) = OwnCounts(t, o, y) /\ Counts(o, y)' = OwnCounts(t, o, y)'
      BY <1>0, <1>2, <1>3, CountsAreOwn DEF IInv
    <2> QED
      BY <1>0, <1>1, <1>3, <2>1 DEF OwnCounts
  <1>8. Refers(o)' = Refers(o)
    BY <1>1 DEF Refers
  <1> QED
    BY <1>0, <1>1, <1>2, <1>3, <1>4, <1>5, <1>6, <1>7, <1>8, WriterStep

LEMMA SetAssignsStep ==
  ASSUME IInv, NEW t \in Threads, SetAssigns(t)
  PROVE  IInv'
  <1>0. PICK o, k, x : o = call[t].o /\ k = call[t].k /\ x = call[t].x
    OBVIOUS
  <1>1. /\ call[t].at = "assign" /\ Goto(t, Idle)
        /\ entries' = [entries EXCEPT ![o][k] = x] /\ writer' = [writer EXCEPT ![o] = None]
        /\ UNCHANGED <<objects, strong, weak, gc, garbage>>
    BY <1>0 DEF SetAssigns, Finish, At
  <1>2. call[t].at \in WriterOps /\ o \in Objects /\ k \in Slots /\ x \in Objects
    BY <1>0, <1>1, CallType DEF IInv, WriterOps
  <1>3. /\ call' \in [Threads -> Calls] /\ call'[t].at = "idle"
        /\ \A u \in Threads \ {t} : call'[u] = call[u]
    BY <1>1, Ended DEF IInv
  <1>4. /\ entries' \in [Objects -> [Slots -> Objects \cup {None}]]
        /\ \A l \in Slots : entries'[o][l] = IF l = k THEN x ELSE entries[o][l]
        /\ \A p \in Objects \ {o} : entries'[p] = entries[p]
    BY <1>1, <1>2, EntryPut DEF IInv
  <1>5. Types' /\ \A p \in Objects \ {o} : writer'[p] = writer[p]
    BY <1>1, <1>3, <1>4 DEF IInv, Types, TypeOK
  <1>6. CallSound(t)'
    BY <1>3 DEF CallSound, WriterOps
  <1>7. ASSUME NEW y \in Objects PROVE Counted1(o, y)'
    <2>1. Counts(o, y) = OwnCounts(t, o, y) /\ Counts(o, y)' = OwnCounts(t, o, y)'
      BY <1>0, <1>2, <1>3, CountsAreOwn DEF IInv, WriterOps
    <2>2. Counts(o, y)' \subseteq Counts(o, y)
      BY <1>0, <1>1, <1>3, <1>4, <2>1 DEF OwnCounts
    <2>3. weak'[o][y] = weak[o][y] /\ weak[o][y] \in Int
      BY <1>1, <1>2 DEF IInv, Types, TypeOK
    <2> QED
      BY <1>2, <1>5, <2>2, <2>3, CountsKept DEF IInv, Counted1
  <1>8. Refers(o)' = Refers(o)
    BY <1>1 DEF Refers
  <1> QED
    BY <1>0, <1>1, <1>2, <1>3, <1>4, <1>5, <1>6, <1>7, <1>8, WriterStep DEF WriterOps

LEMMA PushThrowsStep ==
  ASSUME IInv, NEW t \in Threads, PushThrows(t)
  PROVE  IInv'
  <1>0. PICK o, k, x : o = call[t].o /\ k = call[t].k /\ x = call[t].x
    OBVIOUS
  <1>1. /\ call[t].at = "assign" /\ Goto(t, Idle)
        /\ writer' = [writer EXCEPT ![o] = None]
        /\ UNCHANGED <<objects, strong, entries, weak, gc, garbage>>
    BY <1>0 DEF PushThrows, Finish, At
  <1>2. call[t].at \in WriterOps /\ o \in Objects /\ k \in Slots /\ x \in Objects
    BY <1>0, <1>1, CallType DEF IInv, WriterOps
  <1>3. /\ call' \in [Threads -> Calls] /\ call'[t].at = "idle"
        /\ \A u \in Threads \ {t} : call'[u] = call[u]
    BY <1>1, Ended DEF IInv
  <1>4. Types' /\ \A p \in Objects \ {o} : writer'[p] = writer[p]
    BY <1>1, <1>3 DEF IInv, Types, TypeOK
  <1>5. CallSound(t)'
    BY <1>3 DEF CallSound, WriterOps
  <1>6. ASSUME NEW y \in Objects PROVE Counted1(o, y)'
    <2>1. Counts(o, y) = OwnCounts(t, o, y) /\ Counts(o, y)' = OwnCounts(t, o, y)'
      BY <1>0, <1>2, <1>3, CountsAreOwn DEF IInv, WriterOps
    <2>2. Counts(o, y)' \subseteq Counts(o, y)
      BY <1>0, <1>1, <1>3, <2>1 DEF OwnCounts
    <2>3. weak'[o][y] = weak[o][y] /\ weak[o][y] \in Int
      BY <1>1, <1>2 DEF IInv, Types, TypeOK
    <2> QED
      BY <1>2, <1>4, <2>2, <2>3, CountsKept DEF IInv, Counted1
  <1>7. Refers(o)' = Refers(o)
    BY <1>1 DEF Refers
  <1> QED
    BY <1>0, <1>1, <1>2, <1>3, <1>4, <1>5, <1>6, <1>7, WriterStep DEF WriterOps

(* The entry that is popped is referenced, so it exists. *)
LEMMA EntryReferenced ==
  ASSUME IInv, NEW t \in Threads, call[t].at \in {"hold", "remove"}
  PROVE  weak[call[t].o][call[t].x] > 0 /\ call[t].x \in objects
  <1>0. PICK o, k, x : o = call[t].o /\ k = call[t].k /\ x = call[t].x
    OBVIOUS
  <1>1. call[t].at \in WriterOps /\ o \in Objects /\ k \in Slots /\ x \in Objects
    BY <1>0, CallType DEF IInv, WriterOps
  <1>2. entries[o][k] = x
    BY <1>0 DEF IInv, CallsSound, CallSound
  <1>3. \A u \in Threads \ {t} : call[u].at \in WriterOps => call[u].o # o
    BY <1>0, <1>1, OneWriter DEF IInv, WriterOps
  <1>4. k \in Counts(o, x)
    BY <1>0, <1>1, <1>2, <1>3, CountsOf
  <1>5. weak[o][x] > 0
    BY <1>1, <1>4, Positive DEF IInv
  <1>6. x \in objects
    BY <1>1, <1>5, References DEF IInv, Heap, Managed
  <1> QED
    BY <1>0, <1>5, <1>6

LEMMA HoldStep ==
  ASSUME IInv, NEW t \in Threads, Hold(t)
  PROVE  IInv'
  <1>0. PICK o, k, x : o = call[t].o /\ k = call[t].k /\ x = call[t].x
    OBVIOUS
  <1>1. /\ call[t].at = "hold" /\ LockFree /\ Step(t, "remove")
        /\ UNCHANGED <<objects, entries, weak, writer, gc, garbage>>
    BY DEF Hold, At
  <1>2. /\ call[t].at \in WriterOps /\ "remove" \in WriterOps
        /\ o \in Objects /\ k \in Slots /\ x \in Objects /\ x \in objects
    BY <1>0, <1>1, CallType, EntryReferenced DEF IInv, WriterOps
  <1>3. /\ call' \in [Threads -> Calls]
        /\ call'[t].at = "remove" /\ call'[t].o = o /\ call'[t].k = k /\ call'[t].x = x
        /\ \A u \in Threads \ {t} : call'[u] = call[u]
    BY <1>0, <1>1, <1>2, Stepped DEF IInv
  <1>4. /\ strong' \in [Threads -> SUBSET Objects]
        /\ strong'[t] = strong[t] \cup {x}
        /\ \A u \in Threads \ {t} : strong'[u] = strong[u]
    BY <1>0, <1>2 DEF Hold, IInv, Types, TypeOK
  <1>5. Types'
    BY <1>1, <1>3, <1>4 DEF IInv, Types, TypeOK
  <1>6. CallSound(t)'
    <2>1. CallSound(t)
      BY DEF IInv, CallsSound
    <2> QED
      BY <1>0, <1>1, <1>2, <1>3, <1>4, <2>1 DEF CallSound
  <1>7. ASSUME NEW y \in Objects PROVE Counted1(o, y)'
    <2>1. Counts(o, y) = OwnCounts(t, o, y) /\ Counts(o, y)' = OwnCounts(t, o, y)'
      BY <1>0, <1>2, <1>3, CountsAreOwn DEF IInv
    <2>2. Counts(o, y)' \subseteq Counts(o, y)
      BY <1>0, <1>1, <1>3, <2>1 DEF OwnCounts
    <2>3. weak'[o][y] = weak[o][y] /\ weak[o][y] \in Int
      BY <1>1, <1>2 DEF IInv, Types, TypeOK
    <2> QED
      BY <1>2, <1>5, <2>2, <2>3, CountsKept DEF IInv, Counted1
  <1>8. Refers(o)' = Refers(o)
    BY <1>1 DEF Refers
  <1>9. strong'[t] \subseteq objects
    <2>1. strong[t] \subseteq objects
      BY Views DEF IInv, Heap, Managed, HeldIsManaged
    <2> QED
      BY <1>2, <1>4, <2>1
  <1> QED
    BY <1>0, <1>1, <1>2, <1>3, <1>4, <1>5, <1>6, <1>7, <1>8, <1>9, WriterStep

LEMMA RemovesReferenceStep ==
  ASSUME IInv, NEW t \in Threads, RemovesReference(t)
  PROVE  IInv'
  <1>0. PICK o, k, x : o = call[t].o /\ k = call[t].k /\ x = call[t].x
    OBVIOUS
  <1>1. /\ call[t].at = "remove" /\ RemoveReference(o, x) /\ Step(t, "erase")
        /\ UNCHANGED <<objects, strong, entries, writer, gc, garbage>>
    BY <1>0 DEF RemovesReference, At
  <1>2. /\ call[t].at \in WriterOps /\ "erase" \in WriterOps
        /\ o \in Objects /\ k \in Slots /\ x \in Objects /\ weak[o][x] > 0
    BY <1>0, <1>1, CallType, EntryReferenced DEF IInv, WriterOps
  <1>3. /\ call' \in [Threads -> Calls]
        /\ call'[t].at = "erase" /\ call'[t].o = o /\ call'[t].k = k /\ call'[t].x = x
        /\ \A u \in Threads \ {t} : call'[u] = call[u]
    BY <1>0, <1>1, <1>2, Stepped DEF IInv
  <1>4. /\ weak' \in [Objects -> [Objects -> 0 .. MaxRefs]]
        /\ \A p, y \in Objects :
              weak'[p][y] = IF p = o /\ y = x THEN weak[p][y] - 1 ELSE weak[p][y]
        /\ \A p \in Objects \ {o} : weak'[p] = weak[p]
    BY <1>1, <1>2, ReferenceRemoved DEF IInv
  <1>5. Types'
    BY <1>1, <1>3, <1>4 DEF IInv, Types, TypeOK
  <1>6. CallSound(t) /\ CallSound(t)'
    <2>1. CallSound(t)
      BY DEF IInv, CallsSound
    <2> QED
      BY <1>0, <1>1, <1>2, <1>3, <2>1 DEF CallSound
  <1>7. ASSUME NEW y \in Objects PROVE Counted1(o, y)'
    <2>1. Counts(o, y) = OwnCounts(t, o, y) /\ Counts(o, y)' = OwnCounts(t, o, y)'
      BY <1>0, <1>2, <1>3, CountsAreOwn DEF IInv
    <2>2. Counts(o, y)' \subseteq Counts(o, y) \ {k}
      BY <1>0, <1>1, <1>3, <2>1 DEF OwnCounts
    <2>3. weak[o][y] \in Int
      BY <1>2 DEF IInv, Types, TypeOK
    <2>4. CASE y = x
      <3>1. entries[o][k] = x
        BY <1>0, <1>1, <1>6 DEF CallSound
      <3>2. k \in Counts(o, y)
        BY <1>0, <1>1, <1>2, <2>1, <2>4, <3>1 DEF OwnCounts
      <3> QED
        BY <1>2, <1>4, <1>5, <2>2, <2>4, <3>2, CountsRemoved DEF IInv, Counted1
    <2>5. CASE y # x
      <3>1. weak'[o][y] = weak[o][y]
        BY <1>2, <1>4, <2>5
      <3> QED
        BY <1>2, <1>5, <2>2, <2>3, <3>1, CountsKept DEF IInv, Counted1
    <2> QED
      BY <2>4, <2>5
  <1>8. Refers(o)' \subseteq Refers(o)
    <2>1. \A y \in Objects : weak[o][y] \in Int
      BY <1>2 DEF IInv, Types, TypeOK
    <2>2. \A y \in Objects : weak'[o][y] > 0 => weak[o][y] > 0
      BY <1>2, <1>4, <2>1
    <2> QED
      BY <2>2, References, ReferencesNext
  <1> QED
    BY <1>0, <1>1, <1>2, <1>3, <1>4, <1>5, <1>6, <1>7, <1>8, WriterStep

LEMMA ErasesStep ==
  ASSUME IInv, NEW t \in Threads, Erases(t)
  PROVE  IInv'
  <1>0. PICK o, k, x : o = call[t].o /\ k = call[t].k /\ x = call[t].x
    OBVIOUS
  <1>1. /\ call[t].at = "erase" /\ Goto(t, Idle)
        /\ entries' = [entries EXCEPT ![o][k] = None] /\ writer' = [writer EXCEPT ![o] = None]
        /\ UNCHANGED <<objects, strong, weak, gc, garbage>>
    BY <1>0 DEF Erases, Finish, At
  <1>2. call[t].at \in WriterOps /\ o \in Objects /\ k \in Slots /\ x \in Objects
    BY <1>0, <1>1, CallType DEF IInv, WriterOps
  <1>3. /\ call' \in [Threads -> Calls] /\ call'[t].at = "idle"
        /\ \A u \in Threads \ {t} : call'[u] = call[u]
    BY <1>1, Ended DEF IInv
  <1>4. /\ entries' \in [Objects -> [Slots -> Objects \cup {None}]]
        /\ \A l \in Slots : entries'[o][l] = IF l = k THEN None ELSE entries[o][l]
        /\ \A p \in Objects \ {o} : entries'[p] = entries[p]
    BY <1>1, <1>2, EntryPut DEF IInv
  <1>5. Types' /\ \A p \in Objects \ {o} : writer'[p] = writer[p]
    BY <1>1, <1>3, <1>4 DEF IInv, Types, TypeOK
  <1>6. CallSound(t)'
    BY <1>3 DEF CallSound, WriterOps
  <1>7. ASSUME NEW y \in Objects PROVE Counted1(o, y)'
    <2>1. Counts(o, y) = OwnCounts(t, o, y) /\ Counts(o, y)' = OwnCounts(t, o, y)'
      BY <1>0, <1>2, <1>3, CountsAreOwn DEF IInv, WriterOps
    <2>2. y # None
      BY EffilGCAssumption
    <2>3. Counts(o, y)' \subseteq Counts(o, y)
      BY <1>0, <1>1, <1>3, <1>4, <2>1, <2>2 DEF OwnCounts
    <2>4. weak'[o][y] = weak[o][y] /\ weak[o][y] \in Int
      BY <1>1, <1>2 DEF IInv, Types, TypeOK
    <2> QED
      BY <1>2, <1>5, <2>3, <2>4, CountsKept DEF IInv, Counted1
  <1>8. Refers(o)' = Refers(o)
    BY <1>1 DEF Refers
  <1> QED
    BY <1>0, <1>1, <1>2, <1>3, <1>4, <1>5, <1>6, <1>7, <1>8, WriterStep DEF WriterOps

LEMMA OldMetaReferenced ==
  ASSUME IInv, NEW t \in Threads, call[t].at = "oldmeta"
  PROVE  /\ entries[call[t].o][Meta] \in Objects
         /\ weak[call[t].o][entries[call[t].o][Meta]] > 0
         /\ Meta \in Counts(call[t].o, entries[call[t].o][Meta])
  <1>0. PICK o, z : o = call[t].o /\ z = entries[o][Meta]
    OBVIOUS
  <1>1. call[t].at \in WriterOps /\ o \in Objects /\ Meta \in Slots
    BY <1>0, CallType DEF IInv, WriterOps, Slots
  <1>2. z \in Objects
    <2>1. z # None
      BY <1>0 DEF IInv, CallsSound, CallSound
    <2> QED
      BY <1>0, <1>1, <2>1 DEF IInv, Types, TypeOK
  <1>3. \A u \in Threads \ {t} : call[u].at \in WriterOps => call[u].o # o
    BY <1>0, <1>1, OneWriter DEF IInv, WriterOps
  <1>4. Meta \in Counts(o, z)
    BY <1>0, <1>1, <1>3, CountsOf
  <1>5. weak[o][z] > 0
    BY <1>1, <1>2, <1>4, Positive DEF IInv
  <1> QED
    BY <1>0, <1>2, <1>4, <1>5

LEMMA RemovesOldMetaStep ==
  ASSUME IInv, NEW t \in Threads, RemovesOldMeta(t)
  PROVE  IInv'
  <1>0. PICK o, k, x : o = call[t].o /\ k = call[t].k /\ x = call[t].x
    OBVIOUS
  <1>a. PICK z : z = entries[o][Meta]
    OBVIOUS
  <1>1. /\ call[t].at = "oldmeta" /\ RemoveReference(o, z) /\ Step(t, "newmeta")
        /\ entries' = [entries EXCEPT ![o][Meta] = None]
        /\ UNCHANGED <<objects, strong, writer, gc, garbage>>
    BY <1>0, <1>a DEF RemovesOldMeta, At
  <1>2. /\ call[t].at \in WriterOps /\ "newmeta" \in WriterOps
        /\ o \in Objects /\ k \in Slots /\ x \in Objects /\ Meta \in Slots
        /\ z \in Objects /\ weak[o][z] > 0 /\ Meta \in Counts(o, z)
    BY <1>0, <1>a, <1>1, CallType, OldMetaReferenced DEF IInv, WriterOps, Slots
  <1>3. /\ call' \in [Threads -> Calls]
        /\ call'[t].at = "newmeta" /\ call'[t].o = o /\ call'[t].k = k /\ call'[t].x = x
        /\ \A u \in Threads \ {t} : call'[u] = call[u]
    BY <1>0, <1>1, <1>2, Stepped DEF IInv
  <1>4. /\ weak' \in [Objects -> [Objects -> 0 .. MaxRefs]]
        /\ \A p, y \in Objects :
              weak'[p][y] = IF p = o /\ y = z THEN weak[p][y] - 1 ELSE weak[p][y]
        /\ \A p \in Objects \ {o} : weak'[p] = weak[p]
    BY <1>1, <1>2, ReferenceRemoved DEF IInv
  <1>5. /\ entries' \in [Objects -> [Slots -> Objects \cup {None}]]
        /\ \A l \in Slots : entries'[o][l] = IF l = Meta THEN None ELSE entries[o][l]
        /\ \A p \in Objects \ {o} : entries'[p] = entries[p]
    BY <1>1, <1>2, EntryPut DEF IInv
  <1>6. Types'
    BY <1>1, <1>3, <1>4, <1>5 DEF IInv, Types, TypeOK
  <1>7. CallSound(t)'
    <2>1. CallSound(t)
      BY DEF IInv, CallsSound
    <2> QED
      BY <1>0, <1>1, <1>2, <1>3, <2>1 DEF CallSound
  <1>8. ASSUME NEW y \in Objects PROVE Counted1(o, y)'
    <2>1. Counts(o, y) = OwnCounts(t, o, y) /\ Counts(o, y)' = OwnCounts(t, o, y)'
      BY <1>0, <1>2, <1>3, CountsAreOwn DEF IInv
    <2>2. y # None
      BY EffilGCAssumption
    <2>3. Counts(o, y)' \subseteq Counts(o, y) \ {Meta}
      BY <1>0, <1>1, <1>3, <1>5, <2>1, <2>2 DEF OwnCounts
    <2>4. weak[o][y] \in Int
      BY <1>2 DEF IInv, Types, TypeOK
    <2>5. CASE y = z
      BY <1>2, <1>4, <1>6, <2>3, <2>5, CountsRemoved DEF IInv, Counted1
    <2>6. CASE y # z
      <3>1. weak'[o][y] = weak[o][y]
        BY <1>2, <1>4, <2>6
      <3> QED
        BY <1>2, <1>6, <2>3, <2>4, <3>1, CountsKept DEF IInv, Counted1
    <2> QED
      BY <2>5, <2>6
  <1>9. Refers(o)' \subseteq Refers(o)
    <2>1. \A y \in Objects : weak[o][y] \in Int
      BY <1>2 DEF IInv, Types, TypeOK
    <2>2. \A y \in Objects : weak'[o][y] > 0 => weak[o][y] > 0
      BY <1>2, <1>4, <2>1
    <2> QED
      BY <2>2, References, ReferencesNext
  <1> QED
    BY <1>0, <1>1, <1>2, <1>3, <1>4, <1>5, <1>6, <1>7, <1>8, <1>9, WriterStep

LEMMA AssignsMetaStep ==
  ASSUME IInv, NEW t \in Threads, AssignsMeta(t)
  PROVE  IInv'
  <1>0. PICK o, k, x : o = call[t].o /\ k = call[t].k /\ x = call[t].x
    OBVIOUS
  <1>1. /\ call[t].at = "newmeta" /\ Step(t, "refmeta")
        /\ entries' = [entries EXCEPT ![o][Meta] = x]
        /\ UNCHANGED <<objects, strong, weak, writer, gc, garbage>>
    BY <1>0 DEF AssignsMeta, At
  <1>2. /\ call[t].at \in WriterOps /\ "refmeta" \in WriterOps
        /\ o \in Objects /\ k \in Slots /\ x \in Objects /\ Meta \in Slots
    BY <1>0, <1>1, CallType DEF IInv, WriterOps, Slots
  <1>3. /\ call' \in [Threads -> Calls]
        /\ call'[t].at = "refmeta" /\ call'[t].o = o /\ call'[t].k = k /\ call'[t].x = x
        /\ \A u \in Threads \ {t} : call'[u] = call[u]
    BY <1>0, <1>1, <1>2, Stepped DEF IInv
  <1>4. /\ entries' \in [Objects -> [Slots -> Objects \cup {None}]]
        /\ \A l \in Slots : entries'[o][l] = IF l = Meta THEN x ELSE entries[o][l]
        /\ \A p \in Objects \ {o} : entries'[p] = entries[p]
    BY <1>1, <1>2, EntryPut DEF IInv
  <1>5. Types'
    BY <1>1, <1>3, <1>4 DEF IInv, Types, TypeOK
  <1>6. k = Meta /\ CallSound(t)'
    <2>1. CallSound(t)
      BY DEF IInv, CallsSound
    <2>2. k = Meta
      BY <1>0, <1>1, <2>1 DEF CallSound
    <2> QED
      BY <1>0, <1>1, <1>2, <1>3, <1>4, <2>1, <2>2 DEF CallSound
  <1>7. ASSUME NEW y \in Objects PROVE Counted1(o, y)'
    <2>1. Counts(o, y) = OwnCounts(t, o, y) /\ Counts(o, y)' = OwnCounts(t, o, y)'
      BY <1>0, <1>2, <1>3, CountsAreOwn DEF IInv
    <2>2. Counts(o, y)' \subseteq Counts(o, y)
      <3>1. call[t].at = "newmeta" /\ call[t].k = Meta
        BY <1>0, <1>1, <1>6
      <3>2. call'[t].at = "refmeta" /\ call'[t].k = Meta
        BY <1>3, <1>6
      <3>3. \A l \in Slots \ {Meta} : entries'[o][l] = entries[o][l]
        BY <1>4
      <3> QED
        BY <2>1, <3>1, <3>2, <3>3 DEF OwnCounts
    <2>3. weak'[o][y] = weak[o][y] /\ weak[o][y] \in Int
      BY <1>1, <1>2 DEF IInv, Types, TypeOK
    <2> QED
      BY <1>2, <1>5, <2>2, <2>3, CountsKept DEF IInv, Counted1
  <1>8. Refers(o)' = Refers(o)
    BY <1>1 DEF Refers
  <1> QED
    BY <1>0, <1>1, <1>2, <1>3, <1>4, <1>5, <1>6, <1>7, <1>8, WriterStep

LEMMA ReferencesMetaStep ==
  ASSUME IInv, NEW t \in Threads, ReferencesMeta(t)
  PROVE  IInv'
  <1>0. PICK o, k, x : o = call[t].o /\ k = call[t].k /\ x = call[t].x
    OBVIOUS
  <1>1. /\ call[t].at = "refmeta" /\ AddReference(o, x) /\ Goto(t, Idle)
        /\ writer' = [writer EXCEPT ![o] = None]
        /\ UNCHANGED <<objects, strong, entries, gc, garbage>>
    BY <1>0 DEF ReferencesMeta, Finish, At
  <1>2. call[t].at \in WriterOps /\ o \in Objects /\ k \in Slots /\ x \in Objects
    BY <1>0, <1>1, CallType DEF IInv, WriterOps
  <1>3. /\ call' \in [Threads -> Calls] /\ call'[t].at = "idle"
        /\ \A u \in Threads \ {t} : call'[u] = call[u]
    BY <1>1, Ended DEF IInv
  <1>4. /\ weak' \in [Objects -> [Objects -> 0 .. MaxRefs]]
        /\ \A p, y \in Objects :
              weak'[p][y] = IF p = o /\ y = x THEN weak[p][y] + 1 ELSE weak[p][y]
        /\ \A p \in Objects \ {o} : weak'[p] = weak[p]
    BY <1>1, <1>2, ReferenceAdded DEF IInv
  <1>5. Types' /\ \A p \in Objects \ {o} : writer'[p] = writer[p]
    BY <1>1, <1>3, <1>4 DEF IInv, Types, TypeOK
  <1>6. CallSound(t)' /\ entries[o][k] = x /\ x \in strong[t]
    <2>1. CallSound(t)
      BY DEF IInv, CallsSound
    <2> QED
      BY <1>0, <1>1, <1>3, <2>1 DEF CallSound, WriterOps
  <1>7. ASSUME NEW y \in Objects PROVE Counted1(o, y)'
    <2>1. Counts(o, y) = OwnCounts(t, o, y) /\ Counts(o, y)' = OwnCounts(t, o, y)'
      BY <1>0, <1>2, <1>3, CountsAreOwn DEF IInv, WriterOps
    <2>2. Counts(o, y)' \subseteq Counts(o, y) \cup (IF y = x THEN {k} ELSE {})
      BY <1>0, <1>1, <1>3, <1>6, <2>1 DEF OwnCounts
    <2>3. CASE y = x
      BY <1>2, <1>4, <1>5, <2>2, <2>3, CountsAdded DEF IInv, Counted1
    <2>4. CASE y # x
      <3>1. weak'[o][y] = weak[o][y] /\ weak[o][y] \in Int
        BY <1>2, <1>4, <2>4 DEF IInv, Types, TypeOK
      <3> QED
        BY <1>2, <1>5, <2>2, <2>4, <3>1, CountsKept DEF IInv, Counted1
    <2> QED
      BY <2>3, <2>4
  <1>8. Refers(o)' \subseteq Refers(o) \cup Held
    BY <1>2, <1>4, <1>6, Views, References, ReferencesNext
  <1> QED
    BY <1>0, <1>1, <1>2, <1>3, <1>4, <1>5, <1>6, <1>7, <1>8, WriterStep DEF WriterOps

----------------------------------------------------------------------------
(* A reader of o: what it has found stays referenced until it has a view.  *)
LEMMA FindStep ==
  ASSUME IInv, NEW t \in Threads, NEW o \in Objects, NEW k \in Slots, Find(t, o, k)
  PROVE  IInv'
  <1>0. PICK x : x = entries[o][k]
    OBVIOUS
  <1> DEFINE c == [at |-> "get", o |-> o, x |-> x]
  <1>1. /\ call[t].at = "idle" /\ o \in strong[t] /\ writer[o] = None /\ x # None
        /\ Goto(t, c)
        /\ UNCHANGED <<objects, strong, entries, weak, writer, gc, garbage>>
    BY <1>0 DEF Find, At
  <1>2. x \in Objects
    BY <1>0, <1>1 DEF IInv, Types, TypeOK
  <1>3. c \in Calls /\ c.at = "get" /\ c.o = o /\ c.x = x
    BY <1>2 DEF Calls
  <1> HIDE DEF c
  <1>4. /\ call' \in [Threads -> Calls] /\ call'[t] = c
        /\ \A u \in Threads \ {t} : call'[u] = call[u]
    BY <1>1, <1>3, Went DEF IInv
  <1>5. Types'
    BY <1>1, <1>4 DEF IInv, Types, TypeOK
  <1>6. weak[o][x] > 0
    <2>1. \A u \in Threads : call[u].at \in WriterOps => call[u].o # o
      BY <1>1, EffilGCAssumption DEF IInv, CallsSound, CallSound
    <2>2. call[t].at \notin WriterOps /\ call[t].at \notin {"erase", "refmeta"}
      BY <1>1 DEF WriterOps
    <2>3. k \in Counts(o, x)
      BY <1>0, <2>1, <2>2, CountsOf
    <2> QED
      BY <1>2, <2>3, Positive DEF IInv
  <1>7. CallsSound'
    <2> SUFFICES ASSUME NEW u \in Threads PROVE CallSound(u)'
      BY DEF CallsSound
    <2>1. CASE u = t
      BY <1>1, <1>3, <1>4, <1>6, <2>1 DEF CallSound, WriterOps
    <2>2. CASE u # t
      <3>1. CallSound(u)
        BY DEF IInv, CallsSound
      <3> QED
        BY <1>1, <1>4, <2>2, <3>1, Undisturbed DEF IInv
    <2> QED
      BY <2>1, <2>2
  <1>8. StoredAreCounted'
    <2>1. ASSUME NEW p, NEW y PROVE Counts(p, y)' = Counts(p, y)
      <3>1. \A l : Unreferenced(p, l)' <=> Unreferenced(p, l)
        BY <1>1, <1>3, <1>4 DEF Unreferenced
      <3>2. \A l : Awaited(p, l, y)' <=> Awaited(p, l, y)
        BY <1>1, <1>3, <1>4 DEF Awaited
      <3> QED
        BY <1>1, <3>1, <3>2 DEF Counts
    <2> QED
      BY <1>1, <2>1 DEF IInv, StoredAreCounted
  <1>9. MutatorMoves
    <2>1. Held' = Held /\ \A p : Refers(p)' = Refers(p)
      BY <1>1 DEF Held, Refers
    <2> QED
      BY <1>1, <2>1 DEF MutatorMoves
  <1> QED
    BY <1>5, <1>7, <1>8, <1>9, MutatorKeepsHeap DEF IInv

LEMMA GetExists ==
  ASSUME IInv, NEW t \in Threads, call[t].at = "get"
  PROVE  call[t].x \in objects /\ call[t].x \in Objects
  <1>1. call[t].o \in Objects /\ call[t].x \in Objects
    BY CallType DEF IInv
  <1>2. weak[call[t].o][call[t].x] > 0
    BY DEF IInv, CallsSound, CallSound
  <1>3. call[t].x \in Refers(call[t].o)
    BY <1>1, <1>2 DEF Refers
  <1> QED
    BY <1>1, <1>3 DEF IInv, Heap, Managed

LEMMA GetStep ==
  ASSUME IInv, NEW t \in Threads, Get(t)
  PROVE  IInv'
  <1>0. PICK x : x = call[t].x
    OBVIOUS
  <1>1. /\ call[t].at = "get" /\ LockFree /\ Goto(t, Idle)
        /\ UNCHANGED <<objects, entries, weak, writer, gc, garbage>>
    BY DEF Get, At
  <1>2. x \in objects /\ x \in Objects
    BY <1>0, <1>1, GetExists
  <1>3. /\ call' \in [Threads -> Calls] /\ call'[t].at = "idle"
        /\ \A u \in Threads \ {t} : call'[u] = call[u]
    BY <1>1, Ended DEF IInv
  <1>4. /\ strong' \in [Threads -> SUBSET Objects]
        /\ strong'[t] = strong[t] \cup {x}
        /\ \A u \in Threads \ {t} : strong'[u] = strong[u]
    BY <1>0, <1>2 DEF Get, IInv, Types, TypeOK
  <1>5. Types'
    BY <1>1, <1>3, <1>4 DEF IInv, Types, TypeOK
  <1>6. CallsSound'
    <2> SUFFICES ASSUME NEW u \in Threads PROVE CallSound(u)'
      BY DEF CallsSound
    <2>1. CASE u = t
      BY <1>3, <2>1 DEF CallSound, WriterOps
    <2>2. CASE u # t
      <3>1. CallSound(u)
        BY DEF IInv, CallsSound
      <3> QED
        BY <1>1, <1>3, <1>4, <2>2, <3>1, Undisturbed DEF IInv
    <2> QED
      BY <2>1, <2>2
  <1>7. StoredAreCounted'
    <2>1. ASSUME NEW p, NEW y PROVE Counts(p, y)' = Counts(p, y)
      <3>1. \A l : Unreferenced(p, l)' <=> Unreferenced(p, l)
        BY <1>1, <1>3 DEF Unreferenced
      <3>2. \A l : Awaited(p, l, y)' <=> Awaited(p, l, y)
        BY <1>1, <1>3 DEF Awaited
      <3> QED
        BY <1>1, <3>1, <3>2 DEF Counts
    <2> QED
      BY <1>1, <2>1 DEF IInv, StoredAreCounted
  <1>8. MutatorMoves
    <2>1. \A p : Refers(p)' = Refers(p)
      BY <1>1 DEF Refers
    <2>2. Held \subseteq objects
      BY DEF IInv, Heap, Managed, HeldIsManaged
    <2>3. Held' \subseteq objects'
      BY <1>1, <1>2, <1>4, <2>2, Views, ViewsNext
    <2> QED
      BY <1>1, <2>1, <2>3 DEF MutatorMoves
  <1> QED
    BY <1>5, <1>6, <1>7, <1>8, MutatorKeepsHeap DEF IInv

----------------------------------------------------------------------------
(* The invariant *)
LEMMA InvariantInit == Init => IInv
  <1> SUFFICES ASSUME Init PROVE IInv
    OBVIOUS
  <1>1. Types
    BY EffilGCAssumption DEF Init, Types, TypeOK, Calls
  <1>2. \A t \in Threads : call[t].at = "idle" /\ strong[t] = {}
    BY DEF Init, Idle
  <1>3. CallsSound
    BY <1>2 DEF CallsSound, CallSound, WriterOps
  <1>4. StoredAreCounted
    <2> SUFFICES ASSUME NEW o \in Objects, NEW x \in Objects
                 PROVE  IsFiniteSet(Counts(o, x)) /\ Cardinality(Counts(o, x)) <= weak[o][x]
      BY DEF StoredAreCounted
    <2>1. \A k \in Slots : entries[o][k] # x
      BY EffilGCAssumption DEF Init
    <2>2. Counts(o, x) = {}
      BY <1>2, <2>1 DEF Counts, Awaited
    <2>3. weak[o][x] = 0
      BY DEF Init
    <2>4. IsFiniteSet(Counts(o, x)) /\ Cardinality(Counts(o, x)) = 0
      BY <2>2, FS_EmptySet
    <2> QED
      BY <2>3, <2>4
  <1>5. Held = {} /\ \A o \in Objects : Refers(o) = {}
    BY <1>2 DEF Held, Refers, Init
  <1>6. Heap
    BY <1>5 DEF Heap, Managed, HeldIsManaged, Colored, Hopeless, LockFree, Init
  <1> QED
    BY <1>1, <1>3, <1>4, <1>6 DEF IInv

LEMMA InvariantStep == IInv /\ [Next]_vars => IInv'
  <1> SUFFICES ASSUME IInv, [Next]_vars PROVE IInv'
    OBVIOUS
  <1>1. ASSUME NEW t \in Threads, NEW o \in Objects, Create(t, o) \/ Drop(t, o) PROVE IInv'
    BY <1>1, CreateStep, DropStep
  <1>2. ASSUME NEW t \in Threads, NEW u \in Threads, NEW o \in Objects, RunThread(t, u, o)
        PROVE  IInv'
    BY <1>2, RunThreadStep
  <1>3. ASSUME NEW t \in Threads, NEW o \in Objects, NEW x \in Objects, NEW k \in Keys,
               BeginSet(t, o, k, x)
        PROVE  IInv'
    BY <1>3, BeginStep
  <1>4. ASSUME NEW t \in Threads, NEW o \in Objects, NEW k \in Slots,
               BeginUnset(t, o, k) \/ BeginPop(t, o, k)
        PROVE  IInv'
    BY <1>4, BeginStep
  <1>5. ASSUME NEW t \in Threads, NEW o \in Objects, NEW x \in Objects, BeginSetMeta(t, o, x)
        PROVE  IInv'
    BY <1>5, BeginStep
  <1>6. ASSUME NEW t \in Threads, NEW o \in Objects, NEW k \in Slots, Find(t, o, k) PROVE IInv'
    BY <1>6, FindStep
  <1>7. ASSUME NEW t \in Threads,
               SetReferences(t) \/ SetReleases(t) \/ SetAssigns(t) \/ PushThrows(t)
        PROVE  IInv'
    BY <1>7, SetReferencesStep, SetReleasesStep, SetAssignsStep, PushThrowsStep
  <1>8. ASSUME NEW t \in Threads, Hold(t) \/ RemovesReference(t) \/ Erases(t) PROVE IInv'
    BY <1>8, HoldStep, RemovesReferenceStep, ErasesStep
  <1>9. ASSUME NEW t \in Threads, RemovesOldMeta(t) \/ AssignsMeta(t) \/ ReferencesMeta(t)
        PROVE  IInv'
    BY <1>9, RemovesOldMetaStep, AssignsMetaStep, ReferencesMetaStep
  <1>10. ASSUME NEW t \in Threads, Get(t) PROVE IInv'
    BY <1>10, GetStep
  <1>11. CASE BeginCollect \/ Sweep
    BY <1>11, BeginCollectStep, SweepStep
  <1>12. ASSUME NEW o \in Objects, Scan(o) \/ Mark(o) PROVE IInv'
    BY <1>12, ScanStep, MarkStep
  <1>13. CASE UNCHANGED vars
    <2>1. Types' /\ CallsSound' /\ StoredAreCounted'
      BY <1>13, CallsKept DEF vars, IInv, Types, TypeOK
    <2>2. MutatorMoves
      <3>1. Held' = Held /\ \A p : Refers(p)' = Refers(p)
        BY <1>13 DEF vars, Held, Refers
      <3> QED
        BY <1>13, <3>1 DEF vars, MutatorMoves
    <2> QED
      BY <2>1, <2>2, MutatorKeepsHeap DEF IInv
  <1> QED
    BY <1>1, <1>2, <1>3, <1>4, <1>5, <1>6, <1>7, <1>8, <1>9, <1>10, <1>11, <1>12, <1>13 DEF Next

(* The invariant the theorems rest on holds in every state. *)
THEOREM Invariant == Spec => []IInv
  BY InvariantInit, InvariantStep, PTL DEF Spec

(* The members of the objects keep their types: a reference count is never *)
(* taken below zero.                                                       *)
THEOREM TypeCorrect == Spec => []TypeOK
  <1>1. IInv => TypeOK
    BY DEF IInv, Types
  <1> QED
    BY <1>1, Invariant, PTL

(* No view outlives the collector's copy of its object, for any number of  *)
(* threads that pass views on, drop them and make new ones while collect() *)
(* reads the counts one by one.                                            *)
THEOREM HeldAlwaysManaged == Spec => []HeldIsManaged
  <1>1. IInv => HeldIsManaged
    BY DEF IInv, Heap, Managed
  <1> QED
    BY <1>1, Invariant, PTL

(* The three assertions of garbage-collector and gc-data hold in every     *)
(* interleaving: what is referred to exists, what a thread has found in a  *)
(* container is there to be got, what is removed has been added.           *)
THEOREM AssertsAlwaysHold == Spec => []AssertsHold
  <1>1. IInv => AssertsHold
    <2> SUFFICES ASSUME IInv PROVE AssertsHold
      OBVIOUS
    <2>1. RefsExist
      BY DEF RefsExist, IInv, Types, TypeOK, Heap, Managed
    <2>2. GetFinds
      BY GetExists, EntryReferenced DEF GetFinds
    <2>3. RemoveFinds
      BY EntryReferenced, OldMetaReferenced DEF RemoveFinds, At
    <2> QED
      BY <2>1, <2>2, <2>3 DEF AssertsHold
  <1> QED
    BY <1>1, Invariant, PTL

(* collect() is complete: what no thread and no object in use could reach  *)
(* when it began is gone when it ends, whatever threads store meanwhile.   *)
THEOREM GarbageAlwaysGoes == Spec => []GarbageGoes
  <1>1. IInv => GarbageGoes
    BY DEF IInv, Heap, Hopeless, GarbageGoes
  <1> QED
    BY <1>1, Invariant, PTL

============================================================================
