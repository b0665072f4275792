------------------------------ MODULE EffilGC ------------------------------
(***************************************************************************)
(* The garbage collector of effil's shared objects and what the objects do *)
(* with references (cpp/script/modules/effil/: garbage-collector.h, .cpp,  *)
(* gc-data.cpp, gc-object.h, shared-table.cpp, channel.cpp,                *)
(* stored-object.cpp).                                                     *)
(*                                                                         *)
(* An object lives in objects_ of the collector.  A Lua state, or a call   *)
(* in progress, that uses it has a copy of its view (a strong reference,   *)
(* counted by instances()); a container that holds it has only its handle  *)
(* (a weak reference, in weakRefs_).  A strong reference is made from a    *)
(* weak one by GC::get(), under the lock the collector holds too;          *)
(* containers are changed under their own locks, which it does not take.   *)
(* collect() reads the counts one by one and then follows the weak         *)
(* references, while other threads go on.                                  *)
(*                                                                         *)
(* A container is a table, with the slots Keys and Meta, or a channel,     *)
(* whose slots are its places.  What is no shared object is left out.      *)
(***************************************************************************)
EXTENDS Integers, FiniteSets

CONSTANTS
  Tables, Channels,  \* addresses of shared tables and of channels
  Keys,              \* keys of a table, places of a channel
  Meta,              \* the metatable of a table
  Threads,
  MaxRefs,           \* bound: times one object occurs in weakRefs_ of another
  MaxHandles,        \* bound: handles in weakRefs_ of a channel
  None

Objects == Tables \cup Channels
Slots   == Keys \cup {Meta}

ASSUME EffilGCAssumption ==
  /\ Tables \cap Channels = {}
  /\ Meta \notin Keys
  /\ None \notin Objects \cup Threads
  /\ MaxRefs \in Nat \ {0} /\ MaxHandles \in Nat

VARIABLES
  objects,  (* the keys of objects_                                         *)
  strong,   (* per thread the objects it has views of                       *)
  entries,  (* per object and slot the object stored there                  *)
  weak,     (* weakRefs_ of each object, a multiset                         *)
  writer,   (* the holder of an object's lock                               *)
  call,     (* per thread the call it is in and where                       *)
  gc,       (* collect(): phase, objects to look at, grey, black            *)
  garbage   (* history: what was unreachable when collect() began           *)

vars  == <<objects, strong, entries, weak, writer, call, gc, garbage>>

Idle == [at |-> "idle"]
At(t, where) == call[t].at = where
Goto(t, c)   == call' = [call EXCEPT ![t] = c]
Step(t, where) == Goto(t, [call[t] EXCEPT !.at = where])

(* SharedLock: readers keep writers out; the mutant's do not. *)
NoReaders(o) == {}
Readers(o) == {t \in Threads : At(t, "get") /\ call[t].o = o}
Unlocked(o) == writer[o] = None /\ Readers(o) = {}
LockFree == gc.phase = "idle"        \* lock_ of the collector

Refers(o) == {x \in Objects : weak[o][x] > 0}

(* The mutants: weakRefs_ is a set and not a multiset; erase() by value,   *)
(* which erases every occurrence.                                          *)
AddReferenceOnce(o, x) == weak' = [weak EXCEPT ![o][x] = 1]

AddReference(o, x) ==
  /\ weak[o][x] < MaxRefs
  /\ weak' = [weak EXCEPT ![o][x] = @ + 1]
RemoveReference(o, x) == weak' = [weak EXCEPT ![o][x] = @ - 1]

Held == UNION {strong[t] : t \in Threads}

(* What can be reached from S: the least set that holds S and what its     *)
(* members refer to.                                                       *)
Closed(S)    == \A o \in S : Refers(o) \subseteq S
Reachable(S) == {x \in Objects : \A C \in SUBSET Objects : S \subseteq C /\ Closed(C) => x \in C}

Init ==
  /\ objects = {}
  /\ strong = [t \in Threads |-> {}]
  /\ entries = [o \in Objects |-> [k \in Slots |-> None]]
  /\ weak = [o \in Objects |-> [x \in Objects |-> 0]]
  /\ writer = [o \in Objects |-> None]
  /\ call = [t \in Threads |-> Idle]
  /\ gc = [phase |-> "idle", todo |-> {}, grey |-> {}, black |-> {}]
  /\ garbage = {}

----------------------------------------------------------------------------
(* GC::create(), and a view that Lua drops between two calls. *)
Create(t, o) ==
  /\ At(t, "idle") /\ LockFree
  /\ o \notin objects
  /\ objects' = objects \cup {o}
  /\ strong' = [strong EXCEPT ![t] = @ \cup {o}]
  /\ UNCHANGED <<entries, weak, writer, call, gc, garbage>>

Drop(t, o) ==
  /\ At(t, "idle")
  /\ o \in strong[t]
  /\ strong' = [strong EXCEPT ![t] = @ \ {o}]
  /\ UNCHANGED <<objects, entries, weak, writer, call, gc, garbage>>

(* t starts a thread u with o as argument, which the Thread object refers  *)
(* to until u has a view of its own.                                       *)
RunThread(t, u, o) ==
  /\ At(t, "idle") /\ o \in strong[t]
  /\ At(u, "idle") /\ strong[u] = {}
  /\ strong' = [strong EXCEPT ![u] = {o}]
  /\ UNCHANGED <<objects, entries, weak, writer, call, gc, garbage>>

(* A call of t that changes o, under the lock of o. *)
Lock(t, o, c) ==
  /\ At(t, "idle") /\ o \in strong[t]
  /\ Unlocked(o)
  /\ writer' = [writer EXCEPT ![o] = t]
  /\ Goto(t, c)
  /\ UNCHANGED <<objects, strong, entries, weak, gc, garbage>>

Finish(t) ==
  /\ writer' = [writer EXCEPT ![call[t].o] = None]
  /\ Goto(t, Idle)

(* The handles in weakRefs_, each as often as it occurs. *)
Handles(o) == {h \in Objects \X (1 .. MaxRefs) : h[2] <= weak[o][h[1]]}

(* SharedTable::set() and Channel::push() of x; a channel needs a place. *)
BeginSet(t, o, k, x) ==
  /\ x \in strong[t]
  /\ o \in Channels => entries[o][k] = None /\ Cardinality(Handles(o)) < MaxHandles
  /\ Lock(t, o, [at |-> "add", o |-> o, k |-> k, x |-> x])

SetReferences(t) ==
  /\ At(t, "add")
  /\ AddReference(call[t].o, call[t].x)
  /\ Step(t, "release")
  /\ UNCHANGED <<objects, strong, entries, writer, gc, garbage>>

(* releaseStrongReference(): the script may have a view of its own, or x   *)
(* has been made from a plain Lua table for this call.                     *)
Release(t, to) ==
  /\ strong' \in {strong, [strong EXCEPT ![t] = @ \ ({call[t].x} \ {call[t].o})]}
  /\ Step(t, to)
  /\ UNCHANGED <<objects, entries, weak, writer, gc, garbage>>

ReleaseEarly(t) ==             \* mutant: released before it is referenced
  \/ At(t, "add") /\ Release(t, "add")
  \/ At(t, "release") /\ Release(t, "assign")
SetReleases(t) == At(t, "release") /\ Release(t, "assign")

(* An entry that was there is overwritten, its reference stays. *)
SetAssigns(t) ==
  /\ At(t, "assign")
  /\ entries' = [entries EXCEPT ![call[t].o][call[t].k] = call[t].x]
  /\ Finish(t)
  /\ UNCHANGED <<objects, strong, weak, gc, garbage>>

(* push() throws at a later argument: the references of those before stay, *)
(* although the message is never put into the channel.                     *)
PushThrows(t) ==
  /\ At(t, "assign") /\ call[t].o \in Channels
  /\ Finish(t)
  /\ UNCHANGED <<objects, strong, entries, weak, gc, garbage>>

----------------------------------------------------------------------------
(* rawSet() with nil, and setMetatable() without a metatable. *)
BeginUnset(t, o, k) ==
  /\ o \in Tables
  /\ entries[o][k] # None
  /\ Lock(t, o, [at |-> "remove", o |-> o, k |-> k, x |-> entries[o][k]])

(* Channel::pop(): a strong reference first. *)
BeginPop(t, o, k) ==
  /\ o \in Channels /\ k \in Keys
  /\ entries[o][k] # None
  /\ Lock(t, o, [at |-> "hold", o |-> o, k |-> k, x |-> entries[o][k]])

Hold(t) ==
  /\ At(t, "hold") /\ LockFree
  /\ strong' = [strong EXCEPT ![t] = @ \cup {call[t].x}]
  /\ Step(t, "remove")
  /\ UNCHANGED <<objects, entries, weak, writer, gc, garbage>>

RemovesReference(t) ==
  /\ At(t, "remove")
  /\ RemoveReference(call[t].o, call[t].x)
  /\ Step(t, "erase")
  /\ UNCHANGED <<objects, strong, entries, writer, gc, garbage>>

Erases(t) ==
  /\ At(t, "erase")
  /\ entries' = [entries EXCEPT ![call[t].o][call[t].k] = None]
  /\ Finish(t)
  /\ UNCHANGED <<objects, strong, weak, gc, garbage>>

(* setMetatable(): the old one is removed, the new one put in and then     *)
(* referenced; the caller has a view of it all the time.                   *)
BeginSetMeta(t, o, x) ==
  /\ o \in Tables /\ x \in strong[t] \cap Tables
  /\ Lock(t, o, [at |-> IF entries[o][Meta] = None THEN "newmeta" ELSE "oldmeta",
                 o |-> o, k |-> Meta, x |-> x])

RemovesOldMeta(t) ==
  /\ At(t, "oldmeta")
  /\ RemoveReference(call[t].o, entries[call[t].o][Meta])
  /\ entries' = [entries EXCEPT ![call[t].o][Meta] = None]
  /\ Step(t, "newmeta")
  /\ UNCHANGED <<objects, strong, writer, gc, garbage>>

AssignsMeta(t) ==
  /\ At(t, "newmeta")
  /\ entries' = [entries EXCEPT ![call[t].o][Meta] = call[t].x]
  /\ Step(t, "refmeta")
  /\ UNCHANGED <<objects, strong, weak, writer, gc, garbage>>

ReferencesMeta(t) ==
  /\ At(t, "refmeta")
  /\ AddReference(call[t].o, call[t].x)
  /\ Finish(t)
  /\ UNCHANGED <<objects, strong, entries, gc, garbage>>

(* get(), and whatever looks at the metatable: the shared lock is kept     *)
(* until GC::get() has made a view.                                        *)
Find(t, o, k) ==
  /\ At(t, "idle") /\ o \in strong[t] \cap Tables
  /\ writer[o] = None
  /\ entries[o][k] # None
  /\ Goto(t, [at |-> "get", o |-> o, x |-> entries[o][k]])
  /\ UNCHANGED <<objects, strong, entries, weak, writer, gc, garbage>>

GetUnlocked(t) ==              \* mutant: lock_ is not taken
  /\ At(t, "get")
  /\ strong' = [strong EXCEPT ![t] = @ \cup {call[t].x}]
  /\ Goto(t, Idle)
  /\ UNCHANGED <<objects, entries, weak, writer, gc, garbage>>

Get(t) ==
  /\ At(t, "get") /\ LockFree
  /\ strong' = [strong EXCEPT ![t] = @ \cup {call[t].x}]
  /\ Goto(t, Idle)
  /\ UNCHANGED <<objects, entries, weak, writer, gc, garbage>>

----------------------------------------------------------------------------
(* collect() *)
BeginCollect ==
  /\ LockFree
  /\ gc' = [phase |-> "scan", todo |-> objects, grey |-> {}, black |-> {}]
  /\ garbage' = objects \ Reachable(Held)
  /\ UNCHANGED <<objects, strong, entries, weak, writer, call>>

CountedAll(o) == TRUE          \* mutant: instances() >= 1
Counted(o) == o \in Held       \* instances() > 1

Scan(o) ==
  /\ gc.phase = "scan" /\ o \in gc.todo
  /\ gc' = [gc EXCEPT !.todo = @ \ {o},
                      !.grey = IF Counted(o) THEN @ \cup {o} ELSE @]
  /\ UNCHANGED <<objects, strong, entries, weak, writer, call, garbage>>

Mark(o) ==
  /\ gc.phase = "scan" /\ gc.todo = {}
  /\ o \in gc.grey
  /\ gc' = [gc EXCEPT !.black = @ \cup {o},
                      !.grey = (@ \cup (Refers(o) \ gc.black)) \ {o}]
  /\ UNCHANGED <<objects, strong, entries, weak, writer, call, garbage>>

Sweep ==
  /\ gc.phase = "scan" /\ gc.todo = {} /\ gc.grey = {}
  /\ objects' = gc.black
  /\ entries' = [o \in Objects |-> IF o \in gc.black THEN entries[o]
                                   ELSE [k \in Slots |-> None]]
  /\ weak' = [o \in Objects |-> IF o \in gc.black THEN weak[o]
                                ELSE [x \in Objects |-> 0]]
  /\ gc' = [phase |-> "idle", todo |-> {}, grey |-> {}, black |-> {}]
  /\ garbage' = garbage \cap objects'
  /\ UNCHANGED <<strong, writer, call>>

Next ==
  \/ \E t \in Threads, o \in Objects : Create(t, o) \/ Drop(t, o)
  \/ \E t, u \in Threads, o \in Objects : RunThread(t, u, o)
  \/ \E t \in Threads, o, x \in Objects, k \in Keys : BeginSet(t, o, k, x)
  \/ \E t \in Threads, o \in Objects, k \in Slots : BeginUnset(t, o, k) \/ BeginPop(t, o, k)
  \/ \E t \in Threads, o, x \in Objects : BeginSetMeta(t, o, x)
  \/ \E t \in Threads, o \in Objects, k \in Slots : Find(t, o, k)
  \/ \E t \in Threads :
       \/ SetReferences(t) \/ SetReleases(t) \/ SetAssigns(t) \/ PushThrows(t)
       \/ Hold(t) \/ RemovesReference(t) \/ Erases(t)
       \/ RemovesOldMeta(t) \/ AssignsMeta(t) \/ ReferencesMeta(t)
       \/ Get(t)
  \/ BeginCollect
  \/ \E o \in Objects : Scan(o) \/ Mark(o)
  \/ Sweep

Spec == Init /\ [][Next]_vars

----------------------------------------------------------------------------
(* Every variable keeps the shape of the member it stands for. *)
TypeOK ==
  /\ objects \subseteq Objects
  /\ strong \in [Threads -> SUBSET Objects]
  /\ entries \in [Objects -> [Slots -> Objects \cup {None}]]
  /\ weak \in [Objects -> [Objects -> 0 .. MaxRefs]]
  /\ writer \in [Objects -> Threads \cup {None}]
  /\ gc.phase \in {"idle", "scan"}
  /\ gc.todo \subseteq Objects /\ gc.grey \subseteq Objects /\ gc.black \subseteq Objects

(* "assert(objects_.count(refHandle))" (garbage-collector.cpp:40): what an *)
(* object refers to exists, although references are added and removed and  *)
(* views come and go while the collector decides what to keep.             *)
RefsExist == \A o \in objects : Refers(o) \subseteq objects

(* "assert(it != objects_.end())" (garbage-collector.h:40): the object a   *)
(* thread has found in a container is there when GC::get() looks for it.   *)
GetFinds ==
  \A t \in Threads : call[t].at \in {"get", "hold"} => call[t].x \in objects

(* "assert(hit != std::end(weakRefs_))" (gc-data.cpp:30): an object that   *)
(* is stored several times in a container is referenced as often.          *)
RemoveFinds ==
  \A t \in Threads :
    /\ At(t, "remove")  => weak[call[t].o][call[t].x] > 0
    /\ At(t, "oldmeta") => weak[call[t].o][entries[call[t].o][Meta]] > 0

(* The three assertions of the source hold in every interleaving.          *)
AssertsHold == RefsExist /\ GetFinds /\ RemoveFinds

(* No thread keeps a view of an object the collector has let go: it would  *)
(* live on outside objects_, and its handle could not be stored any more.  *)
HeldIsManaged == Held \subseteq objects

(* What nobody could reach when collect() began is gone when it ends: new  *)
(* references do not bring it back.                                        *)
GarbageGoes == LockFree => garbage = {}
============================================================================
