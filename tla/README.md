# MonetLoader in TLA+

MonetLoader is a library that is loaded into the Android builds of GTA San
Andreas and SA-MP and runs Lua scripts inside the game. This directory holds
TLA+ models of the parts of it that decide *when* things happen: which script or
Lua thread runs, what lives and what has been freed, which entity of the game is
which player, who may touch a shared table. TLC checks the models on small
instances; TLAPS proves what they check, but for liveness, for every value of the
constants.

`PROJECT.json` lists, per definition, the lines of `src/` it models, the runs,
the mutants that show that each property can fail, the hazards and the theorems.

## 1. The system

### 1.1 Who runs what

Nearly everything runs on the game's main thread, inside three hooks of
`src/cpp/main.cpp`:

    h_cgame_process        (184-243)  touch events, audio, rakhook::process,
                                      netinfo::process, then the game's own frame
    h_cthescripts_process             the first time script_manager::init(),
                                      in every frame script_manager::run()
    hooks of CWorld::Add / Remove,    netinfo::add / remove, netinfo::receive,
      of RakNet, of the touch input   events for the scripts

There are no locks between these: they interleave because each of them can call
Lua, and Lua can call back into any of them. A handler can import a script whose
main chunk prints a line; the print runs the message handlers of all scripts;
one of them fails, is destroyed, and its destruction runs handlers again. The
order nobody wrote a test for is therefore a *nesting*, and the models keep the
C++ call stack wherever it matters.

Real threads exist in two places: `effil` (Lua states on threads of their own,
sharing tables under a hand-written spin lock), `rakhook`, which accepts sends
from any thread and queues them for the main one, and Android's input thread,
which queues touches for it.

### 1.2 Inventory

| Component | State | Operations | Used by / uses | Hard behaviour | Correct when |
|---|---|---|---|---|---|
| Scheduler `script/scheduler.*` | map of tasks by thread id, stack of running threads, next id | start, yield, wait, terminate, set_work_in_pause, run | one per script; run by the script manager once a frame | the map changes under the iterator of run(); nested first slices; failing slices cut a pass short and end the script | each due thread gets one slice per pass, none runs twice, a dead one never |
| Script manager `script/script_manager.*`, `script.*` | instances, paths, commands, queued actions, flags dead / dying | init, run, load, one_off_load, import, destroy_script, start_main, events, commands, reload, shutdown | logger, scheduler, Lua; called by every hook | re-entrance through Lua at any call; deferred actions; one failing while another unloads | nothing that is in use is freed, everything dead is freed, a reload ends in a new instance |
| Lua threads `script/thread.*` | id of the coroutine, pause flag | run, terminate, set_work_in_pause, status | scheduler | the id is known only after the first slice, and outlives the coroutine | one coroutine per handle, its own; dead is final |
| Netinfo `game/netinfo.*` | players, counters, id/entity maps, expectation, dialogs, score table | receive, send, add, remove, process, reset | RakNet hook, CWorld hooks, Lua API | entity creation is recognised by order only; addresses and ids are used again | roster and maps agree with server and game |
| RakNet hook `game/rakhook.*` | send queues, emulation queue, mutex | send, process, receive, emulate | netinfo, Lua API, other threads | ordering between threads, a non-recursive lock around Lua | order of sends kept, no message lost |
| effil spin mutex `effil/spin-mutex.h` | lock_, counter_ | lock, unlock, lock_shared, unlock_shared | shared tables, collector | interleaving and memory order | readers-writer exclusion |
| effil tables, collector `effil/shared-table.*`, `gc-*`, `garbage-collector.*` | objects, strong and weak references | set, get, call, collect | all effil threads | collection against concurrent use | reachable objects stay |
| effil threads `effil/thread*`, `notifier.h` | status, command, three notifiers | start, pause, resume, cancel, wait | Lua states | commands that cross, timeouts against answers, a cancellation that is caught, two locks | a paused thread is paused, every command is answered, an end is final |
| effil channels `effil/channel.*` | bounded queue of stored values | push, pop, size | effil threads, collector | a wait that is interrupted; references handed over | what is in the queue stays alive |
| Frame hooks, touch `main.cpp`, `gui/touch_handler.*` | event queue, captured pointers per handler, ImGui's mouse | submit, process_touch, handle, end_frame | overlay, mimgui renderers, onTouch handlers, the game | handlers come and go with fingers down; a clean-up carried out late | one taker per gesture, the mouse is down while a finger is |
| Logger `logger.*` | none that matters | debug, info ... | fires script events | every log line can run Lua | - |
| Exports `script/script.*` | conversion cache, functions by script | import, call | script manager | functions of an unloaded script | no call into a closed state |
| Hook engine, pattern scan `hook/*` | code patches | place, remove, scan | Lua API | match at the end of a region | first match found |
| GUI, bass, JSON, opcodes, bindings, utils | - | wrappers | Lua API | none | - |

### 1.3 What is hard to test here

The list, line by line, is `hazards` in `PROJECT.json`. Its centre: iterators and
references held across calls of Lua; instances freed while a frame of theirs is
on the stack; queued actions performed in an order that drops one of them;
recognition of entities by the order of messages; the two-atomic handshake of the
spin mutex; the commands of several threads to one effil thread; touches whose
effects are carried out at the end of a frame.

## 2. The modules

| Module | Models | Status |
|---|---|---|
| `Scheduler` | `lua::scheduler` | complete |
| `LuaThreads` | `lua::thread` on top of `Scheduler` | complete |
| `LuaThreadsProofs` | theorems about the scheduler and about the composition | types, eight safety properties, refinement |
| `ScriptManager` | `lua::script_manager` and the `script` objects | life cycle; no exports |
| `ScriptManagerProofs` | theorems about it | type, five safety properties |
| `NetInfo` | `game::netinfo` | roster and entity maps |
| `NetInfoProofs` | theorems about it | type, roster, counters, max_id, entity maps |
| `SpinMutex` | `effil::SpinMutex` | complete |
| `RWLock` | what a readers-writer lock promises | abstract |
| `SpinMutexProofs` | theorems about `SpinMutex` | safety and refinement |
| `RakHook` | the sending half of `rakhook` | complete for sends |
| `RakHookProofs` | theorems about it | type, lock, no loss, order of a thread, order across threads |
| `EffilGC`, `MCEffilGC` | effil's collector, references of tables and channels | references only |
| `EffilGCProofs` | theorems about it | type, three safety properties |
| `EffilThread` | an effil thread, its handle and the threads that control it | commands and ends |
| `EffilThreadProofs` | theorems about it | type, pause, locks, end |
| `TouchHandler`, `MCTouchHandler` | touch queue, touch handlers, renderers | complete for touches |
| `TouchHandlerProofs` | theorems about it | type, whose gesture a touch is, the mouse |

### 2.1 Scheduler

A Lua thread is a coroutine whose slice makes any sequence of calls of the
scheduler. `tasks` is `_tasks` (a task is reduced to the instant at which
`is_complete()` becomes true; `infinite_task` is an instant the clock never
reaches), `stack` is `_thread_stack`, `status` the state `sol::coroutine`
reports. `Start` is `start()`; its slice is nested in the creator's, so the stack
grows. `Wait` and `NestedWait` are `yield()`: the second happens in a coroutine
the script made itself inside the thread, where Lua yields to the script and not
to the scheduler. `Return`, `BareYield` and `Fail` end a slice. `BeginPass`,
`ReapDead`, `Resume`, `Skip` and `EndPass` are the loop of `run()`, one iteration
per step. The loop advances its iterator *before* it resumes a thread: `iter`
therefore stands on the next entry while Lua runs, and `Terminate` may erase that
entry. `UseErased` is the undefined behaviour that follows: the model marks the
state `crashed` and promises nothing afterwards.

A slice that fails in `run()` ends the pass with an error, and the script manager
then destroys the script (script_manager.cpp:313-317); only while it reloads does
it look away (:300). `erred` says that an error has reached a caller of the
scheduler: from then on there may be another pass, but nothing says so. An error
of a first slice goes to the caller of `start()`, which may be the script manager
or Lua, which may catch it; so it may or may not count as one.

`resumed` and `owed` are history: what this pass resumed, and which threads were
due when it began and have neither run nor been terminated.

`LuaThreads` EXTENDS `Scheduler` and composes it with the handles scripts hold:
every call of a handle is the scheduler's action together with what the handle
does (`Run` = `Start`, `SliceLeaves` = `EndSlice` and the id that `run()` learns,
`SetFlag`, `HandleTerminate`). `opening` are the coroutines whose first slice has
not left, during which the handle still holds the id of the run before; `owner`
is history. Two handles and one coroutine of the script itself are in play.

### 2.2 ScriptManager

Data is small sets of instances (by id), paths, command names. Control is the
call stack `ctl`: each element is one function of the C++ code at one place, with
its local variables (`Destroy(s, how)`, `Each(todo)` - a loop over `_scripts` with
the entries still to visit, `Queue(i)` - `run_queued_actions` at index i). An
action takes the innermost element and replaces it by the calls the code makes
there, followed by what the function does when they return. Lua code (`Lua(s)`)
returns, fails, or calls: import, print (which runs the message handlers),
unload, reload, load, reload_scripts, register / unregister / send a command.

Where a script is created while loops stand in `_scripts`, `try_emplace` may
rehash the table; a loop then goes on with any of the scripts (`Rehash`). Visiting
a script that is gone is left out: the entry is removed only by
`perform_real_unload`, which runs with no loop on the stack - that this is so is
the property `NoFreedInstanceInUse`.

`Libraries` are the files that `load_all()` does not see, which only an import or a
load from Lua starts. `start_main()` keeps the id of a main function that has
returned from its first slice and none of one that failed, so a later
`start_main_all()` can enter the latter again; `begun` is history, the instances
whose main function has ever been entered, and tells the two apart from one that
was never entered. `MainStartsOnce` says of every entering of a main function that
was begun before that its instance is dead and that it has failed.

Event handlers that do nothing observable are not steps: `EachDone` may leave out
any of the remaining scripts, which is the same as running handlers without
effect. Nothing is claimed that depends on a handler being called.

### 2.3 NetInfo

`found` and `idOf` are the three pairs of maps; `players` the keys of
`remote_players`; `ghosts` those whose record was made by `operator[]` and has no
id; `expect` the fields `_current_entity_*`. Each RPC is one action and ends in
what the game then has to do (`job`), whose steps call `add()` and `remove()`
through the CWorld hooks. `Ambient` are entities of the game's own. The handler
of a quit calls `player_stream_out(id)` with the *message's* number
(netinfo.cpp:415); `ServerQuit` does so too.

Environment, modelled from how the code uses it and outside `src/`: the server
announces a join before anything about that player, gives an id to one player at
a time and does not show a thing twice without removing it; the game acts on a
message before it asks for the next one; entities of its own appear only when it
has asked for messages and there was none. RPCs that Lua emulates are not
modelled: with them nothing about the roster holds.

### 2.4 SpinMutex and RWLock

A step is one access to `lock_` or `counter_`. `lock()` is
`CallLock, Exchange, Drained`; `lock_shared()` is `CallLockShared, SeeFree, Join,
Check` with `BackOff` back to the start. `reordered`, chosen at the start and
kept, adds what the `acquire` orderings of the source permit on arm64 (one of the
two ABIs the library is built for): the read of the other atomic may be satisfied
before the own write is visible. `RWLock` is the abstract lock: sets of writers and readers that enter
only when allowed. Threads do not take a mutex recursively (see the hazard on
`SharedTable::luaCall`, which does).

### 2.5 RakHook

`ctl` is again the call stack of the main thread: the hook, the handlers of a
message, the call of the original function (`Put`), `process()` and the position
of its loop. `CallSend` and `Enqueue` are the two halves of a hook on another
thread: the call, and the push under `main_thread_mutex`. `MainSend` is a send
through the hooks, `MainDirect` one that bypasses the handlers; both may come
from the game, from a script or from a handler of another message.
`ahead` and `nested` are history: what was queued when a message of the main
thread was sent, and whether process() was running then, on which the order the
code promises depends.

The main thread's id is taken as known (see the hazard on main.cpp:190), and an
empty bit stream, which goes straight through on any thread, is left out.

The receiving half is not modelled: each call of it is straight-line code on the
main thread that keeps nothing between calls but a FIFO of emulated packets. What
can go wrong in it is who frees a packet, which is visible in one function.

### 2.6 EffilGC

`objects` are the keys of `objects_`, `strong` the views Lua states and calls in
progress hold (what `instances()` counts), `entries` and `weak` what an object
stores and its `weakRefs_`. Each call that changes a container is several steps
under that container's lock (`writer`), in the order of the source: reference,
release, assign (`set`, `push`); remove, erase (`rawSet` with nil, `setMetatable`
with nil); hold, remove, pop (`pop`); and for `setMetatable` with a table remove,
assign, reference. A `push` that throws at a later argument leaves the references
of the earlier ones in the channel (`PushThrows`; `MaxHandles` bounds them together
with those of what is stored). `Find` and `Get` are a lookup, which keeps the shared lock until `GC::get()` has made a view.
`Scan`, `Mark` and `Sweep` are `collect()`, which holds the collector's lock and
none of the containers'. A thread gets its first object by creating it or as an
argument (`RunThread`). Of an entry only the value is kept; a key that is an
object is referenced and released in the same way. What a set of objects reaches
is what is in every set around it that is `Closed` under `Refers` (`Reachable`):
the definition says what reachability is and needs no recursion, which the prover
does not accept.

`garbage` is history: what nothing in use could reach along `weakRefs_` when the
collection began. The reference that an overwritten value leaves behind
(shared-table.cpp:68) is in the model, and keeps the value alive there too, as
does the reference a failed `push` leaves (channel.cpp:39-46).

### 2.7 EffilThread

One effil thread (`at`: where it is) and the threads that hold its object
(`doing`, `call`). The thread meets its command at an interruption point, reports
`paused` and sleeps in `Notifier::wait()` until another command; a cancellation
is an exception (`raised`) that Lua's own pcall may catch and effil's may not. A
controller puts a command under `stateLock_`, notifies, for a cancel interrupts
what the thread waits on, and waits for the status to change. `noted` are the
`notified_` flags of the three notifiers; that `changeStatus()` resets the
command's and `putCommand()` the status's is what makes crossings dangerous. A
step is a stretch of code under one lock; where a second lock is taken inside the
first (`notify` under `stateLock_`, `cancel_held` under the notifier's mutex) the
first is held between two steps. Condition variables may wake for nothing. A wait
of Lua's own (`blocked`) that is woken without having got anything passes a
cancellation point; one that got what it waited for, or whose time is over, may
return to Lua without one, as `Notifier::waitFor()` and `Channel::pop()` do.

`mishaps` is history: which crossing has happened that the protocol does not
stand. The properties name exactly the ones they need, and so say what the
callers have to keep to: a resume() that comes before the pause is reported, a
command that follows a resume() not yet answered, a second pause(), a command
that takes the notification another caller waits for, an interrupt() between the
cancellation point and the wait.

### 2.8 TouchHandler

`queue` is `g_touch_queue`, filled by either of the two hooks of the input thread
(`TouchEvent`, `NvEvent`) and emptied under its lock by `process_touch()`
(`BeginTouches`, `OnTouch`, `EndTouches`). `OnTouch` offers an event to the
handlers of `Chain` until one takes it; `Handle` is `touch_handler::handle()` as
an operator on a handler's members, `EndFrameOf` is `end_frame()`. Whether ImGui
wants the mouse is chosen for each handler that asks. Renderers are enabled,
disabled and replaced whenever Lua runs: in the frame or, within the pass, in the
onTouch handlers. A position is the pointer whose position it is.

History: `owner` of each gesture, and the cases in which the code does not keep
its own order - `dropped` (disabled with a finger down, or robbed of the end of
its gesture by a handler that was, and is enabled again), `lost` (captured while a
clean-up of an earlier touch was due), `ghosts` (a delayed push whose finger has
been released). The properties hold but for these. A pointer beyond the ten that
`pointers[]` has room for is refused (`MaxPointers`); the run has two smaller ones,
the proofs have any.

## 3. Runs

| Run | Question | Bounds | Distinct states |
|---|---|---|---|
| `lua_threads` | Does run() pass over a due thread, resume one twice, serve a due one at last while no error ends the script? Does a handle reach any coroutine but its own, leave one behind, or wake a dead one? | 2 threads, 2 instants, 2 handles, fairness | 777 912 |
| `scheduler_iterator` | Does run() visit pending entries only? (**no**) | 2 threads | - |
| `script_life` | Is an instance freed under a running frame, kept for ever, or the main of a living one entered twice? Do commands and paths name live instances, does a reload end in a new one? | 3 files (one a library, one forced-reloading-only), 1 command, 3 instances, 2 effects of Lua | about 2 230 000 |
| `script_dead` | Is Lua of a dead instance ever started? (**yes**) | 2 files, 2 instances | - |
| `netinfo` | Do roster, max_id, online and the maps follow the server? | 3 players, 1 thing, 2 peds, 1 vehicle, ids below 138 | about 296 000 |
| `netinfo_quit` | The same flag with an id equal to the RPC's number (**violated**) | ids 0, 1, 138 | - |
| `spin_mutex` | One owner, a true count, refinement of `RWLock`; no writer kept out by readers | 4 threads, with and without reordering, fairness | 14 522 |
| `rakhook` | Is what is queued overtaken, a thread's order changed, a message lost or never sent, the mutex locked twice? | 2 other threads, 4 messages, fairness | about 294 000 |
| `rakhook_order` | The order again, with handlers that send (**violated**) | 1 other thread | - |
| `effil_gc` | Do the three asserts hold against a concurrent collection; what goes, what stays? | 1 table with 2 keys and a metatable, 1 channel of 2 places, 2 references of a channel, stored or left by a failed push, 2 threads, symmetric | 2 493 865 |
| `effil_thread` | Is a paused thread paused, an end final, every command answered, do two locks cross? | 2 controllers, 3 calls, 1 wake-up for nothing, fairness | 97 938 |
| `touch` | Whose is a gesture, is the count of captured pointers right, when is the mouse down, is a lifted finger let go? | overlay and 1 renderer, 2 pointers, a queue of 2, fairness | 474 130 |

Some invariants stand for several parts that are named and stated one by one in
the module: `FailedIsUnloaded` and `TablesNameLive` in `ScriptManager`,
`AssertsHold` in `EffilGC`, `CommandsAnswered` in `EffilThread`, `MouseIsFinger`
in `TouchHandler`; `RosterAgrees` includes the counter and max_id. The type
invariants of `SpinMutex`, `EffilThread` and `RakHook` are not among the runs'
properties: they are proved.

Why the bounds are enough. *Scheduler*: two threads in the run, because its safety
is proved for any number; with the script's own coroutine and a handle's restart
this gives a handle whose coroutine is over, one whose slice is open and a handle
called from the other's slice. Two instants give a thread that is due and one that
is not. *ScriptManager*: three instances are two scripts and
the replacement of one by a reload or import; the number of effects of Lua bounds
how many calls nest, and two suffice for a handler that imports and a print
in the imported chunk, an error during a termination, or a command registered
and requested. The library lets a script be loaded by another's main function when
the mains are already being started: with it a main that has failed is entered
again, its instance dead. The properties are proved for any
number of everything. *NetInfo*: two remote players of which
one is the largest id, and two peds, so that one address is used again for
another player; objects take the same code as vehicles. Ids below 138 are the
regime in which the quit defect stays invisible in `streamed_in`;
`netinfo_quit` is the other one. The properties are proved for any ids of the
first regime. *SpinMutex*: two writers and two readers; more of
either repeat the same positions. *RakHook*: three messages give one that is
handled, one queued behind it and one sent by the handler; the fourth lets two
threads queue two in turn. *EffilGC*: two objects give cycles, self-references and
an object reachable through another only; `MaxRefs` 2 lets one object be stored
twice in another, which is what the multiset is for. Keys are alike and so are
threads, and only invariants are checked, so symmetry is sound. The properties are
proved for any number. *EffilThread*: two
controllers are the least whose commands cross without waiting for each other,
and three calls the least in which a third meets a crossing of two (a cancel after
pause and resume); the theorems hold for any number of either. *TouchHandler*: two
pointers give a second finger, which only the overlay takes; a queue of two puts
two touches into one frame, between which a clean-up is due. (The overlay and two
renderers with one pointer, 145 268 states, keep the invariants too;
`HolderIsTaker` and `MouseIsFinger` are proved for any number.)

Deadlock is checked in every run but `effil_thread`: no other model stops (a
crashed scheduler and a manager that is shut down step in place, and are named
so). An effil thread does come to an end, its callers run out of calls, and the
two locks can really be taken crosswise; that this happens only after the
crossings named in `LocksOrdered` is the property.

### Fairness

`LuaThreads!HFairSpec`, which repeats `Scheduler!FairSpec`: the game calls run() every frame (main.cpp), the loop of
run() goes on, and a slice ends - Lua code that never yields stops the game, and
nothing holds then. Another pass is assumed only while no error has reached a
caller of the scheduler (`~erred`): `script_manager::run()` destroys a script whose
pass failed, and with it the threads that were due. `DueIsServed` claims nothing of
them; that the script goes is `FailedIsUnloaded`. The script manager also destroys
scripts that have not failed (unload, reload, shutdown); the fairness is that of a
script that lives.

`SpinMutex!FairSpec`: a thread that has begun an operation is scheduled again and
a holder releases. No fairness is assumed of new calls.

`RakHook!FairSpec`: the game calls its hook every frame, the main thread goes on
with what it has begun, and a thread that waits for a mutex which is free again
and again gets it (strong fairness of `Enqueue`; the main thread holds the mutex
only while it processes, and the number of messages is bounded).

`EffilThread!FairSpec`: the thread and each caller are scheduled. Of Lua code it
is assumed that it reaches the hook when it is neither blocked nor over (the hook
counts instructions), and that it does not catch its cancellation for ever
(strong fairness of `Propagate`). Nothing is assumed of what a thread waits for:
`PauseAnswered` leaves a blocked thread out.

`TouchHandler!FairSpec`: process_touch() runs every frame (main.cpp:187) and comes
to its end. ImGui's frames are not fair: `ReleasedIsLetGo` does not need them.

## 4. Where the code disagrees with its words

* `scheduler_iterator` - scheduler.cpp:5 "iterate through all pending tasks". If
  the thread resumed at 26 terminates the thread the iterator already stands on,
  the loop reads an erased map entry.
* `script_dead` - script.h:71 "the script is no longer active". `start_main_all`
  (436) and `run` (313) do not look at `dead`; a script destroyed earlier in the
  same frame is still started or resumed once more.
* `netinfo_quit` - netinfo.h:26 "spawned in local player". The quit of any player
  streams out the player whose id is the RPC number 138; the ped of the player
  who left stays in both maps.
* `rakhook_order` - rakhook.cpp:213, 270, 563, 574 "Ensure relative order".
  `process()` returns at once while it runs (517), so a message sent by the
  handler of a queued message reaches RakNet before the queued ones. `rakhook`
  shows that the order holds for every message not sent from there
  (`QueuedGoFirstOutside`).

Where accesses are reordered, a writer of `SpinMutex` does not exclude readers
(both sides read before the other's write is visible). No text of the repository
claims the opposite for arm64, so `Exclusion` and `IsRWLock` say `~reordered => `
and there is no finding.

`EffilThread` and `TouchHandler` have no run that ends in a violation, for no text
promises that crossing commands or a renderer that is disabled with a finger down
are stood; their histories (`mishaps`, `dropped`, `lost`, `ghosts`) are the list of
what is not.

## 5. What is proved

The proofs are for every number of threads and every value of the constants, from
the assumptions named in the modules only; the theorems about the entity maps of
`NetInfo` have one hypothesis more, stated in them and explained below.

`LuaThreadsProofs`. First the scheduler by itself, from `SchedulerAssumption`, for
any number of threads:

* `TypeCorrect` - the type invariant.
* `RunsOnceAlways` - no thread is twice on the stack. By itself this is not
  inductive: that a thread about to be pushed is not on the stack needs
  `StackRuns` (the threads on the stack are those whose coroutine runs) and
  `FreshIds` (an id not handed out is unborn).
* `DueNotSkipped` and `OneSlicePerPass` - run() never jumps over a due thread and
  never resumes one twice. They need `OwedReady` (an owed thread waits, is due and
  may run), so that `Skip` and `ReapDead` cannot pass it, and `ResumedBehind` (what
  was resumed lies behind the iterator). The lemma `OwedSurvives` says once for
  all actions of Lua that storing a task leaves an owed thread's as it is, since
  `emplace()` does not overwrite.
* `NoResumeAfterEnd` - a coroutine that is over stays over.

Then the handles, from `LuaThreadsAssumption`, for any number of threads and
handles:

* `HandlesTypeCorrect`.
* `HandlesImplementScheduler` - every behaviour with handles is a behaviour of
  `Scheduler` (each call of a handle is a call of the scheduler or leaves it
  alone), so what is proved of the scheduler holds with handles in play.
* `OwnThreadAlways`, `OneCoroutineAlways`, `FlagAlwaysObeyed`. The id a
  handle keeps was handed out (`KnownIds`), so that no later coroutine is taken for
  its own; its living coroutines are the one it knows and the one whose first slice
  is open (`LiveAreKnown`), which starts with the flag of the handle (`OpenFlag`).
* `DeadStaysFinal`, from `NeverBack`: no action of the scheduler revives a
  coroutine that is over.

`SpinMutexProofs`, from `SpinMutexAssumption`:

* `NextMoves` reduces the thirteen actions to one statement: a step moves one
  thread along an edge of the code with the edge's effect, and others are at most
  sent back one access (`Others`). Every later proof uses that statement only.
* `CounterAlwaysCounts` - `counter_` is the number of readers counted in;
  `OneOwnerAlways`; `TypeCorrect` (with the count, counter_ never wraps). These
  hold whether accesses are reordered or not.
* `ExclusionAlways`, `ImplementsRWLock` - without reordering a writer excludes
  readers, and every step is a step of `RWLock` or a stutter. The invariant behind
  them, `InOrder`, says no thread is at a place reached by an early read.

`EffilThreadProofs`, from `EffilThreadAssumption`, for any number of controllers
and of calls:

* `TypeCorrect`, `PauseHolds` (`PausedIsPaused`), `LocksInOrder` (`LocksOrdered`),
  `FinishedForGood` (`FinishIsFinal`). They share one inductive invariant. A
  finished status stays because a finished or cancelled thread takes no command
  (`CancelStands`) and the places at which `running` or `paused` is reported are
  left only while it does not (`PausedStatus`, `AnsweredRun`). That locks do not
  cross needs the whole path of a wake-up: only one caller notifies at a time
  (`OneNotifier`), a signal is meant for a sleeper (`WokenAsleep`), a thread that
  has paused undisturbed finds its notifier reset (`QuietPause`), the first
  command after it is put by a caller who still has to notify (`FirstPut`), and a
  thread that is awake has been told by then (`AwakeTold`).

`RakHookProofs`, from `RakHookAssumption`, for any number of threads and messages
and any depth of the main thread's stack:

* `TypeCorrect`.
* `NeverRelockedAlways`, `NothingLostAlways`. The mutex is held exactly while
  process() is on the stack (`MutexHeld`), which is there once (`WalkOnce`); what
  the walk has passed is settled (`PassedIsSettled`) and every message begun or
  queued was handed out (`Known`), so clearing the queue loses nothing.
* `ThreadOrderAlways`. A thread's messages are queued in its order (`QueueOrder`),
  the one it waits with is later than all of its queued ones (`WaitingIsLast`),
  and what is on the wire is before what is queued (`WireBehindQueue`) and before
  what the walk is serving (`WireBehindServed`, `ServedFromQueue`).
* `QueuedAlwaysFirstOutside`: a message of the main thread goes out after everything
  that was queued when it was sent, unless it was sent while process() ran. By
  itself this is not inductive, for nothing says that a call on the stack has
  waited. `AheadIsCleared` says it of every such call: what was ahead of its message
  is out already, or is out or still queued while a process() *above* it walks the
  queue (`Served`) or is the next thing to run (`Due`). A walk is above as long as
  it is on the stack and ends by clearing the queue, so a call that comes to the top
  has nothing ahead of it. Besides, what is queued is of other threads
  (`QueuedByOthers`) and only what the main thread sends has something ahead
  (`AheadOfMain`). `ServedMoves`, `PopClears` and `ExchangeClears` say once what
  becomes of this when the stack grows, shrinks or changes at its top.
* The lemma `Replaced` says once what the calls on a stack are after one of them
  has been replaced by others; no action looks into the stack otherwise.

`ScriptManagerProofs`, from `ScriptManagerAssumption`, for any number of files,
names, instances and effects of Lua, and any depth of the call stack:

* `TypeCorrect`.
* `NoFreedInUse`. An instance is freed by a walk over the queue or by the end of
  shutdown() only. `Outside` says that below such a call there are calls only
  which work on no script ("after exiting all lua contexts", as a statement about
  the stack), so nothing there is in use; every call that Lua can lead to is of
  another kind.
* `FailedIsAlwaysUnloaded`. A dead instance's unload is ahead of every walk, not of
  the innermost one only: a walk passes an unload by performing it (`WalkedOn`),
  and `InQueue` says that no walk stands beyond the place where the next unload is
  appended.
* `TablesAlwaysNameLive`, which needs that an instance that is gone owns no command
  (`OwnersLive`).
* `MainAlwaysStartsOnce`: the main function of a living instance is entered once;
  one that is entered again has failed, and its instance is dead. Of the calls
  between the creation of an instance and the return of its main function at most
  one is on the stack for an instance (`OnceEach`), and none once its main is
  started (`NotStarted`). A main that was entered before is therefore running, has
  an id or belongs to an instance that is being destroyed (`Known`); and above a
  call that starts mains directly nothing waits to be buried (`Calm`), so that an
  instance on its way to its end is dead by the time its main could be entered
  again. `KnownKept` and `Passing` say once for all actions when that survives a
  step, `OnlyStartMain` that no other action enters a main function.
* `ReloadAlwaysStartsAgain`. The property speaks of the moments when the manager is
  idle; the invariant behind it (`Reloads`) follows a reload from script:reload() to
  the new instance through all it passes (`OnItsWay`): the reload is ahead in the
  queue and before any unload of the script (`ReloadAhead`), the script is being
  destroyed with the load to be queued behind its unload (`Stopping`), the load is
  ahead in the queue and nothing will have the path when its turn comes
  (`LoadAhead`), the file is being loaded (`Loading`), a later instance of the file
  exists (`Restarted`). The turns where a reload could get lost are those in which
  the queue is walked by two walks at once, or in which the script fails, is
  unloaded or is imported again on the way; that none of them drops it needs
  `Buried` (an unload is queued only of what is dead or gone) and `Closing` (the
  manager is cleared after init() only). The lemma `WayKept` says that a step which
  frees nothing and closes nothing (`Gentle`) keeps every reload on its way but
  those that the top of the stack is about (`Due`); what is left per action is to
  show that it is gentle and what becomes of the reloads that are due. The argument
  is for the ids the model has (`nextScript <= MaxScripts`), for any `MaxScripts`;
  in the code ids do not run out.
* Of the actions the proofs see little: `SoundNested` and `SoundBase` say once what
  the stack is after its top was replaced by calls made within Lua, or by calls
  made after all Lua contexts have exited; `Nested`, `Quiet`, `Failing` and
  `AtBase` are the four shapes most actions have. `RehashAlike` covers the loops
  that a rehash sends back.

`TouchHandlerProofs`, from `TouchAssumption`, for any number of handlers and
pointers and a queue of any length:

* `TypeCorrect`, `HolderAlwaysTaker`. Inductive together with `OwnerHolds` (the
  owner of a gesture is enabled and has the pointer, which is one of the ten) and `Alternate` (between two
  presses of a pointer in the queue, or its owner's and the next, lies a release),
  from which a press finds its pointer without an owner. `HandleCounts`
  says what `handle()` does to the count, `TakerIsFirst` that a taker exists when
  any handler would take: the first along `Chain`, by well-foundedness of strict
  inclusion on finite sets.
* `MouseAlwaysFinger`. To `HolderIsTaker` is added, per handler (`MouseOK`), that a
  press without a pointer is about to be undone unless its finger is a ghost, and
  that a renderer with a finger has the mouse at it with no clean-up due (`Follows`)
  unless the case is one of those the histories name (`Excused`). `HandleMouse`
  and its companions say what `handle()` and `end_frame()` make of these members.

`NetInfoProofs`, from `NetInfoAssumption`, for any finite set of ids:

* `RosterAgreesAlways`. Besides the property itself the invariant needs only that
  the players announced are some of the ids other than the local one
  (`Announced`): there are fewer than 65535 (`FewPlayers`), so the 16-bit counter
  does not run over. That max_id is the largest after a quit rests on
  `MaxExists`, a finite set of numbers has a largest: the one with the fewest
  larger ones, which exists because strict inclusion of finite sets is
  well-founded.
* `TypeCorrect`: what is expected is of the kind its id is for, and nothing is
  expected once the game has asked for a message in vain (`Expects`).
* `ShownAlwaysFound`, `StreamedInAlwaysSpawned`: the maps lead to the entities the
  server shows, and `streamed_in` says which players those are. The invariant
  (`Mapped`) says that the game has at most one entity to make or remove, which
  one, and at which of the three steps of a ped it is (`OneJob`); that an address
  stands for one id at a time (`ShownOnce`), which is what makes it sound that an
  address is used again; and that all but what is pending is as it should be
  (`Matched`, `StreamedShown`). Both have the hypothesis `QuitRpc \notin Players`,
  that the number of the RPC of a quit (138) is not the id of a player: with it they
  are false, which is the finding of `netinfo_quit`. `Players` of any number without
  that id meets it, among them a server with fewer than 138 slots, and the run
  `netinfo` is such a one.

`EffilGCProofs`, from `EffilGCAssumption`, for any number of tables, channels,
keys, threads and references:

* `TypeCorrect`.
* `AssertsAlwaysHold`. A call knows what it works on: it has a view of it, the lock
  it took and what is stored in the slot (`CallSound`). `StoredAreCounted` relates
  the containers to `weakRefs_`: the slots that refer to x, less those whose
  reference has just been taken away and with those whose reference is about to be
  stored (`Counts`), are at most as many as the references counted. Not exactly as
  many: an overwritten value leaves its reference behind. So a reference that is
  removed is one that is there.
* `HeldAlwaysManaged`. What a thread has a view of and what an object refers to is
  in `objects_` (`Managed`). That a collection keeps it so while threads go on
  between its steps is tri-colour marking: no view is of an object that has been
  passed over, and no black object refers to a white one (`Colored`). The code needs
  no write barrier for that, because a call stores only what its thread has a view
  of, and all such objects are grey or black before the first one is black; and
  because while collect() holds the lock nobody comes by a view of anything he finds
  (`MutatorMoves`: what calls may do to the heap, stated once for all of them).
* `GarbageAlwaysGoes`. What nothing in use could reach when a collection began is
  reached by no thread, no other object and no colour until the sweep (`Hopeless`).
  `Reachable` is the least closed set, so that its complement is left alone is
  shown with one closed set, and induction is not needed.

Only model-checked are the liveness properties - `DueIsServed`, `WriterGetsIn`,
`QueuedIsSent`, `CommandsAnswered`, `EndIsSeen`, `ReleasedIsLetGo` - which rest on
fairness and ENABLED, out of this prover's reach. Every invariant and every action
property of the passing runs is proved. The four runs that end in a violation have
no theorem, of course.

## 6. What is left

Worth doing, in this order:

1. `EffilChannel`: capacity, and waiting. Reading the source shows one thing to
   model: notify_one() may wake a consumer that is being cancelled, which leaves
   without the value, while another sleeps on a channel that is not empty.
2. The dialogs and the score table of `NetInfo`, `Exports`.
3. Nested shared locks of `SharedTable::luaCall` on `SpinMutex`; `PatternScan` as a
   pure algorithm against its definition.
4. Proofs: of the parts above, as they are added. An abstract collector (what is in
   use stays, what is not goes at the next collection) that `EffilGC` implements.

Left out for good: the receiving half of `RakHook` (2.5), instruction relocation
and code patching (third party, and a matter of bytes), memory layouts and opcode
tables (mostly generated), drawing, sound, JSON and other wrappers (no protocol of
their own), the vendored modules (luasocket, luasec, cjson, mimgui) and libraries.
Nearly all lines of `src/` are of these kinds, so the share of the repository the
models cover is small although the components with a protocol are covered.
