--------------------------- MODULE ScriptManager ---------------------------
(***************************************************************************)
(* The life of script instances in lua::script_manager                     *)
(* (cpp/script/script_manager.h and script_manager.cpp, with the parts of  *)
(* cpp/script/script.cpp and main.cpp that drive it).                      *)
(*                                                                         *)
(* Everything runs on the game's main thread, and almost everything can    *)
(* call Lua, which can call back: a handler imports another script, its    *)
(* main chunk prints, the print runs handlers, one of them fails and is    *)
(* destroyed, and its termination runs handlers again.  The C++ call stack *)
(* is therefore part of the state: ctl is the sequence of what is being    *)
(* executed and what remains to be done, innermost first.  A loop over     *)
(* _scripts keeps the set of scripts it has still to visit.                *)
(***************************************************************************)
EXTENDS Integers, Sequences, FiniteSets

CONSTANTS
  Paths,       \* script files
  Libraries,   \* those in other directories, which only import() and load() find
  ForcedPaths, \* those with the property "forced-reloading-only"
  Names,       \* chat command names
  MaxScripts,  \* bound: instances created in a behaviour
  MaxActs      \* bound: effects of Lua code (calls into the manager, errors)

ASSUME ScriptManagerAssumption ==
  /\ Paths # {}      \* without a file nothing is ever created
  /\ Libraries \subseteq Paths /\ ForcedPaths \subseteq Paths
  /\ MaxScripts \in Nat \ {0}
  /\ MaxActs \in Nat

Ids  == 1 .. MaxScripts
None == 0

VARIABLES
  nextScript,   (* _next_script_id                                          *)
  scripts,      (* the keys of _scripts                                     *)
  path,         (* info.path of each instance                               *)
  loaded,       (* _loaded_paths: the instance registered for a path        *)
  dead,         (* instances with the flag dead                             *)
  dying,        (* instances with the flag dying                            *)
  mains,        (* instances whose main_thread_id is set                    *)
  begun,        (* history: instances whose main function has been entered  *)
  commands,     (* _commands: the owner of each registered name             *)
  owned,        (* script::commands of each instance                        *)
  queue,        (* _queued_actions                                          *)
  reloadLater,  (* _reload_all_later                                        *)
  phase,        (* before init(), between init() and shutdown(), after      *)
  ctl,          (* the call stack, innermost operation first                *)
  err,          (* the Lua call that just ended raised an error             *)
  acts,         (* effects of Lua code left                                 *)
  reloadAsked   (* history: instances script:reload() was called on         *)

registry == <<nextScript, scripts, path, loaded>>
life     == <<dead, dying, mains, begun>>
cmds     == <<commands, owned>>
vars     == <<registry, life, cmds, queue, reloadLater, phase, ctl, err, acts,
              reloadAsked>>

(* Queued actions. *)
Unload(s)     == [type |-> "unload", id |-> s]
Reload(s)     == [type |-> "reload", id |-> s]
LoadFile(p)   == [type |-> "load", path |-> p]
RealUnload(s) == [type |-> "perform_real_unload", id |-> s]

(* What the call stack is made of. *)
Lua(s)          == [op |-> "lua", s |-> s]            \* Lua code of s runs
Fire            == [op |-> "fire"]                    \* for_each_event_handler
Each(todo)      == [op |-> "each", todo |-> todo]     \*   ... its loop
Handled(s)      == [op |-> "handled", s |-> s]        \*   ... a handler is back
Load(p, once)   == [op |-> "load", p |-> p, once |-> once]
Create(p, once) == [op |-> "create", p |-> p, once |-> once]
Started(s, once)  == [op |-> "started", s |-> s, once |-> once]
Register(s, once) == [op |-> "register", s |-> s, once |-> once]
Main(s)         == [op |-> "main", s |-> s]           \* start_main
MainDone(s)     == [op |-> "maindone", s |-> s]
Mains(todo)     == [op |-> "mains", todo |-> todo]    \* start_main_all
Destroy(s, how) == [op |-> "destroy", s |-> s, how |-> how]
Exit(s, how)    == [op |-> "exit", s |-> s, how |-> how]
Exited(s)       == [op |-> "exited", s |-> s]
Bury(s)         == [op |-> "bury", s |-> s]           \* end of destroy_script
Queue(i)        == [op |-> "queue", i |-> i]          \* run_queued_actions at i
LoadAll(ps)     == [op |-> "loadall", ps |-> ps]
RunScripts(todo) == [op |-> "runscripts", todo |-> todo]
Ran(s)          == [op |-> "ran", s |-> s]
ReloadRun(todo) == [op |-> "reloadrun", todo |-> todo]
QuitAll(todo)   == [op |-> "quitall", todo |-> todo]
CmdDone(n, s)   == [op |-> "cmddone", n |-> n, s |-> s]
Then(what)      == [op |-> what]   \* a statement without parameters

Loops == {"each", "mains", "runscripts", "reloadrun", "quitall"}

Top == Head(ctl)
At(op) == ctl # <<>> /\ Top.op = op

(* The innermost operation is replaced by what it calls and then does. *)
Continue(ops) == ctl' = ops \o Tail(ctl)
Call(ops)     == ctl' = ops \o ctl

Spend == acts > 0 /\ acts' = acts - 1

Init ==
  /\ nextScript = 1
  /\ scripts = {}
  /\ path \in [Ids -> {CHOOSE p \in Paths : TRUE}]
  /\ loaded = [p \in Paths |-> None]
  /\ dead = {} /\ dying = {} /\ mains = {} /\ begun = {}
  /\ commands = [n \in Names |-> None]
  /\ owned = [s \in Ids |-> {}]
  /\ queue = <<>>
  /\ reloadLater = FALSE
  /\ phase = "boot"
  /\ ctl = <<>>
  /\ err = FALSE
  /\ acts = MaxActs
  /\ reloadAsked = {}

----------------------------------------------------------------------------
(* Lua code of a script: it returns, raises an error, or calls the manager. *)
LuaReturn ==
  /\ At("lua")
  /\ Continue(<<>>)
  /\ err' = FALSE
  /\ UNCHANGED <<registry, life, cmds, queue, reloadLater, phase, acts, reloadAsked>>

LuaFail ==
  /\ At("lua") /\ Spend
  /\ Continue(<<>>)
  /\ err' = TRUE
  /\ UNCHANGED <<registry, life, cmds, queue, reloadLater, phase, reloadAsked>>

(* import(p) of a registered path only copies exports. *)
LuaImport(p) ==
  /\ At("lua") /\ Spend
  /\ loaded[p] = None
  /\ Call(<<Load(p, FALSE)>>)
  /\ UNCHANGED <<registry, life, cmds, queue, reloadLater, phase, err, reloadAsked>>

(* print() and the like run the message handlers of all scripts. *)
LuaPrint ==
  /\ At("lua") /\ Spend
  /\ Call(<<Fire>>)
  /\ UNCHANGED <<registry, life, cmds, queue, reloadLater, phase, err, reloadAsked>>

(* script:unload() and script:reload() of a live script, script.load(path) *)
LuaRequest(action) ==
  /\ At("lua") /\ Spend
  /\ action.type \in {"unload", "reload"} => action.id \in scripts \ dead
  /\ queue' = Append(queue, action)
  /\ reloadAsked' = IF action.type = "reload" THEN reloadAsked \cup {action.id}
                                              ELSE reloadAsked
  /\ UNCHANGED <<registry, life, cmds, reloadLater, phase, ctl, err>>

LuaReloadScripts ==
  /\ At("lua") /\ Spend
  /\ reloadLater' = TRUE
  /\ UNCHANGED <<registry, life, cmds, queue, phase, ctl, err, reloadAsked>>

(* register_command: the first owner of a name keeps it. *)
LuaRegister(n) ==
  /\ At("lua") /\ Spend
  /\ commands[n] = None
  /\ commands' = [commands EXCEPT ![n] = Top.s]
  /\ owned' = [owned EXCEPT ![Top.s] = @ \cup {n}]
  /\ UNCHANGED <<registry, life, queue, reloadLater, phase, ctl, err, reloadAsked>>

UnregisterKeepsOwned(n) ==     \* mutant: the owner still lists the name
  /\ At("lua") /\ Spend
  /\ commands[n] # None
  /\ commands' = [commands EXCEPT ![n] = None]
  /\ UNCHANGED <<registry, life, owned, queue, reloadLater, phase, ctl, err,
                 reloadAsked>>

(* unregister_command: any script may remove any name. *)
LuaUnregister(n) ==
  /\ At("lua") /\ Spend
  /\ commands[n] # None
  /\ owned' = [owned EXCEPT ![commands[n]] = @ \ {n}]
  /\ commands' = [commands EXCEPT ![n] = None]
  /\ UNCHANGED <<registry, life, queue, reloadLater, phase, ctl, err, reloadAsked>>

(* handle_command(), from the chat or from Lua code that sends a command. *)
Command(n) ==
  /\ phase = "live"
  /\ ctl = <<>> \/ At("lua")
  /\ Spend
  /\ commands[n] # None
  /\ commands[n] \notin dead
  /\ Call(<<Lua(commands[n]), CmdDone(n, commands[n])>>)
  /\ UNCHANGED <<registry, life, cmds, queue, reloadLater, phase, err, reloadAsked>>

CommandDone ==
  /\ At("cmddone")
  /\ err' = FALSE
  /\ \/ /\ err /\ Top.s \notin dying
        /\ dying' = dying \cup {Top.s}
        /\ Continue(<<Fire, Destroy(Top.s, "error")>>)
     \/ /\ ~(err /\ Top.s \notin dying)
        /\ UNCHANGED dying
        /\ Continue(<<>>)
  /\ UNCHANGED <<registry, dead, mains, begun, cmds, queue, reloadLater, phase, acts,
                 reloadAsked>>

----------------------------------------------------------------------------
(* for_each_event_handler.  A handler that does nothing is not shown.      *)
FireEvent ==
  /\ At("fire")
  /\ Continue(<<Each(scripts)>>)
  /\ UNCHANGED <<registry, life, cmds, queue, reloadLater, phase, err, acts,
                 reloadAsked>>

CallHandler(s) ==
  /\ At("each") /\ acts > 0
  /\ s \in Top.todo \cap scripts
  /\ s \notin dead
  /\ Continue(<<Lua(s), Handled(s), Each(Top.todo \ {s})>>)
  /\ UNCHANGED <<registry, life, cmds, queue, reloadLater, phase, err, acts,
                 reloadAsked>>

EachDone ==
  /\ At("each")
  /\ Continue(<<>>)
  /\ UNCHANGED <<registry, life, cmds, queue, reloadLater, phase, err, acts,
                 reloadAsked>>

HandlerDoneForgets ==          \* mutant: the failed script is not destroyed
  /\ At("handled")
  /\ err' = FALSE
  /\ dying' = IF err THEN dying \cup {Top.s} ELSE dying
  /\ Continue(IF err THEN <<Fire>> ELSE <<>>)
  /\ UNCHANGED <<registry, dead, mains, begun, cmds, queue, reloadLater, phase, acts,
                 reloadAsked>>

(* The error of a script that is dying already is suppressed. *)
HandlerDone ==
  /\ At("handled")
  /\ err' = FALSE
  /\ \/ /\ err /\ Top.s \notin dying
        /\ dying' = dying \cup {Top.s}
        /\ Continue(<<Fire, Destroy(Top.s, "error")>>)
     \/ /\ ~(err /\ Top.s \notin dying)
        /\ UNCHANGED dying
        /\ Continue(<<>>)
  /\ UNCHANGED <<registry, dead, mains, begun, cmds, queue, reloadLater, phase, acts,
                 reloadAsked>>

----------------------------------------------------------------------------
(* load(), one_off_load() (once = TRUE) and start(). *)
LoadScript ==
  /\ At("load")
  /\ \/ loaded[Top.p] # None /\ Continue(<<>>)
     \/ loaded[Top.p] = None /\ Continue(<<Fire, Create(Top.p, Top.once)>>)
  /\ UNCHANGED <<registry, life, cmds, queue, reloadLater, phase, err, acts,
                 reloadAsked>>

CreateSameId ==                \* mutant: _next_script_id is not incremented
  /\ At("create")
  /\ nextScript <= MaxScripts
  /\ scripts' = scripts \cup {nextScript}
  /\ path' = [path EXCEPT ![nextScript] = Top.p]
  /\ Continue(<<Lua(nextScript), Started(nextScript, Top.once)>>)
  /\ UNCHANGED <<nextScript, loaded, life, cmds, queue, reloadLater, phase, err,
                 acts, reloadAsked>>

(* _scripts.try_emplace may rehash the table under the loops that stand in *)
(* it: such a loop goes on with any of the scripts.                        *)
Rehash(todo) == [i \in DOMAIN ctl |->
  IF ctl[i].op \in Loops THEN [ctl[i] EXCEPT !.todo = todo] ELSE ctl[i]]

CreateScript ==
  /\ At("create")
  /\ nextScript <= MaxScripts
  /\ nextScript' = nextScript + 1
  /\ scripts' = scripts \cup {nextScript}
  /\ path' = [path EXCEPT ![nextScript] = Top.p]
  /\ LET run == <<Lua(nextScript), Started(nextScript, Top.once)>> IN
       \/ Continue(run)
       \/ \E todo \in SUBSET scripts' : ctl' = run \o Tail(Rehash(todo))
  /\ UNCHANGED <<loaded, life, cmds, queue, reloadLater, phase, err, acts, reloadAsked>>

(* MaxScripts is reached: the file is taken to be missing. *)
CreateBeyondBound ==
  /\ At("create")
  /\ nextScript > MaxScripts
  /\ Continue(<<>>)
  /\ UNCHANGED <<registry, life, cmds, queue, reloadLater, phase, err, acts,
                 reloadAsked>>

ScriptStarted ==
  /\ At("started")
  /\ err' = FALSE
  /\ \/ /\ err
        /\ dying' = dying \cup {Top.s}
        /\ Continue(<<Fire, Bury(Top.s)>>)
     \/ /\ ~err
        /\ UNCHANGED dying
        /\ Continue(<<Fire, Register(Top.s, Top.once)>>)
  /\ UNCHANGED <<registry, dead, mains, begun, cmds, queue, reloadLater, phase, acts,
                 reloadAsked>>

(* emplace() leaves the path to an instance that registered it meanwhile. *)
RegisterScript ==
  /\ At("register")
  /\ loaded' = [loaded EXCEPT ![path[Top.s]] = IF @ = None THEN Top.s ELSE @]
  /\ Continue(<<Fire>> \o IF Top.once THEN <<Main(Top.s)>> ELSE <<>>)
  /\ UNCHANGED <<nextScript, scripts, path, life, cmds, queue, reloadLater, phase,
                 err, acts, reloadAsked>>

StartMainAgain ==              \* mutant: main_thread_id is not looked at
  /\ At("main")
  /\ Continue(<<Lua(Top.s), MainDone(Top.s)>>)
  /\ begun' = begun \cup {Top.s}
  /\ UNCHANGED <<registry, dead, dying, mains, cmds, queue, reloadLater, phase, err,
                 acts, reloadAsked>>

(* start_main(): the id of a main thread that failed was never set. *)
StartMain ==
  /\ At("main")
  /\ \/ /\ Top.s \in mains
        /\ Continue(<<>>)
        /\ UNCHANGED begun
     \/ /\ Top.s \notin mains
        /\ Continue(<<Lua(Top.s), MainDone(Top.s)>>)
        /\ begun' = begun \cup {Top.s}
  /\ UNCHANGED <<registry, dead, dying, mains, cmds, queue, reloadLater, phase, err,
                 acts, reloadAsked>>

MainReturned ==
  /\ At("maindone")
  /\ err' = FALSE
  /\ \/ /\ err
        /\ dying' = dying \cup {Top.s}
        /\ Continue(<<Fire, Destroy(Top.s, "error")>>)
        /\ UNCHANGED mains
     \/ /\ ~err
        /\ mains' = mains \cup {Top.s}
        /\ Continue(<<>>)
        /\ UNCHANGED dying
  /\ UNCHANGED <<registry, dead, begun, cmds, queue, reloadLater, phase, acts,
                 reloadAsked>>

(* start_main_all() *)
StartMains ==
  /\ At("startmains")
  /\ Continue(<<Mains(scripts)>>)
  /\ UNCHANGED <<registry, life, cmds, queue, reloadLater, phase, err, acts,
                 reloadAsked>>

NextMain ==
  /\ At("mains")
  /\ \/ \E s \in Top.todo \cap scripts :
          Continue(<<Main(s), Mains(Top.todo \ {s})>>)
     \/ Top.todo \cap scripts = {} /\ Continue(<<Queue(1)>>)
  /\ UNCHANGED <<registry, life, cmds, queue, reloadLater, phase, err, acts,
                 reloadAsked>>

----------------------------------------------------------------------------
(* destroy_script() *)
DestroyScript ==
  /\ At("destroy")
  /\ dying' = dying \cup {Top.s}
  /\ Continue(<<Fire, Exit(Top.s, Top.how), Bury(Top.s)>>)
  /\ UNCHANGED <<registry, dead, mains, begun, cmds, queue, reloadLater, phase, err, acts,
                 reloadAsked>>

(* onExitScript of the script itself, unless it is dead or died of an error *)
ExitHandlers ==
  /\ At("exit")
  /\ \/ /\ Top.s \notin dead /\ Top.how # "error" /\ acts > 0
        /\ Continue(<<Lua(Top.s), Exited(Top.s)>>)
     \/ Continue(<<>>)
  /\ UNCHANGED <<registry, life, cmds, queue, reloadLater, phase, err, acts,
                 reloadAsked>>

ExitDone ==
  /\ At("exited")
  /\ err' = FALSE
  /\ Continue(IF err THEN <<Fire>> ELSE <<>>)
  /\ UNCHANGED <<registry, life, cmds, queue, reloadLater, phase, acts, reloadAsked>>

(* perform_real_unload: the entry of _scripts goes, and with it ~script()  *)
(* unregisters the commands the instance owns.                             *)
FreeLeaksNames(s) ==           \* mutant: ~script() forgets the commands
  /\ scripts' = scripts \ {s}
  /\ loaded' = [loaded EXCEPT ![path[s]] = None]
  /\ dead' = dead \ {s} /\ dying' = dying \ {s} /\ mains' = mains \ {s}
  /\ UNCHANGED <<begun, cmds>>

Free(s) ==
  /\ scripts' = scripts \ {s}
  /\ loaded' = [loaded EXCEPT ![path[s]] = None]
  /\ commands' = [n \in Names |-> IF n \in owned[s] THEN None ELSE commands[n]]
  /\ owned' = [owned EXCEPT ![s] = {}]
  /\ dead' = dead \ {s} /\ dying' = dying \ {s} /\ mains' = mains \ {s}
  /\ UNCHANGED begun

BuryAndFree ==                 \* mutant: the instance is freed at once
  /\ At("bury")
  /\ Free(Top.s)
  /\ Continue(<<>>)
  /\ UNCHANGED <<nextScript, path, queue, reloadLater, phase, err, acts,
                 reloadAsked>>

(* The end of destroy_script() *)
BuryScript ==
  /\ At("bury")
  /\ dead' = dead \cup {Top.s}
  /\ queue' = Append(queue, RealUnload(Top.s))
  /\ Continue(<<>>)
  /\ UNCHANGED <<registry, dying, mains, begun, cmds, reloadLater, phase, err, acts,
                 reloadAsked>>

(* A reload destroys the instance and queues the file behind its unload. *)
LoadQueuedFirst(s) ==          \* mutant: the file is queued before that
  <<[op |-> "pushload", p |-> path[s]], Destroy(s, "normal")>>
ReloadOps(s) ==
  <<Destroy(s, "normal"), [op |-> "pushload", p |-> path[s]]>>

(* run_queued_actions(): the list may grow while it is walked. *)
Action == queue[Top.i]
QueueStep(ops) == Continue(ops \o <<Queue(Top.i + 1)>>)

RunAction ==
  /\ At("queue") /\ Top.i <= Len(queue)
  /\ Action.type # "perform_real_unload"
  /\ CASE Action.type = "load" -> QueueStep(<<Load(Action.path, TRUE)>>)
       [] Action.type = "unload" /\ Action.id \in scripts ->
            QueueStep(<<Destroy(Action.id, "normal")>>)
       [] Action.type = "reload" /\ Action.id \in scripts ->
            QueueStep(ReloadOps(Action.id))
       [] OTHER -> QueueStep(<<>>)
  /\ UNCHANGED <<registry, life, cmds, queue, reloadLater, phase, err, acts,
                 reloadAsked>>

PushLoad ==
  /\ At("pushload")
  /\ queue' = Append(queue, LoadFile(Top.p))
  /\ Continue(<<>>)
  /\ UNCHANGED <<registry, life, cmds, reloadLater, phase, err, acts, reloadAsked>>

PerformRealUnload ==
  /\ At("queue") /\ Top.i <= Len(queue)
  /\ Action.type = "perform_real_unload"
  /\ \/ Action.id \in scripts /\ Free(Action.id)
     \/ Action.id \notin scripts /\ UNCHANGED <<scripts, loaded, cmds, life>>
  /\ QueueStep(<<>>)
  /\ UNCHANGED <<nextScript, path, queue, reloadLater, phase, err, acts, reloadAsked>>

QueueDone ==
  /\ At("queue") /\ Top.i > Len(queue)
  /\ queue' = <<>>
  /\ Continue(<<>>)
  /\ UNCHANGED <<registry, life, cmds, reloadLater, phase, err, acts, reloadAsked>>

----------------------------------------------------------------------------
(* load_all() looks at the files of the root directory. *)
LoadNext ==
  /\ At("loadall")
  /\ \/ \E p \in Top.ps : Continue(<<Load(p, FALSE), LoadAll(Top.ps \ {p})>>)
     \/ Top.ps = {} /\ Continue(<<Queue(1)>>)
  /\ UNCHANGED <<registry, life, cmds, queue, reloadLater, phase, err, acts,
                 reloadAsked>>

(* init(), called once by the hook of CTheScripts::Process *)
InitManager ==
  /\ ctl = <<>> /\ phase = "boot"
  /\ ctl' = <<LoadAll(Paths \ Libraries), Fire, Queue(1), Then("startmains"), Then("live")>>
  /\ UNCHANGED <<registry, life, cmds, queue, reloadLater, phase, err, acts,
                 reloadAsked>>

InitDone ==
  /\ At("live")
  /\ phase' = "live"
  /\ Continue(<<>>)
  /\ UNCHANGED <<registry, life, cmds, queue, reloadLater, err, acts, reloadAsked>>

(* run(), once per frame *)
Frame ==
  /\ ctl = <<>> /\ phase = "live"
  /\ ctl' = <<Queue(1), Then("frame"), Queue(1)>>
  /\ UNCHANGED <<registry, life, cmds, queue, reloadLater, phase, err, acts,
                 reloadAsked>>

FrameBody ==
  /\ At("frame")
  /\ \/ reloadLater /\ Continue(<<ReloadRun(scripts), Queue(1), LoadAll(Paths \ Libraries),
                                  Then("startmains"), Then("reloaded")>>)
     \/ ~reloadLater /\ Continue(<<RunScripts(scripts)>>)
  /\ UNCHANGED <<registry, life, cmds, queue, reloadLater, phase, err, acts,
                 reloadAsked>>

(* sched.run() of every script; slices that do nothing are not shown. *)
RunScript(s) ==
  /\ At("runscripts") /\ acts > 0
  /\ s \in Top.todo \cap scripts
  /\ Continue(<<Lua(s), Ran(s), RunScripts(Top.todo \ {s})>>)
  /\ UNCHANGED <<registry, life, cmds, queue, reloadLater, phase, err, acts,
                 reloadAsked>>

RunScriptsDone ==
  /\ At("runscripts")
  /\ Continue(<<>>)
  /\ UNCHANGED <<registry, life, cmds, queue, reloadLater, phase, err, acts,
                 reloadAsked>>

(* An error ends the script, and so does having no handler and no task.   *)
ScriptRan ==
  /\ At("ran")
  /\ err' = FALSE
  /\ \/ /\ err
        /\ dying' = dying \cup {Top.s}
        /\ Continue(<<Fire, Destroy(Top.s, "error")>>)
     \/ /\ ~err
        /\ UNCHANGED dying
        /\ Continue(<<Destroy(Top.s, "normal")>>) \/ Continue(<<>>)
  /\ UNCHANGED <<registry, dead, mains, begun, cmds, queue, reloadLater, phase, acts,
                 reloadAsked>>

(* The reload branch: forced-reloading-only scripts keep running, and what *)
(* their scheduler returns is not looked at.                               *)
ReloadStep ==
  /\ At("reloadrun")
  /\ \/ \E s \in Top.todo \cap scripts :
          LET rest == ReloadRun(Top.todo \ {s}) IN
          IF path[s] \in ForcedPaths
          THEN Continue(<<Lua(s), rest>>)
          ELSE Continue(<<Destroy(s, "normal"), rest>>)
     \/ Top.todo \cap scripts = {} /\ Continue(<<>>)
  /\ UNCHANGED <<registry, life, cmds, queue, reloadLater, phase, err, acts,
                 reloadAsked>>

ReloadDone ==
  /\ At("reloaded")
  /\ reloadLater' = FALSE
  /\ Continue(<<>>)
  /\ UNCHANGED <<registry, life, cmds, queue, phase, err, acts, reloadAsked>>

----------------------------------------------------------------------------
(* The rest of the game: an event of the network, of the touch screen ...; *)
(* the reload of a saved game (on_game_restart).                           *)
GameEvent ==
  /\ ctl = <<>> /\ phase = "live" /\ acts > 0
  /\ ctl' = <<Fire>>
  /\ UNCHANGED <<registry, life, cmds, queue, reloadLater, phase, err, acts,
                 reloadAsked>>

GameRestart ==
  /\ ctl = <<>> /\ phase = "live" /\ Spend
  /\ reloadLater' = TRUE
  /\ UNCHANGED <<registry, life, cmds, queue, phase, ctl, err, reloadAsked>>

(* shutdown() *)
Shutdown ==
  /\ ctl = <<>> /\ phase = "live"
  /\ ctl' = <<Fire, Queue(1), Then("quit"), Then("clear")>>
  /\ UNCHANGED <<registry, life, cmds, queue, reloadLater, phase, err, acts,
                 reloadAsked>>

QuitScripts ==
  /\ \/ At("quit") /\ Continue(<<QuitAll(scripts)>>)
     \/ /\ At("quitall")
        /\ \/ \E s \in Top.todo \cap scripts :
                Continue(<<Destroy(s, "quit"), QuitAll(Top.todo \ {s})>>)
           \/ Top.todo \cap scripts = {} /\ Continue(<<>>)
  /\ UNCHANGED <<registry, life, cmds, queue, reloadLater, phase, err, acts,
                 reloadAsked>>

Clear ==
  /\ At("clear")
  /\ commands' = [n \in Names |-> None]
  /\ owned' = [s \in Ids |-> {}]
  /\ loaded' = [p \in Paths |-> None]
  /\ scripts' = {} /\ dead' = {} /\ dying' = {} /\ mains' = {}
  /\ UNCHANGED begun
  /\ queue' = <<>>
  /\ reloadLater' = FALSE
  /\ phase' = "off"
  /\ Continue(<<>>)
  /\ UNCHANGED <<nextScript, path, err, acts, reloadAsked>>

Off == phase = "off" /\ UNCHANGED vars

----------------------------------------------------------------------------
Requests ==
  {Unload(s) : s \in scripts} \cup {Reload(s) : s \in scripts}
    \cup {LoadFile(p) : p \in Paths}

Next ==
  \/ LuaReturn
  \/ LuaFail
  \/ \E p \in Paths : LuaImport(p)
  \/ LuaPrint
  \/ \E a \in Requests : LuaRequest(a)
  \/ LuaReloadScripts
  \/ \E n \in Names : LuaRegister(n) \/ LuaUnregister(n) \/ Command(n)
  \/ CommandDone
  \/ FireEvent
  \/ \E s \in Ids : CallHandler(s)
  \/ EachDone
  \/ HandlerDone
  \/ LoadScript
  \/ CreateScript
  \/ CreateBeyondBound
  \/ ScriptStarted
  \/ RegisterScript
  \/ StartMain
  \/ MainReturned
  \/ StartMains
  \/ NextMain
  \/ DestroyScript
  \/ ExitHandlers
  \/ ExitDone
  \/ BuryScript
  \/ RunAction
  \/ PushLoad
  \/ PerformRealUnload
  \/ QueueDone
  \/ LoadNext
  \/ InitManager
  \/ InitDone
  \/ Frame
  \/ FrameBody
  \/ \E s \in Ids : RunScript(s)
  \/ RunScriptsDone
  \/ ScriptRan
  \/ ReloadStep
  \/ ReloadDone
  \/ GameEvent
  \/ GameRestart
  \/ Shutdown
  \/ QuitScripts
  \/ Clear
  \/ Off

Spec == Init /\ [][Next]_vars

----------------------------------------------------------------------------
(* Every variable keeps the shape of the member it stands for. *)
TypeOK ==
  /\ nextScript \in 1 .. MaxScripts + 1
  /\ scripts \subseteq 1 .. nextScript - 1
  /\ path \in [Ids -> Paths]
  /\ loaded \in [Paths -> Ids \cup {None}]
  /\ dead \subseteq scripts /\ dying \subseteq scripts /\ mains \subseteq scripts
  /\ begun \subseteq 1 .. nextScript - 1
  /\ commands \in [Names -> Ids \cup {None}]
  /\ owned \in [Ids -> SUBSET Names]
  /\ reloadLater \in BOOLEAN
  /\ phase \in {"boot", "live", "off"}
  /\ err \in BOOLEAN
  /\ acts \in 0 .. MaxActs

(* "run_queued_actions ... needs to be run after exiting all lua contexts" *)
(* (script_manager.h:13): no function on the call stack works on an        *)
(* instance that has been freed.                                           *)
NoFreedInstanceInUse ==
  \A i \in DOMAIN ctl : "s" \in DOMAIN ctl[i] => ctl[i].s \in scripts

(* _commands holds references to script objects: each is an instance that  *)
(* exists and that will unregister exactly these names when it goes.       *)
CommandsOwned ==
  /\ \A n \in Names : commands[n] # None =>
       commands[n] \in scripts /\ n \in owned[commands[n]]
  /\ \A s \in scripts : \A n \in owned[s] : commands[n] = s

(* In the queue, and not yet passed by a run_queued_actions() that walks it. *)
StillQueued(action) ==
  \E k \in DOMAIN queue :
    /\ queue[k] = action
    /\ \A i \in DOMAIN ctl : ctl[i].op = "queue" => ctl[i].i <= k

(* A dead instance is not kept for ever: its unload is queued.             *)
DeadWillBeFreed ==
  \A s \in dead : StillQueued(RealUnload(s))

(* A script marked as dying is on its way to be destroyed, whichever path  *)
(* its error took.                                                         *)
DyingIsDestroyed ==
  \A s \in dying \ dead :
    \E i \in DOMAIN ctl : ctl[i].op \in {"destroy", "bury"} /\ ctl[i].s = s

(* What has failed or was unloaded goes: marked as dying it is on its way  *)
(* to destroy_script(), destroyed its unload is queued.                    *)
FailedIsUnloaded == DyingIsDestroyed /\ DeadWillBeFreed

(* import() dereferences the instance _loaded_paths names without a check. *)
LoadedPathsExist ==
  \A p \in Paths : loaded[p] # None => loaded[p] \in scripts /\ path[loaded[p]] = p

(* The tables that import() and handle_command() follow to a script        *)
(* without a check name instances that exist, and theirs.                  *)
TablesNameLive == CommandsOwned /\ LoadedPathsExist

(* script:reload() ends with a later instance of the same file having been *)
(* started, whatever else was queued or happened in the handlers between.  *)
ReloadStartsAgain ==
  ctl = <<>> /\ queue = <<>> /\ phase = "live" /\ nextScript <= MaxScripts =>
    \A s \in reloadAsked :
      \E t \in 1 .. nextScript - 1 : t > s /\ path[t] = path[s]

(* The main function of a living instance is entered at most once: not     *)
(* again while its first slice runs, nor after it has returned.  Only one  *)
(* that failed can be entered again, since no id was kept of it, and by    *)
(* then its instance is dead.                                              *)
MainEntered(s) == At("main") /\ ctl' = <<Lua(s), MainDone(s)>> \o Tail(ctl)

MainStartsOnce ==
  [][\A s \in begun : MainEntered(s) => s \in dead \ mains]_vars

(* "the script is no longer active" (script.h:71): no Lua code of a dead   *)
(* instance is started.                                                    *)
LuaCalls(stack, s) == Cardinality({i \in DOMAIN stack : stack[i] = Lua(s)})

DeadIsInactive ==
  [][\A s \in dead : LuaCalls(ctl', s) <= LuaCalls(ctl, s)]_vars
============================================================================
