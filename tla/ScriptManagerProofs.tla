------------------------ MODULE ScriptManagerProofs ------------------------
(***************************************************************************)
(* The life of script instances for any number of files, commands and      *)
(* instances, and any nesting of calls: nothing on the call stack has been *)
(* freed, what has failed is unloaded, the main function of a living       *)
(* instance is entered once, the tables name instances that exist, a       *)
(* reload starts the file again.                                           *)
(***************************************************************************)
EXTENDS ScriptManager, FiniteSetTheorems, TLAPS

(* The calls on the stack by what they carry. *)
ScriptOps == {"lua", "handled", "main", "maindone", "exited", "bury", "ran",
              "started", "register", "destroy", "exit", "cmddone"}

Frames ==
       [op : {"lua", "handled", "main", "maindone", "exited", "bury", "ran"}, s : Ids]
  \cup [op : {"started", "register"}, s : Ids, once : BOOLEAN]
  \cup [op : {"destroy", "exit"}, s : Ids, how : {"error", "normal", "quit"}]
  \cup [op : {"cmddone"}, n : Names, s : Ids]
  \cup [op : Loops, todo : SUBSET Ids]
  \cup [op : {"load", "create"}, p : Paths, once : BOOLEAN]
  \cup [op : {"pushload"}, p : Paths]
  \cup [op : {"queue"}, i : Nat \ {0}]
  \cup [op : {"loadall"}, ps : SUBSET Paths]
  \cup [op : {"fire", "startmains", "live", "frame", "reloaded", "quit", "clear"}]

Actions ==
       [type : {"unload", "reload", "perform_real_unload"}, id : Ids]
  \cup [type : {"load"}, path : Paths]

(* What runs "after exiting all lua contexts", and what may be below it. *)
Base == {"queue", "mains", "loadall", "frame", "startmains", "clear"}
Outer(c) ==
  /\ c.op \in {"queue", "frame", "startmains", "live", "reloaded", "loadall", "quit",
               "clear", "fire"}
  /\ c.op = "queue" => c.i = 1

(* The calls on the way to a started main function, in their order. *)
MainOps == {"started", "register", "main", "maindone"}
NotYet  == {"started", "register", "maindone"}

(* A call stack that fits the instances that live, those whose main has    *)
(* been started, and the length of the queue.                              *)
InUse(st, live) ==
  \A i \in DOMAIN st : st[i].op \in ScriptOps => st[i].s \in live
Outside(st) ==
  \A i, j \in DOMAIN st : i < j /\ st[i].op \in Base => Outer(st[j])
InQueue(st, n) ==
  \A i \in DOMAIN st : st[i].op = "queue" => st[i].i <= n + 1
OnceEach(st) ==
  \A i, j \in DOMAIN st :
    st[i].op \in MainOps /\ st[j].op \in MainOps /\ st[i].s = st[j].s => i = j
NotStarted(st, started) ==
  \A i \in DOMAIN st : st[i].op \in NotYet => st[i].s \notin started
Sound(st, live, started, n) ==
  InUse(st, live) /\ Outside(st) /\ InQueue(st, n) /\ OnceEach(st) /\ NotStarted(st, started)

(* An instance that is gone owns no command. *)
OwnersLive == \A s \in Ids \ scripts : owned[s] = {}

IInv ==
  /\ TypeOK
  /\ ctl \in Seq(Frames)
  /\ queue \in Seq(Actions)
  /\ Sound(ctl, scripts, mains, Len(queue))
  /\ TablesNameLive
  /\ OwnersLive
  /\ FailedIsUnloaded

USE ScriptManagerAssumption DEF ScriptManagerAssumption

----------------------------------------------------------------------------
(* Sequences of calls. *)
Of(ops) == {ops[k] : k \in DOMAIN ops}

LEMMA ShortOps ==
  /\ Of(<<>>) = {} /\ <<>> \in Seq(Frames)
  /\ \A a \in Frames : Of(<<a>>) = {a} /\ <<a>> \in Seq(Frames)
  /\ \A a, b \in Frames : Of(<<a, b>>) = {a, b} /\ <<a, b>> \in Seq(Frames)
  /\ \A a, b, c \in Frames : Of(<<a, b, c>>) = {a, b, c} /\ <<a, b, c>> \in Seq(Frames)
  <1>1. Of(<<>>) = {} /\ <<>> \in Seq(Frames)
    BY DEF Of
  <1>2. ASSUME NEW a \in Frames PROVE Of(<<a>>) = {a} /\ <<a>> \in Seq(Frames)
    <2>1. DOMAIN <<a>> = {1} /\ <<a>>[1] = a
      OBVIOUS
    <2> QED
      BY <2>1 DEF Of
  <1>3. ASSUME NEW a \in Frames, NEW b \in Frames
        PROVE  Of(<<a, b>>) = {a, b} /\ <<a, b>> \in Seq(Frames)
    <2>1. DOMAIN <<a, b>> = {1, 2} /\ <<a, b>>[1] = a /\ <<a, b>>[2] = b
      OBVIOUS
    <2> QED
      BY <2>1 DEF Of
  <1>4. ASSUME NEW a \in Frames, NEW b \in Frames, NEW c \in Frames
        PROVE  Of(<<a, b, c>>) = {a, b, c} /\ <<a, b, c>> \in Seq(Frames)
    <2>1. /\ DOMAIN <<a, b, c>> = {1, 2, 3}
          /\ <<a, b, c>>[1] = a /\ <<a, b, c>>[2] = b /\ <<a, b, c>>[3] = c
      OBVIOUS
    <2> QED
      BY <2>1 DEF Of
  <1> QED
    BY <1>1, <1>2, <1>3, <1>4

LEMMA Joined ==
  ASSUME NEW a, NEW b, NEW c
  PROVE  /\ <<>> \o <<a>> = <<a>> /\ <<a>> \o <<>> = <<a>>
         /\ <<a>> \o <<b>> = <<a, b>> /\ <<a, b>> \o <<c>> = <<a, b, c>>
  <1> DEFINE S == {a, b, c}
  <1>1. /\ <<a>> \in Seq(S) /\ <<b>> \in Seq(S) /\ <<c>> \in Seq(S)
        /\ <<a, b>> \in Seq(S) /\ <<>> \in Seq(S)
    OBVIOUS
  <1> HIDE DEF S
  <1>2. <<>> \o <<a>> = <<a>> /\ <<a>> \o <<>> = <<a>>
    BY <1>1
  <1>3. <<a>> \o <<b>> = <<a, b>>
    <2> DEFINE t == <<a>> \o <<b>>
    <2>1. t \in Seq(S) /\ Len(t) = 2 /\ t[1] = a /\ t[2] = b
      BY <1>1
    <2> HIDE DEF t
    <2>2. t = <<t[1], t[2]>>
      BY <2>1
    <2> QED
      BY <2>1, <2>2 DEF t
  <1>4. <<a, b>> \o <<c>> = <<a, b, c>>
    <2> DEFINE t == <<a, b>> \o <<c>>
    <2>1. t \in Seq(S) /\ Len(t) = 3 /\ t[1] = a /\ t[2] = b /\ t[3] = c
      BY <1>1
    <2> HIDE DEF t
    <2>2. t = <<t[1], t[2], t[3]>>
      BY <2>1
    <2> QED
      BY <2>1, <2>2 DEF t
  <1> QED
    BY <1>2, <1>3, <1>4

(* A sequence whose head is replaced by ops; the rest stays. *)
LEMMA Spliced ==
  ASSUME NEW S, NEW st \in Seq(S), st # <<>>, NEW ops \in Seq(S), NEW t, t = ops \o Tail(st)
  PROVE  /\ t \in Seq(S)
         /\ \A k \in DOMAIN ops : k \in DOMAIN t /\ t[k] = ops[k]
         /\ \A k \in DOMAIN st \ {1} : /\ k + Len(ops) - 1 \in DOMAIN t
                                       /\ t[k + Len(ops) - 1] = st[k]
         /\ \A k \in DOMAIN t \ DOMAIN ops : /\ k - Len(ops) + 1 \in DOMAIN st \ {1}
                                             /\ t[k] = st[k - Len(ops) + 1]
  <1>1. Tail(st) \in Seq(S) /\ Len(Tail(st)) = Len(st) - 1 /\ Len(st) > 0
    OBVIOUS
  <1>2. \A k \in 1 .. Len(st) - 1 : Tail(st)[k] = st[k + 1]
    OBVIOUS
  <1>3. ops \o Tail(st) \in Seq(S)
    BY <1>1
  <1>4. Len(ops \o Tail(st)) = Len(ops) + Len(st) - 1
    BY <1>1
  <1>5. \A k \in DOMAIN ops : k \in DOMAIN (ops \o Tail(st)) /\ (ops \o Tail(st))[k] = ops[k]
    BY <1>1
  <1>6. ASSUME NEW k \in DOMAIN st \ {1}
        PROVE  /\ k + Len(ops) - 1 \in DOMAIN (ops \o Tail(st))
               /\ (ops \o Tail(st))[k + Len(ops) - 1] = st[k]
    <2>1. k \in 2 .. Len(st)
      OBVIOUS
    <2>2. (ops \o Tail(st))[Len(ops) + (k - 1)] = Tail(st)[k - 1]
      BY <1>1, <2>1
    <2>3. Len(ops) \in Nat /\ k + Len(ops) - 1 = Len(ops) + (k - 1)
      BY <2>1
    <2>4. Tail(st)[k - 1] = st[k]
      BY <1>2, <2>1
    <2>5. k + Len(ops) - 1 \in 1 .. Len(ops \o Tail(st))
      BY <1>1, <1>4, <2>1, <2>3
    <2>6. DOMAIN (ops \o Tail(st)) = 1 .. Len(ops \o Tail(st))
      BY <1>3
    <2> QED
      BY <2>2, <2>3, <2>4, <2>5, <2>6
  <1>7. ASSUME NEW k \in DOMAIN (ops \o Tail(st)) \ DOMAIN ops
        PROVE  /\ k - Len(ops) + 1 \in DOMAIN st \ {1}
               /\ (ops \o Tail(st))[k] = st[k - Len(ops) + 1]
    <2>1. /\ DOMAIN ops = 1 .. Len(ops) /\ Len(ops) \in Nat
          /\ DOMAIN st = 1 .. Len(st) /\ Len(st) \in Nat
      OBVIOUS
    <2>2. k \in Len(ops) + 1 .. Len(ops) + Len(st) - 1
      BY <1>1, <1>3, <1>4, <2>1
    <2>3. k - Len(ops) + 1 \in DOMAIN st \ {1}
      BY <2>1, <2>2
    <2>4. (k - Len(ops) + 1) + Len(ops) - 1 = k
      <3>1. k \in Int /\ Len(ops) \in Int
        BY ONLY <2>1, <2>2
      <3> QED
        BY ONLY <3>1
    <2> QED
      BY <1>6, <2>3, <2>4
  <1> QED
    BY <1>3, <1>5, <1>6, <1>7

(* A call is replaced by the calls it makes; the ones below stay. *)
LEMMA Replaced ==
  ASSUME NEW st \in Seq(Frames), st # <<>>, NEW ops \in Seq(Frames)
  PROVE  LET t == ops \o Tail(st) IN
         /\ t \in Seq(Frames)
         /\ \A k \in DOMAIN ops : k \in DOMAIN t /\ t[k] = ops[k]
         /\ \A k \in DOMAIN st \ {1} : /\ k + Len(ops) - 1 \in DOMAIN t
                                       /\ t[k + Len(ops) - 1] = st[k]
         /\ \A k \in DOMAIN t \ DOMAIN ops : /\ k - Len(ops) + 1 \in DOMAIN st \ {1}
                                             /\ t[k] = st[k - Len(ops) + 1]
  <1> DEFINE t == ops \o Tail(st)
  <1>1. t = ops \o Tail(st)
    OBVIOUS
  <1> HIDE DEF t
  <1>2. /\ t \in Seq(Frames)
        /\ \A k \in DOMAIN ops : k \in DOMAIN t /\ t[k] = ops[k]
        /\ \A k \in DOMAIN st \ {1} : k + Len(ops) - 1 \in DOMAIN t /\ t[k + Len(ops) - 1] = st[k]
        /\ \A k \in DOMAIN t \ DOMAIN ops : /\ k - Len(ops) + 1 \in DOMAIN st \ {1}
                                            /\ t[k] = st[k - Len(ops) + 1]
    BY <1>1, Spliced, SMTT(60)
  <1> QED
    BY <1>1, <1>2

(* What is on a stack after its top was replaced. *)
LEMMA ReplacedOf ==
  ASSUME NEW st \in Seq(Frames), st # <<>>, NEW ops \in Seq(Frames)
  PROVE  LET t == ops \o Tail(st) IN
         /\ t \in Seq(Frames)
         /\ \A i \in DOMAIN t : t[i] \in Of(ops) \/ \E j \in DOMAIN st \ {1} : t[i] = st[j]
         /\ \A c \in Of(ops) : \E i \in DOMAIN t : t[i] = c
         /\ \A j \in DOMAIN st \ {1} : \E i \in DOMAIN t : t[i] = st[j]
  <1> DEFINE t == ops \o Tail(st)
  <1>1. t \in Seq(Frames) /\ \A i \in DOMAIN ops : i \in DOMAIN t /\ t[i] = ops[i]
    BY Replaced
  <1>2. ASSUME NEW j \in DOMAIN st \ {1} PROVE \E i \in DOMAIN t : t[i] = st[j]
    <2>0. \A k \in DOMAIN st \ {1} :
            k + Len(ops) - 1 \in DOMAIN t /\ t[k + Len(ops) - 1] = st[k]
      BY Replaced
    <2>1. j + Len(ops) - 1 \in DOMAIN t /\ t[j + Len(ops) - 1] = st[j]
      BY <2>0, Zenon
    <2> QED
      BY <2>1
  <1>3. ASSUME NEW i \in DOMAIN t \ DOMAIN ops PROVE \E j \in DOMAIN st \ {1} : t[i] = st[j]
    <2>1. i - Len(ops) + 1 \in DOMAIN st \ {1} /\ t[i] = st[i - Len(ops) + 1]
      BY Replaced
    <2> QED
      BY <2>1
  <1> HIDE DEF t
  <1>4. \A i \in DOMAIN t : t[i] \in Of(ops) \/ \E j \in DOMAIN st \ {1} : t[i] = st[j]
    BY <1>1, <1>3 DEF Of
  <1> QED
    BY <1>1, <1>2, <1>4 DEF t, Of

(* Calls made within Lua, or on its way: they fit on whatever was fit. *)
LEMMA SoundNested ==
  ASSUME NEW st \in Seq(Frames), st # <<>>, NEW ops \in Seq(Frames),
         NEW live, NEW live2, NEW started, NEW started2, NEW n \in Nat, NEW n2 \in Nat,
         Sound(st, live, started, n), n <= n2, live \subseteq live2,
         \A c \in Of(ops) : c.op \in ScriptOps => c.s \in live2,
         \A c \in Of(ops) : c.op \notin Base,
         \A i, j \in DOMAIN ops : ops[i].op \in MainOps /\ ops[j].op \in MainOps => i = j,
         \A c \in Of(ops) : c.op \in MainOps =>
           \/ st[1].op \in MainOps /\ c.s = st[1].s
           \/ \A j \in DOMAIN st : st[j].op \in MainOps => st[j].s # c.s,
         \A c \in Of(ops) : c.op \in NotYet => c.s \notin started2,
         \A s \in started2 \ started :
           /\ st[1].op \in MainOps /\ st[1].s = s
           /\ \A c \in Of(ops) : c.op \notin MainOps
  PROVE  Sound(ops \o Tail(st), live2, started2, n2)
  <1> DEFINE t == ops \o Tail(st)
  <1>1. /\ t \in Seq(Frames)
        /\ \A i \in DOMAIN t : t[i] \in Of(ops) \/ \E j \in DOMAIN st \ {1} : t[i] = st[j]
    BY ReplacedOf
  <1>2. /\ \A k \in DOMAIN ops : k \in DOMAIN t /\ t[k] = ops[k]
        /\ \A k \in DOMAIN t \ DOMAIN ops : /\ k - Len(ops) + 1 \in DOMAIN st \ {1}
                                            /\ t[k] = st[k - Len(ops) + 1]
    BY ONLY st \in Seq(Frames), st # <<>>, ops \in Seq(Frames), Replaced
  <1>3. /\ DOMAIN ops = 1 .. Len(ops) /\ Len(ops) \in Nat
        /\ DOMAIN st = 1 .. Len(st) /\ Len(st) \in Nat /\ 1 \in DOMAIN st
    OBVIOUS
  <1>4. DOMAIN t = 1 .. Len(t) /\ Len(t) \in Nat
    BY <1>1
  <1> HIDE DEF t
  <1>5. InUse(t, live2)
    BY <1>1 DEF Sound, InUse
  <1>6. Outside(t)
    <2> SUFFICES ASSUME NEW i \in DOMAIN t, NEW j \in DOMAIN t, i < j, t[i].op \in Base
                 PROVE  Outer(t[j])
      BY DEF Outside
    <2>1. i \notin DOMAIN ops
      BY <1>2 DEF Of
    <2>2. j \notin DOMAIN ops
      BY <1>3, <1>4, <2>1
    <2> DEFINE a == i - Len(ops) + 1
               b == j - Len(ops) + 1
    <2>3. a \in DOMAIN st /\ b \in DOMAIN st /\ t[i] = st[a] /\ t[j] = st[b]
      BY <1>2, <2>1, <2>2
    <2>4. a < b
      BY <1>3, <1>4
    <2> QED
      BY <2>3, <2>4 DEF Sound, Outside
  <1>7. InQueue(t, n2)
    <2> SUFFICES ASSUME NEW i \in DOMAIN t, t[i].op = "queue" PROVE t[i].i <= n2 + 1
      BY DEF InQueue
    <2>1. PICK j \in DOMAIN st : t[i] = st[j]
      BY <1>1 DEF Base
    <2>2. st[j].i <= n + 1 /\ st[j].i \in Nat
      <3>1. st[j] \in Frames /\ st[j].op = "queue"
        BY <2>1
      <3> QED
        BY <2>1, <3>1 DEF Sound, InQueue, Frames, Loops
    <2> QED
      BY <2>1, <2>2
  <1>8. OnceEach(t)
    <2> SUFFICES ASSUME NEW i \in DOMAIN t, NEW j \in DOMAIN t, i <= j,
                        t[i].op \in MainOps, t[j].op \in MainOps, t[i].s = t[j].s
                 PROVE  i = j
      BY <1>4 DEF OnceEach
    <2>1. CASE j \in DOMAIN ops
      <3>1. i \in DOMAIN ops
        BY <1>3, <1>4, <2>1
      <3> QED
        BY <1>2, <2>1, <3>1
    <2>2. CASE j \notin DOMAIN ops
      <3> DEFINE b == j - Len(ops) + 1
      <3>1. b \in DOMAIN st \ {1} /\ t[j] = st[b]
        BY <1>2, <2>2
      <3>2. CASE i \in DOMAIN ops
        <4>1. t[i] \in Of(ops)
          BY <1>2, <3>2 DEF Of
        <4>2. CASE st[1].op \in MainOps /\ t[i].s = st[1].s
          BY <1>3, <3>1, <4>2 DEF Sound, OnceEach
        <4>3. CASE \A k \in DOMAIN st : st[k].op \in MainOps => st[k].s # t[i].s
          BY <3>1, <4>3
        <4> QED
          BY <4>1, <4>2, <4>3
      <3>3. CASE i \notin DOMAIN ops
        <4> DEFINE a == i - Len(ops) + 1
        <4>1. a \in DOMAIN st /\ t[i] = st[a]
          BY <1>2, <3>3
        <4>2. a = b
          BY <3>1, <4>1 DEF Sound, OnceEach
        <4> QED
          BY <1>3, <1>4, <4>2
      <3> QED
        BY <3>2, <3>3
    <2> QED
      BY <2>1, <2>2
  <1>9. NotStarted(t, started2)
    <2> SUFFICES ASSUME NEW i \in DOMAIN t, t[i].op \in NotYet, t[i].s \in started2 PROVE FALSE
      BY DEF NotStarted
    <2>1. PICK j \in DOMAIN st \ {1} : t[i] = st[j]
      BY <1>1
    <2>2. st[j].s \notin started
      BY <2>1 DEF Sound, NotStarted
    <2>3. st[1].op \in MainOps /\ st[1].s = st[j].s
      BY <2>1, <2>2
    <2> QED
      BY <1>3, <2>1, <2>3 DEF Sound, OnceEach, MainOps, NotYet
  <1> QED
    BY <1>5, <1>6, <1>7, <1>8, <1>9 DEF Sound, t

(* Calls made after "exiting all lua contexts". *)
LEMMA SoundBase ==
  ASSUME NEW st \in Seq(Frames), st # <<>>, NEW ops \in Seq(Frames),
         NEW live, NEW live2, NEW started, NEW started2, NEW n \in Nat, NEW n2 \in Nat,
         Sound(st, live, started, n), st[1].op \in Base,
         InUse(ops, live2), Outside(ops), InQueue(ops, n2), OnceEach(ops),
         NotStarted(ops, started2)
  PROVE  Sound(ops \o Tail(st), live2, started2, n2)
  <1> DEFINE t == ops \o Tail(st)
  <1>1. t \in Seq(Frames)
    BY ReplacedOf
  <1>2. /\ \A k \in DOMAIN ops : k \in DOMAIN t /\ t[k] = ops[k]
        /\ \A k \in DOMAIN t \ DOMAIN ops : /\ k - Len(ops) + 1 \in DOMAIN st \ {1}
                                            /\ t[k] = st[k - Len(ops) + 1]
    BY Replaced
  <1>3. /\ DOMAIN ops = 1 .. Len(ops) /\ Len(ops) \in Nat
        /\ DOMAIN st = 1 .. Len(st) /\ Len(st) \in Nat /\ 1 \in DOMAIN st
    OBVIOUS
  <1>4. DOMAIN t = 1 .. Len(t) /\ Len(t) \in Nat
    BY <1>1
  <1> HIDE DEF t
  <1>5. \A j \in DOMAIN st \ {1} : Outer(st[j])
    BY <1>3 DEF Sound, Outside
  <1>6. \A i \in DOMAIN t \ DOMAIN ops :
          Outer(t[i]) /\ t[i].op \notin ScriptOps \cup MainOps \cup NotYet
    BY <1>2, <1>5 DEF Outer, ScriptOps, MainOps, NotYet
  <1>7. \A i, j \in DOMAIN t : i < j /\ j \in DOMAIN ops => i \in DOMAIN ops
    BY <1>3, <1>4
  <1>8. InUse(t, live2)
    BY <1>2, <1>6 DEF InUse
  <1>9. Outside(t)
    BY <1>2, <1>6, <1>7 DEF Outside
  <1>10. InQueue(t, n2)
    BY <1>2, <1>6 DEF InQueue, Outer
  <1>11. OnceEach(t)
    BY <1>2, <1>6 DEF OnceEach
  <1>12. NotStarted(t, started2)
    BY <1>2, <1>6 DEF NotStarted
  <1> QED
    BY <1>8, <1>9, <1>10, <1>11, <1>12 DEF Sound, t

----------------------------------------------------------------------------
(* What a call carries, and which calls there are. *)
LEMMA FrameFacts ==
  ASSUME NEW c \in Frames
  PROVE  /\ c.op \in ScriptOps => c.s \in Ids
         /\ c.op \in Loops => c.todo \subseteq Ids
         /\ c.op \in {"load", "create", "pushload"} => c.p \in Paths
         /\ c.op \in {"load", "create", "started", "register"} => c.once \in BOOLEAN
         /\ c.op \in {"destroy", "exit"} => c.how \in {"error", "normal", "quit"}
         /\ c.op = "queue" => c.i \in Nat \ {0}
         /\ c.op = "loadall" => c.ps \subseteq Paths
         /\ "s" \in DOMAIN c => c.op \in ScriptOps
  BY DEF Frames, ScriptOps, Loops

LEMMA OpsTypes ==
  /\ \A s \in Ids :
       /\ Lua(s) \in Frames /\ Handled(s) \in Frames /\ Main(s) \in Frames
       /\ MainDone(s) \in Frames /\ Exited(s) \in Frames /\ Bury(s) \in Frames
       /\ Ran(s) \in Frames
  /\ \A s \in Ids, once \in BOOLEAN : Started(s, once) \in Frames /\ Register(s, once) \in Frames
  /\ \A s \in Ids, how \in {"error", "normal", "quit"} :
       Destroy(s, how) \in Frames /\ Exit(s, how) \in Frames
  /\ \A s \in Ids, n \in Names : CmdDone(n, s) \in Frames
  /\ \A todo \in SUBSET Ids :
       /\ Each(todo) \in Frames /\ Mains(todo) \in Frames /\ RunScripts(todo) \in Frames
       /\ ReloadRun(todo) \in Frames /\ QuitAll(todo) \in Frames
  /\ \A p \in Paths, once \in BOOLEAN : Load(p, once) \in Frames /\ Create(p, once) \in Frames
  /\ \A p \in Paths : [op |-> "pushload", p |-> p] \in Frames
  /\ \A i \in Nat \ {0} : Queue(i) \in Frames
  /\ \A ps \in SUBSET Paths : LoadAll(ps) \in Frames
  /\ Fire \in Frames
  /\ \A what \in {"startmains", "live", "frame", "reloaded", "quit", "clear"} :
       Then(what) \in Frames
  BY DEF Frames, Loops, Lua, Handled, Main, MainDone, Exited, Bury, Ran, Started, Register,
         Destroy, Exit, CmdDone, Each, Mains, RunScripts, ReloadRun, QuitAll, Load, Create,
         Queue, LoadAll, Fire, Then

LEMMA TopFacts ==
  ASSUME IInv, NEW op, At(op)
  PROVE  /\ ctl # <<>> /\ 1 \in DOMAIN ctl /\ Top = ctl[1] /\ Top \in Frames /\ Top.op = op
         /\ op \in ScriptOps => Top.s \in scripts
  <1>1. ctl \in Seq(Frames) /\ ctl # <<>> /\ Top.op = op
    BY DEF IInv, At
  <1>2. 1 \in DOMAIN ctl /\ Top = ctl[1] /\ Top \in Frames
    BY <1>1 DEF Top
  <1> QED
    BY <1>1, <1>2 DEF IInv, Sound, InUse

LEMMA Typed ==
  ASSUME IInv
  PROVE  /\ scripts \subseteq Ids /\ nextScript \in Int /\ \A s \in scripts : s < nextScript
         /\ dead \subseteq scripts /\ dying \subseteq scripts /\ mains \subseteq scripts
         /\ path \in [Ids -> Paths] /\ acts \in 0 .. MaxActs
         /\ Len(queue) \in Nat
  BY DEF IInv, TypeOK, Ids

----------------------------------------------------------------------------
(* The rest of the invariant, for a step that replaces the top. *)
Ends(c, s) == c.op \in {"destroy", "bury"} /\ c.s = s

Grown ==
  /\ queue' \in Seq(Actions) /\ Len(queue) <= Len(queue')
  /\ \A k \in DOMAIN queue : queue'[k] = queue[k]

(* The stack, but for what its loops have still to visit. *)
Alike(st) ==
  /\ st \in Seq(Frames) /\ DOMAIN st = DOMAIN ctl
  /\ \A i \in DOMAIN ctl : /\ st[i].op = ctl[i].op
                           /\ ctl[i].op \notin Loops => st[i] = ctl[i]

LEMMA AlikeItself == IInv => Alike(ctl)
  BY DEF IInv, Alike

LEMMA DyingKept ==
  ASSUME IInv, ctl # <<>>, NEW st, Alike(st), NEW ops \in Seq(Frames), ctl' = ops \o Tail(st),
         \A s \in dying' \ dead' : \/ \E c \in Of(ops) : Ends(c, s)
                                   \/ s \in dying \ dead /\ ~ Ends(Top, s)
  PROVE  DyingIsDestroyed'
  <1>1. /\ ctl \in Seq(Frames) /\ 1 \in DOMAIN ctl /\ Top = ctl[1]
        /\ st \in Seq(Frames) /\ st # <<>>
    BY DEF IInv, Top, Alike
  <1>2. /\ \A c \in Of(ops) : \E i \in DOMAIN ctl' : ctl'[i] = c
        /\ \A j \in DOMAIN st \ {1} : \E i \in DOMAIN ctl' : ctl'[i] = st[j]
    <2> DEFINE t == ops \o Tail(st)
    <2>1. \A c \in Of(ops) : \E i \in DOMAIN t : t[i] = c
      BY <1>1, ReplacedOf
    <2>2. \A j \in DOMAIN st \ {1} : \E i \in DOMAIN t : t[i] = st[j]
      BY <1>1, ReplacedOf
    <2>3. ctl' = t
      OBVIOUS
    <2> HIDE DEF t
    <2> QED
      BY <2>1, <2>2, <2>3
  <1>3. ASSUME NEW s \in dying' \ dead' PROVE \E i \in DOMAIN ctl' : Ends(ctl'[i], s)
    <2>1. CASE \E c \in Of(ops) : Ends(c, s)
      BY <1>2, <2>1
    <2>2. CASE s \in dying \ dead /\ ~ Ends(Top, s)
      <3>1. PICK j \in DOMAIN ctl : Ends(ctl[j], s)
        BY <2>2 DEF IInv, FailedIsUnloaded, DyingIsDestroyed, Ends
      <3>2. j # 1
        BY <1>1, <2>2, <3>1
      <3>3. ctl[j].op \notin Loops
        BY <3>1 DEF Ends, Loops
      <3>4. j \in DOMAIN st /\ st[j] = ctl[j]
        BY <3>3 DEF Alike
      <3> QED
        BY <1>2, <3>1, <3>2, <3>4
    <2> QED
      BY <1>3, <2>1, <2>2
  <1> QED
    BY <1>3 DEF DyingIsDestroyed, Ends

LEMMA QueuedKept ==
  ASSUME IInv, ctl # <<>>, NEW st, Alike(st), NEW ops \in Seq(Frames), ctl' = ops \o Tail(st),
         Grown,
         \A c \in Of(ops) : c.op = "queue" => c.i = 1
  PROVE  \A s \in dead : StillQueued(RealUnload(s))'
  <1>1. /\ \A i \in DOMAIN ctl' : ctl'[i] \in Of(ops) \/ \E j \in DOMAIN st : ctl'[i] = st[j]
        /\ \A j \in DOMAIN st : st[j].op = "queue" => j \in DOMAIN ctl /\ st[j] = ctl[j]
    <2>1. st \in Seq(Frames) /\ st # <<>>
      BY DEF IInv, Alike
    <2>2. \A i \in DOMAIN ctl' : ctl'[i] \in Of(ops) \/ \E j \in DOMAIN st : ctl'[i] = st[j]
      BY <2>1, ReplacedOf
    <2>3. "queue" \notin Loops
      BY DEF Loops
    <2>4. \A j \in DOMAIN st : st[j].op = "queue" => j \in DOMAIN ctl /\ st[j] = ctl[j]
      BY <2>3 DEF Alike
    <2> QED
      BY <2>2, <2>4
  <1>2. ASSUME NEW s \in dead
        PROVE  \E k \in DOMAIN queue' : /\ queue'[k] = RealUnload(s)
                                        /\ \A i \in DOMAIN ctl' : ctl'[i].op = "queue" => ctl'[i].i <= k
    <2>1. PICK k \in DOMAIN queue : /\ queue[k] = RealUnload(s)
                                    /\ \A i \in DOMAIN ctl : ctl[i].op = "queue" => ctl[i].i <= k
      BY <1>2 DEF IInv, FailedIsUnloaded, DeadWillBeFreed, StillQueued
    <2>2. k \in Nat /\ k >= 1 /\ k \in DOMAIN queue' /\ queue'[k] = queue[k]
      BY <2>1 DEF IInv, Grown
    <2>3. ASSUME NEW i \in DOMAIN ctl', ctl'[i].op = "queue" PROVE ctl'[i].i <= k
      <3>1. CASE ctl'[i] \in Of(ops)
        BY <2>2, <2>3, <3>1
      <3>2. CASE \E j \in DOMAIN st : ctl'[i] = st[j]
        BY <1>1, <2>1, <2>3, <3>2
      <3> QED
        BY <1>1, <3>1, <3>2
    <2> QED
      BY <2>1, <2>2, <2>3
  <1> QED
    BY <1>2 DEF StillQueued, RealUnload

LEMMA DeadKept ==
  ASSUME IInv, ctl # <<>>, NEW st, Alike(st), NEW ops \in Seq(Frames), ctl' = ops \o Tail(st),
         dead' \subseteq dead, Grown,
         \A c \in Of(ops) : c.op = "queue" => c.i = 1
  PROVE  DeadWillBeFreed'
  <1>1. \A s \in dead : StillQueued(RealUnload(s))'
    BY QueuedKept
  <1> QED
    BY <1>1 DEF DeadWillBeFreed, RealUnload

LEMMA TablesKept ==
  ASSUME IInv, UNCHANGED <<registry, cmds>>
  PROVE  TablesNameLive' /\ OwnersLive'
  BY DEF IInv, registry, cmds, TablesNameLive, CommandsOwned, LoadedPathsExist, OwnersLive

(* What the members of the manager that are no part of the argument keep. *)
RestTyped ==
  /\ reloadLater' \in BOOLEAN /\ phase' \in {"boot", "live", "off"} /\ err' \in BOOLEAN
  /\ acts' \in 0 .. MaxActs

(* The calls most steps make: no walk over the queue and no main function. *)
LEMMA Nested ==
  ASSUME IInv, ctl # <<>>, NEW ops \in Seq(Frames), Continue(ops), RestTyped, Grown,
         UNCHANGED <<registry, dead, mains, begun, cmds>>, dying' \subseteq scripts,
         \A c \in Of(ops) : c.op \notin Base \cup MainOps,
         \A c \in Of(ops) : c.op \in ScriptOps => c.s \in scripts,
         \A s \in dying' : \/ s \in dying /\ ~ Ends(Top, s)
                           \/ \E c \in Of(ops) : Ends(c, s)
  PROVE  IInv'
  <1>1. ctl' = ops \o Tail(ctl) /\ ctl \in Seq(Frames)
    BY DEF Continue, IInv
  <1>2. ctl' \in Seq(Frames) /\ queue' \in Seq(Actions)
    BY <1>1, ReplacedOf DEF Grown
  <1>3. TypeOK'
    BY DEF IInv, TypeOK, RestTyped, registry, cmds
  <1>4. Sound(ctl', scripts', mains', Len(queue'))
    <2>1. Sound(ctl, scripts, mains, Len(queue)) /\ Len(queue) \in Nat /\ Len(queue') \in Nat
      BY <1>2 DEF IInv
    <2>2. scripts' = scripts /\ mains' = mains
      BY DEF registry
    <2>3. \A i \in DOMAIN ops : ops[i].op \notin MainOps
      BY DEF Of
    <2>4. \A c \in Of(ops) : c.op \notin Base /\ c.op \notin MainOps /\ c.op \notin NotYet
      BY DEF MainOps, NotYet
    <2> QED
      BY <1>1, <2>1, <2>2, <2>3, <2>4, SoundNested DEF Grown
  <1>5. DyingIsDestroyed'
    BY <1>1, AlikeItself, DyingKept
  <1>6. DeadWillBeFreed'
    BY <1>1, AlikeItself, DeadKept DEF Base
  <1> QED
    BY <1>2, <1>3, <1>4, <1>5, <1>6, TablesKept DEF IInv, FailedIsUnloaded

(* A step that leaves the call stack alone. *)
LEMMA StackKept ==
  ASSUME IInv, RestTyped, Grown, UNCHANGED <<registry, life, ctl>>, TypeOK',
         TablesNameLive', OwnersLive'
  PROVE  IInv'
  <1>1. Sound(ctl', scripts', mains', Len(queue'))
    <2>1. \A i \in DOMAIN ctl : ctl[i].op = "queue" => ctl[i].i \in Nat
      BY FrameFacts DEF IInv
    <2>2. InQueue(ctl, Len(queue'))
      BY <2>1 DEF IInv, Sound, InQueue, Grown
    <2> QED
      BY <2>2 DEF IInv, Sound, registry, life
  <1>2. DyingIsDestroyed'
    BY DEF IInv, FailedIsUnloaded, DyingIsDestroyed, life
  <1>3. DeadWillBeFreed'
    <2> SUFFICES ASSUME NEW s \in dead PROVE StillQueued(RealUnload(s))'
      BY DEF DeadWillBeFreed, life, RealUnload
    <2>1. StillQueued(RealUnload(s))
      BY DEF IInv, FailedIsUnloaded, DeadWillBeFreed
    <2>2. DOMAIN queue \subseteq DOMAIN queue'
      BY DEF IInv, Grown
    <2> QED
      BY <2>1, <2>2 DEF StillQueued, Grown, RealUnload
  <1> QED
    BY <1>1, <1>2, <1>3 DEF IInv, FailedIsUnloaded, Grown

----------------------------------------------------------------------------
(* Nested for the steps that change nothing else, and for those that have  *)
(* just seen Lua code of a script fail.                                    *)
Fits(c) == c.op \notin Base \cup MainOps /\ (c.op \in ScriptOps => c.s \in scripts)

LEMMA Fitting ==
  ASSUME IInv
  PROVE  /\ \A s \in scripts :
              /\ Fits(Lua(s)) /\ Fits(Handled(s)) /\ Fits(Exited(s)) /\ Fits(Bury(s)) /\ Fits(Ran(s))
              /\ \A how : Fits(Destroy(s, how)) /\ Fits(Exit(s, how))
              /\ \A n : Fits(CmdDone(n, s))
         /\ \A todo : /\ Fits(Each(todo)) /\ Fits(RunScripts(todo)) /\ Fits(ReloadRun(todo))
                      /\ Fits(QuitAll(todo))
         /\ \A p : \A once : Fits(Load(p, once)) /\ Fits(Create(p, once))
         /\ \A p : Fits([op |-> "pushload", p |-> p])
         /\ Fits(Fire)
  BY DEF Fits, Base, MainOps, ScriptOps, Lua, Handled, Exited, Bury, Ran, Destroy, Exit,
         CmdDone, Each, RunScripts, ReloadRun, QuitAll, Load, Create, Fire

LEMMA Quiet ==
  ASSUME IInv, NEW op, At(op), op \notin {"destroy", "bury"}, NEW ops \in Seq(Frames),
         Continue(ops), UNCHANGED <<registry, life, cmds, queue>>, RestTyped,
         \A c \in Of(ops) : Fits(c)
  PROVE  IInv'
  <1>1. Grown
    BY DEF Grown, IInv
  <1>2. UNCHANGED <<dead, mains, begun>> /\ dying' = dying /\ dying \subseteq scripts
    BY Typed DEF life
  <1>3. ctl # <<>> /\ Top.op = op
    BY TopFacts
  <1> QED
    BY <1>1, <1>2, <1>3, Nested DEF Fits, Ends

LEMMA Failing ==
  ASSUME IInv, NEW op \in ScriptOps \ {"destroy", "bury"}, At(op),
         NEW last \in {Destroy(Top.s, "error"), Bury(Top.s)}, Continue(<<Fire, last>>),
         dying' = dying \cup {Top.s},
         UNCHANGED <<registry, dead, mains, begun, cmds, queue>>, RestTyped
  PROVE  IInv'
  <1>1. Grown
    BY DEF Grown, IInv
  <1>2. ctl # <<>> /\ Top.op = op /\ Top.s \in scripts
    BY TopFacts
  <1>3. dying' \subseteq scripts
    BY <1>2, Typed
  <1>4. last \in Frames /\ Fire \in Frames /\ Fits(last) /\ Fits(Fire)
    BY <1>2, Typed, OpsTypes, Fitting
  <1>5. <<Fire, last>> \in Seq(Frames) /\ Of(<<Fire, last>>) = {Fire, last}
    BY <1>4, ShortOps
  <1>6. Ends(last, Top.s)
    BY DEF Ends, Destroy, Bury
  <1>7. \A s \in dying' : \/ s \in dying /\ ~ Ends(Top, s)
                          \/ \E c \in Of(<<Fire, last>>) : Ends(c, s)
    BY <1>2, <1>5, <1>6 DEF Ends
  <1>8. \A c \in Of(<<Fire, last>>) : Fits(c)
    BY <1>4, <1>5
  <1> HIDE DEF Fits
  <1>9. /\ \A c \in Of(<<Fire, last>>) : c.op \notin Base \cup MainOps
        /\ \A c \in Of(<<Fire, last>>) : c.op \in ScriptOps => c.s \in scripts
    BY <1>8 DEF Fits
  <1> QED
    BY <1>1, <1>2, <1>3, <1>5, <1>7, <1>9, Nested

(* A call made from the top is the top, called by what it goes on with. *)
LEMMA Calling ==
  ASSUME IInv, ctl # <<>>, NEW a \in Frames
  PROVE  /\ <<a>> \o ctl = <<a, Top>> \o Tail(ctl)
         /\ \A b \in Frames : <<a, b>> \o ctl = <<a, b, Top>> \o Tail(ctl)
  <1>1. ctl \in Seq(Frames) /\ Top \in Frames /\ ctl = <<Top>> \o Tail(ctl)
    BY DEF IInv, Top
  <1> QED
    BY <1>1

LEMMA Rest ==
  ASSUME IInv
  PROVE  /\ UNCHANGED <<reloadLater, phase, err, acts>> => RestTyped
         /\ UNCHANGED <<reloadLater, phase, acts>> /\ err' \in BOOLEAN => RestTyped
         /\ UNCHANGED <<reloadLater, phase, err>> /\ Spend => RestTyped
         /\ UNCHANGED <<reloadLater, phase>> /\ err' \in BOOLEAN /\ Spend => RestTyped
         /\ UNCHANGED <<phase, err>> /\ reloadLater' \in BOOLEAN /\ Spend => RestTyped
  BY DEF IInv, TypeOK, RestTyped, Spend

LEMMA LuaCallsInv ==
  ASSUME IInv,
         \/ LuaReturn \/ LuaFail \/ LuaPrint
         \/ \E p \in Paths : LuaImport(p)
  PROVE  IInv'
  <1> USE Rest, ShortOps, OpsTypes, Fitting
  <1>1. CASE LuaReturn \/ LuaFail
    <2>1. Continue(<<>>) /\ At("lua") /\ RestTyped
      BY <1>1 DEF LuaReturn, LuaFail
    <2> QED
      BY <1>1, <2>1, Quiet DEF LuaReturn, LuaFail
  <1>2. ASSUME NEW a \in {Fire} \cup {Load(p, FALSE) : p \in Paths}, At("lua"), Spend,
               Call(<<a>>), UNCHANGED <<registry, life, cmds, queue, reloadLater, phase, err>>
        PROVE  IInv'
    <2>1. Top \in Frames /\ Fits(Top) /\ ctl # <<>>
      BY <1>2, TopFacts DEF Fits, Base, MainOps, ScriptOps
    <2>2. a \in Frames /\ Fits(a)
      <3>1. CASE a = Fire
        BY <3>1
      <3>2. ASSUME NEW p \in Paths, a = Load(p, FALSE) PROVE a \in Frames /\ Fits(a)
        BY <3>2
      <3> QED
        BY <3>1, <3>2
    <2>3. Continue(<<a, Top>>)
      BY <1>2, <2>1, <2>2, Calling DEF Call, Continue
    <2>4. <<a, Top>> \in Seq(Frames) /\ \A c \in Of(<<a, Top>>) : Fits(c)
      BY <2>1, <2>2
    <2>5. RestTyped
      BY <1>2
    <2> QED
      BY <1>2, <2>3, <2>4, <2>5, Quiet
  <1>3. CASE LuaPrint
    BY <1>2, <1>3 DEF LuaPrint
  <1>4. ASSUME NEW p \in Paths, LuaImport(p) PROVE IInv'
    BY <1>2, <1>4 DEF LuaImport
  <1> QED
    BY <1>1, <1>3, <1>4

(* register_command, unregister_command, and what only asks for later.     *)
LEMMA LuaEffectsInv ==
  ASSUME IInv,
         \/ \E a \in Requests : LuaRequest(a)
         \/ LuaReloadScripts \/ GameRestart
         \/ \E n \in Names : LuaRegister(n) \/ LuaUnregister(n)
  PROVE  IInv'
  <1>0. scripts \subseteq Ids /\ dead \subseteq scripts /\ queue \in Seq(Actions)
    BY Typed DEF IInv
  <1>g. queue' = queue => Grown
    BY <1>0 DEF Grown
  <1>1. ASSUME NEW a \in Requests, LuaRequest(a) PROVE IInv'
    <2>1. a \in Actions
      BY <1>0 DEF Requests, Actions, Unload, Reload, LoadFile
    <2>2. queue' = Append(queue, a)
      BY <1>1 DEF LuaRequest
    <2>3. Grown
      BY <1>0, <2>1, <2>2 DEF Grown
    <2>4. UNCHANGED <<registry, life, cmds, ctl, reloadLater, phase, err>> /\ Spend
      BY <1>1 DEF LuaRequest
    <2>5. RestTyped /\ TypeOK'
      BY <2>4, Rest DEF IInv, TypeOK, RestTyped, registry, life, cmds
    <2> QED
      BY <2>3, <2>4, <2>5, TablesKept, StackKept
  <1>2. CASE LuaReloadScripts \/ GameRestart
    <2>1. UNCHANGED <<registry, life, cmds, queue, ctl, phase, err>> /\ Spend /\ reloadLater' \in BOOLEAN
      BY <1>2 DEF LuaReloadScripts, GameRestart
    <2>2. RestTyped /\ TypeOK'
      BY <2>1, Rest DEF IInv, TypeOK, RestTyped, registry, life, cmds
    <2> QED
      BY <1>g, <2>1, <2>2, TablesKept, StackKept
  <1>3. ASSUME NEW n \in Names, LuaRegister(n) \/ LuaUnregister(n) PROVE IInv'
    <2>1. /\ UNCHANGED <<registry, life, queue, ctl, reloadLater, phase, err>> /\ Spend
          /\ At("lua")
      BY <1>3 DEF LuaRegister, LuaUnregister
    <2>2. RestTyped
      BY <2>1, Rest
    <2>3. Top.s \in scripts
      BY <2>1, TopFacts DEF ScriptOps
    <2>4. /\ commands \in [Names -> Ids \cup {None}] /\ owned \in [Ids -> SUBSET Names]
          /\ commands[n] # None => commands[n] \in scripts /\ n \in owned[commands[n]]
          /\ None \notin scripts /\ UNCHANGED <<scripts, loaded, path>>
      BY <2>1, <1>0 DEF IInv, TypeOK, TablesNameLive, CommandsOwned, None, Ids, registry
    <2>5. CASE LuaRegister(n)
      <3>1. /\ commands[n] = None
            /\ commands' = [commands EXCEPT ![n] = Top.s]
            /\ owned' = [owned EXCEPT ![Top.s] = @ \cup {n}]
        BY <2>5 DEF LuaRegister
      <3>2. commands' \in [Names -> Ids \cup {None}] /\ owned' \in [Ids -> SUBSET Names]
        BY <1>0, <2>3, <2>4, <3>1
      <3>3. CommandsOwned'
        BY <1>0, <2>3, <2>4, <3>1 DEF IInv, TablesNameLive, CommandsOwned
      <3>4. OwnersLive'
        BY <1>0, <2>3, <2>4, <3>1 DEF IInv, OwnersLive
      <3>5. TypeOK' /\ LoadedPathsExist'
        BY <2>1, <2>2, <2>4, <3>2 DEF IInv, TypeOK, RestTyped, TablesNameLive, LoadedPathsExist,
             registry, life
      <3> QED
        BY <1>g, <2>1, <2>2, <3>3, <3>4, <3>5, StackKept DEF TablesNameLive
    <2>6. CASE LuaUnregister(n)
      <3>1. /\ commands[n] # None
            /\ owned' = [owned EXCEPT ![commands[n]] = @ \ {n}]
            /\ commands' = [commands EXCEPT ![n] = None]
        BY <2>6 DEF LuaUnregister
      <3>2. commands' \in [Names -> Ids \cup {None}] /\ owned' \in [Ids -> SUBSET Names]
        BY <1>0, <2>4, <3>1
      <3>3. CommandsOwned'
        BY <1>0, <2>4, <3>1 DEF IInv, TablesNameLive, CommandsOwned
      <3>4. OwnersLive'
        BY <1>0, <2>4, <3>1 DEF IInv, OwnersLive
      <3>5. TypeOK' /\ LoadedPathsExist'
        BY <2>1, <2>2, <2>4, <3>2 DEF IInv, TypeOK, RestTyped, TablesNameLive, LoadedPathsExist,
             registry, life
      <3> QED
        BY <1>g, <2>1, <2>2, <3>3, <3>4, <3>5, StackKept DEF TablesNameLive
    <2> QED
      BY <1>3, <2>5, <2>6
  <1> QED
    BY <1>1, <1>2, <1>3

(* What begins on an empty stack. *)
LEMMA FromEmpty ==
  ASSUME IInv, ctl = <<>>, ctl' \in Seq(Frames),
         UNCHANGED <<registry, life, cmds, queue>>, RestTyped,
         \/ \A i \in DOMAIN ctl' : Fits(ctl'[i])
         \/ \A i \in DOMAIN ctl' : Outer(ctl'[i])
  PROVE  IInv'
  <1>1. TypeOK'
    BY DEF IInv, TypeOK, RestTyped, registry, life, cmds
  <1>2. Sound(ctl', scripts', mains', Len(queue'))
    <2>0. scripts' = scripts /\ mains' = mains /\ queue' = queue /\ Len(queue) \in Nat
      BY Typed DEF registry, life
    <2>1. CASE \A i \in DOMAIN ctl' : Fits(ctl'[i])
      <3>1. InUse(ctl', scripts) /\ Outside(ctl') /\ InQueue(ctl', Len(queue))
        BY <2>1 DEF Fits, InUse, Outside, InQueue, Base
      <3>2. OnceEach(ctl') /\ NotStarted(ctl', mains)
        BY <2>1 DEF Fits, OnceEach, NotStarted, MainOps, NotYet
      <3> QED
        BY <2>0, <3>1, <3>2 DEF Sound
    <2>2. CASE \A i \in DOMAIN ctl' : Outer(ctl'[i])
      <3>1. InUse(ctl', scripts) /\ OnceEach(ctl') /\ NotStarted(ctl', mains)
        BY <2>2 DEF Outer, InUse, OnceEach, NotStarted, ScriptOps, MainOps, NotYet
      <3>2. Outside(ctl') /\ InQueue(ctl', Len(queue))
        BY <2>0, <2>2 DEF Outer, Outside, InQueue
      <3> QED
        BY <2>0, <3>1, <3>2 DEF Sound
    <2> QED
      BY <2>1, <2>2
  <1>3. DyingIsDestroyed'
    <2>1. dying \ dead = {}
      BY DEF IInv, FailedIsUnloaded, DyingIsDestroyed
    <2> QED
      BY <2>1 DEF DyingIsDestroyed, life
  <1>4. DeadWillBeFreed'
    <2>1. \A i \in DOMAIN ctl' : ctl'[i].op = "queue" => ctl'[i].i = 1
      BY DEF Fits, Base, Outer
    <2>2. \A s \in dead : \E k \in DOMAIN queue : queue[k] = RealUnload(s)
      BY DEF IInv, FailedIsUnloaded, DeadWillBeFreed, StillQueued
    <2>3. \A k \in DOMAIN queue : k >= 1
      BY DEF IInv
    <2> QED
      BY <2>1, <2>2, <2>3 DEF DeadWillBeFreed, StillQueued, RealUnload, life
  <1> QED
    BY <1>1, <1>2, <1>3, <1>4, TablesKept DEF IInv, FailedIsUnloaded

LEMMA BeginningInv ==
  ASSUME IInv, InitManager \/ Frame \/ GameEvent \/ Shutdown
  PROVE  IInv'
  <1>0. ctl = <<>> /\ UNCHANGED <<registry, life, cmds, queue>> /\ RestTyped
    BY Rest DEF InitManager, Frame, GameEvent, Shutdown
  <1>1. /\ LoadAll(Paths \ Libraries) \in Frames /\ Fire \in Frames /\ Queue(1) \in Frames
        /\ \A what \in {"startmains", "live", "frame", "quit", "clear"} :
             Then(what) \in Frames /\ Outer(Then(what))
        /\ Outer(LoadAll(Paths \ Libraries)) /\ Outer(Fire) /\ Outer(Queue(1)) /\ Fits(Fire)
    BY OpsTypes, Fitting DEF Outer, LoadAll, Fire, Queue, Then
  <1>2. CASE InitManager
    <2>1. ctl' = <<LoadAll(Paths \ Libraries), Fire, Queue(1), Then("startmains"), Then("live")>>
      BY <1>2 DEF InitManager
    <2>2. /\ DOMAIN ctl' = 1 .. 5 /\ ctl' \in Seq(Frames)
          /\ \A i \in 1 .. 5 : Outer(ctl'[i])
      BY <1>1, <2>1
    <2> QED
      BY <1>0, <2>2, FromEmpty
  <1>3. CASE Frame
    <2>1. ctl' = <<Queue(1), Then("frame"), Queue(1)>>
      BY <1>3 DEF Frame
    <2>2. /\ DOMAIN ctl' = 1 .. 3 /\ ctl' \in Seq(Frames)
          /\ \A i \in 1 .. 3 : Outer(ctl'[i])
      BY <1>1, <2>1
    <2> QED
      BY <1>0, <2>2, FromEmpty
  <1>4. CASE GameEvent
    <2>1. ctl' = <<Fire>>
      BY <1>4 DEF GameEvent
    <2>2. DOMAIN ctl' = 1 .. 1 /\ ctl' \in Seq(Frames) /\ \A i \in 1 .. 1 : Outer(ctl'[i])
      BY <1>1, <2>1
    <2> QED
      BY <1>0, <2>2, FromEmpty
  <1>5. CASE Shutdown
    <2>1. ctl' = <<Fire, Queue(1), Then("quit"), Then("clear")>>
      BY <1>5 DEF Shutdown
    <2>2. /\ DOMAIN ctl' = 1 .. 4 /\ ctl' \in Seq(Frames)
          /\ \A i \in 1 .. 4 : Outer(ctl'[i])
      BY <1>1, <2>1
    <2> QED
      BY <1>0, <2>2, FromEmpty
  <1> QED
    BY <1>2, <1>3, <1>4, <1>5

(* handle_command() *)
LEMMA CommandInv ==
  ASSUME IInv, CommandDone \/ \E n \in Names : Command(n)
  PROVE  IInv'
  <1>1. ASSUME NEW n \in Names, Command(n) PROVE IInv'
    <2> DEFINE s == commands[n]
    <2>1. s \in scripts /\ s \in Ids
      BY <1>1, Typed DEF Command, IInv, TablesNameLive, CommandsOwned
    <2>2. /\ Lua(s) \in Frames /\ Fits(Lua(s))
          /\ CmdDone(n, s) \in Frames /\ Fits(CmdDone(n, s))
      BY <2>1, OpsTypes, Fitting
    <2>3. UNCHANGED <<registry, life, cmds, queue>> /\ RestTyped
      BY <1>1, Rest DEF Command
    <2>4. ctl' = <<Lua(s), CmdDone(n, s)>> \o ctl
      BY <1>1 DEF Command, Call
    <2> HIDE DEF s
    <2>5. CASE ctl = <<>>
      <3>1. ctl' = <<Lua(s), CmdDone(n, s)>>
        BY <2>4, <2>5
      <3>2. /\ DOMAIN ctl' = 1 .. 2 /\ ctl' \in Seq(Frames)
            /\ ctl'[1] = Lua(s) /\ ctl'[2] = CmdDone(n, s)
        BY <2>2, <3>1
      <3>3. \A i \in DOMAIN ctl' : Fits(ctl'[i])
        BY <2>2, <3>2
      <3> QED
        BY <2>3, <2>5, <3>2, <3>3, FromEmpty
    <2>6. CASE At("lua")
      <3>1. Top \in Frames /\ Fits(Top) /\ ctl # <<>>
        BY <2>6, TopFacts DEF Fits, Base, MainOps, ScriptOps
      <3>2. Continue(<<Lua(s), CmdDone(n, s), Top>>)
        BY <2>2, <2>4, <3>1, Calling DEF Continue
      <3>3. /\ <<Lua(s), CmdDone(n, s), Top>> \in Seq(Frames)
            /\ \A c \in Of(<<Lua(s), CmdDone(n, s), Top>>) : Fits(c)
        BY <2>2, <3>1, ShortOps
      <3> QED
        BY <2>3, <2>6, <3>2, <3>3, Quiet
    <2> QED
      BY <1>1, <2>5, <2>6 DEF Command
  <1>2. CASE CommandDone
    <2>0. At("cmddone") /\ err' = FALSE /\ UNCHANGED <<registry, dead, mains, begun, cmds, queue>>
      BY <1>2 DEF CommandDone
    <2>1. RestTyped
      BY <1>2, Rest DEF CommandDone
    <2>2. CASE Continue(<<Fire, Destroy(Top.s, "error")>>) /\ dying' = dying \cup {Top.s}
      BY <2>0, <2>1, <2>2, Failing DEF ScriptOps
    <2>3. CASE Continue(<<>>) /\ UNCHANGED dying
      BY <2>0, <2>1, <2>3, Quiet, ShortOps DEF life
    <2> QED
      BY <1>2, <2>2, <2>3 DEF CommandDone
  <1> QED
    BY <1>1, <1>2

(* for_each_event_handler *)
LEMMA EventsInv ==
  ASSUME IInv, FireEvent \/ EachDone \/ HandlerDone \/ \E s \in Ids : CallHandler(s)
  PROVE  IInv'
  <1>0. scripts \subseteq Ids
    BY Typed
  <1>1. CASE FireEvent
    <2>1. Each(scripts) \in Frames /\ Fits(Each(scripts))
      BY <1>0, OpsTypes, Fitting
    <2>2. <<Each(scripts)>> \in Seq(Frames) /\ \A c \in Of(<<Each(scripts)>>) : Fits(c)
      BY <2>1, ShortOps
    <2> QED
      BY <1>1, <2>2, Quiet, Rest DEF FireEvent
  <1>2. CASE EachDone
    BY <1>2, Quiet, Rest, ShortOps DEF EachDone
  <1>3. CASE HandlerDone
    <2>0. At("handled") /\ err' = FALSE /\ UNCHANGED <<registry, dead, mains, begun, cmds, queue>>
      BY <1>3 DEF HandlerDone
    <2>1. RestTyped
      BY <1>3, Rest DEF HandlerDone
    <2>2. CASE Continue(<<Fire, Destroy(Top.s, "error")>>) /\ dying' = dying \cup {Top.s}
      BY <2>0, <2>1, <2>2, Failing DEF ScriptOps
    <2>3. CASE Continue(<<>>) /\ UNCHANGED dying
      BY <2>0, <2>1, <2>3, Quiet, ShortOps DEF life
    <2> QED
      BY <1>3, <2>2, <2>3 DEF HandlerDone
  <1>4. ASSUME NEW s \in Ids, CallHandler(s) PROVE IInv'
    <2> DEFINE todo == Top.todo \ {s}
               ops == <<Lua(s), Handled(s), Each(todo)>>
    <2>1. At("each") /\ s \in scripts
      BY <1>4 DEF CallHandler
    <2>2. Top \in Frames /\ Top.op \in Loops
      BY <2>1, TopFacts DEF Loops
    <2>3. todo \subseteq Ids
      BY <2>2, FrameFacts
    <2>4. /\ Lua(s) \in Frames /\ Fits(Lua(s)) /\ Handled(s) \in Frames /\ Fits(Handled(s))
          /\ Each(todo) \in Frames /\ Fits(Each(todo))
      BY <2>1, <2>3, OpsTypes, Fitting
    <2>5. Continue(ops)
      BY <1>4 DEF CallHandler
    <2> HIDE DEF todo
    <2>6. ops \in Seq(Frames) /\ \A c \in Of(ops) : Fits(c)
      BY <2>4, ShortOps
    <2>7. RestTyped /\ UNCHANGED <<registry, life, cmds, queue>>
      BY <1>4, Rest DEF CallHandler
    <2> HIDE DEF ops
    <2> QED
      BY <2>1, <2>5, <2>6, <2>7, Quiet
  <1> QED
    BY <1>1, <1>2, <1>3, <1>4

----------------------------------------------------------------------------
(* load() and start() *)
LEMMA LoadingInv == ASSUME IInv, LoadScript \/ CreateBeyondBound PROVE IInv'
  <1>1. CASE CreateBeyondBound
    BY <1>1, Quiet, Rest, ShortOps DEF CreateBeyondBound
  <1>2. CASE LoadScript
    <2>1. At("load") /\ RestTyped /\ UNCHANGED <<registry, life, cmds, queue>>
      BY <1>2, Rest DEF LoadScript
    <2>2. Top.p \in Paths /\ Top.once \in BOOLEAN
      BY <2>1, TopFacts, FrameFacts
    <2>3. /\ Fire \in Frames /\ Fits(Fire)
          /\ Create(Top.p, Top.once) \in Frames /\ Fits(Create(Top.p, Top.once))
      BY <2>2, OpsTypes, Fitting
    <2>4. \E ops \in {<<>>, <<Fire, Create(Top.p, Top.once)>>} : Continue(ops)
      BY <1>2 DEF LoadScript
    <2> DEFINE new == Create(Top.p, Top.once)
    <2>5. <<>> \in Seq(Frames) /\ \A c \in Of(<<>>) : Fits(c)
      BY ShortOps
    <2>6. <<Fire, new>> \in Seq(Frames) /\ \A c \in Of(<<Fire, new>>) : Fits(c)
      BY <2>3, ShortOps
    <2> HIDE DEF new
    <2> QED
      BY <2>1, <2>4, <2>5, <2>6, Quiet DEF new
  <1> QED
    BY <1>1, <1>2

LEMMA RehashAlike ==
  ASSUME IInv, NEW todo \in SUBSET Ids
  PROVE  Alike(Rehash(todo)) /\ Sound(Rehash(todo), scripts, mains, Len(queue))
  <1> DEFINE st == Rehash(todo)
  <1>1. ctl \in Seq(Frames) /\ DOMAIN ctl = 1 .. Len(ctl) /\ Len(ctl) \in Nat
    BY DEF IInv
  <1>2. DOMAIN st = DOMAIN ctl
    BY DEF Rehash
  <1>3. ASSUME NEW i \in DOMAIN ctl
        PROVE  /\ st[i] \in Frames /\ st[i].op = ctl[i].op
               /\ ctl[i].op \notin Loops => st[i] = ctl[i]
    <2>1. ctl[i] \in Frames
      BY <1>1
    <2>2. CASE ctl[i].op \in Loops
      <3>1. ctl[i] \in [op : Loops, todo : SUBSET Ids]
        BY <2>1, <2>2 DEF Frames, Loops
      <3>2. st[i] = [ctl[i] EXCEPT !.todo = todo]
        BY <2>2 DEF Rehash
      <3>3. st[i] \in [op : Loops, todo : SUBSET Ids] /\ st[i].op = ctl[i].op
        BY <3>1, <3>2
      <3> QED
        BY <2>2, <3>3 DEF Frames
    <2>3. CASE ctl[i].op \notin Loops
      <3>1. st[i] = ctl[i]
        BY <2>3 DEF Rehash
      <3> QED
        BY <2>1, <3>1
    <2> QED
      BY <2>2, <2>3
  <1>4. st \in Seq(Frames)
    <2>1. st = [i \in 1 .. Len(ctl) |-> st[i]]
      BY <1>1, <1>2 DEF Rehash
    <2> QED
      BY <1>1, <1>3, <2>1
  <1> HIDE DEF st
  <1>5. Alike(st)
    BY <1>2, <1>3, <1>4 DEF Alike
  <1>6. Sound(st, scripts, mains, Len(queue))
    <2>0. Sound(ctl, scripts, mains, Len(queue))
      BY DEF IInv
    <2>1. \A i \in DOMAIN ctl : ctl[i].op \in ScriptOps \cup MainOps \cup NotYet \cup {"queue"} => st[i] = ctl[i]
      BY <1>3 DEF ScriptOps, MainOps, NotYet, Loops
    <2>2. InUse(st, scripts) /\ InQueue(st, Len(queue)) /\ NotStarted(st, mains)
      BY <1>2, <1>3, <2>0, <2>1 DEF Sound, InUse, InQueue, NotStarted
    <2>3. OnceEach(st)
      BY <1>2, <1>3, <2>0, <2>1 DEF Sound, OnceEach
    <2>4. \A i \in DOMAIN ctl : Outer(ctl[i]) => Outer(st[i])
      BY <1>3 DEF Outer, Loops
    <2>5. Outside(st)
      BY <1>2, <1>3, <2>0, <2>4 DEF Sound, Outside
    <2> QED
      BY <2>2, <2>3, <2>5 DEF Sound
  <1> QED
    BY <1>5, <1>6 DEF st

LEMMA CreateInv == ASSUME IInv, CreateScript PROVE IInv'
  <1> DEFINE s == nextScript
             once == Top.once
             ops == <<Lua(s), Started(s, once)>>
  <1>1. At("create") /\ s <= MaxScripts /\ RestTyped
    BY Rest DEF CreateScript
  <1>2. /\ ctl # <<>> /\ Top.op = "create" /\ Top.p \in Paths /\ once \in BOOLEAN
        /\ 1 \in DOMAIN ctl /\ Top = ctl[1]
    BY <1>1, TopFacts, FrameFacts
  <1>3. s \in Ids /\ s \notin scripts /\ scripts \subseteq Ids
    BY <1>1, Typed DEF Ids, IInv, TypeOK
  <1>4. /\ nextScript' = s + 1 /\ scripts' = scripts \cup {s}
        /\ path' = [path EXCEPT ![s] = Top.p]
        /\ UNCHANGED <<loaded, life, cmds, queue>>
    BY DEF CreateScript
  <1>5. Lua(s) \in Frames /\ Started(s, once) \in Frames
    BY <1>2, <1>3, OpsTypes
  <1>6. ops \in Seq(Frames) /\ Of(ops) = {Lua(s), Started(s, once)}
    BY <1>5, ShortOps
  <1>7. PICK st : /\ Alike(st) /\ Sound(st, scripts, mains, Len(queue))
                  /\ ctl' = ops \o Tail(st)
    <2>1. CASE Continue(ops)
      BY <2>1, AlikeItself DEF Continue, IInv
    <2>2. ASSUME NEW todo \in SUBSET scripts', ctl' = ops \o Tail(Rehash(todo))
          PROVE  \E st : /\ Alike(st) /\ Sound(st, scripts, mains, Len(queue))
                         /\ ctl' = ops \o Tail(st)
      <3>1. todo \in SUBSET Ids
        BY <1>3, <1>4
      <3> QED
        BY <2>2, <3>1, RehashAlike
    <2> QED
      BY <2>1, <2>2 DEF CreateScript
  <1>8. st \in Seq(Frames) /\ st # <<>> /\ 1 \in DOMAIN st /\ st[1] = Top
    <2>1. "create" \notin Loops
      BY DEF Loops
    <2> QED
      BY <1>2, <1>7, <2>1 DEF Alike
  <1>9. /\ Lua(s).op = "lua" /\ Lua(s).s = s
        /\ Started(s, once).op = "started" /\ Started(s, once).s = s
    BY DEF Lua, Started
  <1>10. DOMAIN ops = {1, 2} /\ ops[1] = Lua(s) /\ ops[2] = Started(s, once)
    OBVIOUS
  <1> HIDE DEF ops, once
  <1>11. Sound(ctl', scripts', mains', Len(queue'))
    <2>1. /\ \A c \in Of(ops) : c.op \in ScriptOps => c.s \in scripts'
          /\ \A c \in Of(ops) : c.op \notin Base
          /\ \A c \in Of(ops) : c.s = s
      BY <1>4, <1>6, <1>9 DEF Base
    <2>2. \A i, j \in DOMAIN ops : ops[i].op \in MainOps /\ ops[j].op \in MainOps => i = j
      BY <1>9, <1>10 DEF MainOps
    <2>3. \A j \in DOMAIN st : st[j].op \in MainOps => st[j].s # s
      BY <1>3, <1>7 DEF Sound, InUse, MainOps, ScriptOps
    <2>4. s \notin mains /\ mains' = mains /\ Len(queue) \in Nat /\ queue' = queue
      BY <1>3, <1>4, Typed DEF life
    <2>5. Sound(st, scripts, mains, Len(queue)) /\ Len(queue) <= Len(queue)
      BY <1>7, <2>4
    <2>6. /\ \A c \in Of(ops) : c.op \in MainOps =>
                \/ st[1].op \in MainOps /\ c.s = st[1].s
                \/ \A j \in DOMAIN st : st[j].op \in MainOps => st[j].s # c.s
          /\ \A c \in Of(ops) : c.op \in NotYet => c.s \notin mains
      BY <2>1, <2>3, <2>4
    <2>7. scripts \subseteq scripts'
      BY <1>4
    <2>8. \A x \in mains \ mains : /\ st[1].op \in MainOps /\ st[1].s = x
                                   /\ \A c \in Of(ops) : c.op \notin MainOps
      OBVIOUS
    <2>9. Sound(ops \o Tail(st), scripts', mains, Len(queue))
      BY ONLY <1>6, <1>8, <2>1, <2>2, <2>4, <2>5, <2>6, <2>7, <2>8, SoundNested
    <2> QED
      BY <1>7, <2>4, <2>9
  <1>12. DyingIsDestroyed' /\ DeadWillBeFreed'
    <2>1. dying' = dying /\ dead' = dead /\ Grown
      BY <1>4 DEF life, Grown, IInv
    <2>2. ~ \E x : Ends(Top, x)
      BY <1>2 DEF Ends
    <2>3. \A c \in Of(ops) : c.op # "queue"
      BY <1>6, <1>9
    <2> QED
      BY <1>2, <1>6, <1>7, <2>1, <2>2, <2>3, DyingKept, DeadKept
  <1>13. ctl' \in Seq(Frames)
    BY <1>6, <1>7, <1>8, ReplacedOf
  <1>14. TypeOK'
    <2>1. nextScript' \in 1 .. MaxScripts + 1 /\ scripts' \subseteq 1 .. nextScript' - 1
      BY <1>1, <1>4 DEF IInv, TypeOK
    <2>2. path' \in [Ids -> Paths]
      BY <1>2, <1>3, <1>4 DEF IInv, TypeOK
    <2> QED
      BY <1>1, <1>4, <2>1, <2>2 DEF IInv, TypeOK, RestTyped, life, cmds
  <1>15. TablesNameLive' /\ OwnersLive'
    <2>1. CommandsOwned'
      BY <1>3, <1>4 DEF IInv, TablesNameLive, CommandsOwned, OwnersLive, cmds
    <2>2. LoadedPathsExist'
      BY <1>3, <1>4 DEF IInv, TypeOK, TablesNameLive, LoadedPathsExist
    <2>3. OwnersLive'
      BY <1>4 DEF IInv, OwnersLive, cmds
    <2> QED
      BY <2>1, <2>2, <2>3 DEF TablesNameLive
  <1> QED
    BY <1>4, <1>11, <1>12, <1>13, <1>14, <1>15 DEF IInv, FailedIsUnloaded

----------------------------------------------------------------------------
(* On the way to a started main function. *)
LEMMA Onward ==
  ASSUME IInv, NEW op \in MainOps, At(op), NEW ops \in Seq(Frames), Continue(ops),
         UNCHANGED <<scripts, dead, dying, queue>>,
         TypeOK', TablesNameLive', OwnersLive',
         \A c \in Of(ops) : Fits(c) \/ (c.op \in MainOps /\ c.s = Top.s),
         \A i, j \in DOMAIN ops : ops[i].op \in MainOps /\ ops[j].op \in MainOps => i = j,
         \A c \in Of(ops) : c.op \in NotYet => Top.s \notin mains,
         mains' = mains \/ (mains' = mains \cup {Top.s} /\ ops = <<>>)
  PROVE  IInv'
  <1>1. /\ ctl \in Seq(Frames) /\ ctl # <<>> /\ ctl[1] = Top /\ Top.op = op
        /\ ctl' = ops \o Tail(ctl) /\ Top.s \in scripts
    BY TopFacts DEF IInv, Continue, MainOps, ScriptOps
  <1>2. Grown /\ Len(queue) \in Nat /\ Len(queue') = Len(queue)
    BY DEF IInv, Grown
  <1>3. \A c \in Of(ops) : /\ c.op \in ScriptOps => c.s \in scripts
                           /\ c.op \notin Base
                           /\ c.op \in MainOps => c.s = Top.s
    BY <1>1 DEF Fits, MainOps, Base
  <1>4. Sound(ctl', scripts', mains', Len(queue'))
    <2>1. Sound(ctl, scripts, mains, Len(queue)) /\ Len(queue) <= Len(queue)
      BY <1>2 DEF IInv
    <2>2. \A c \in Of(ops) : c.op \in MainOps =>
            \/ ctl[1].op \in MainOps /\ c.s = ctl[1].s
            \/ \A j \in DOMAIN ctl : ctl[j].op \in MainOps => ctl[j].s # c.s
      BY <1>1, <1>3
    <2>3. CASE mains' = mains
      <3>1. \A c \in Of(ops) : c.op \in NotYet => c.s \notin mains
        BY <1>3 DEF MainOps, NotYet
      <3>2. \A s \in mains \ mains : /\ ctl[1].op \in MainOps /\ ctl[1].s = s
                                     /\ \A c \in Of(ops) : c.op \notin MainOps
        OBVIOUS
      <3>3. ops \in Seq(Frames) /\ scripts \subseteq scripts
        OBVIOUS
      <3>4. \A i, j \in DOMAIN ops : ops[i].op \in MainOps /\ ops[j].op \in MainOps => i = j
        OBVIOUS
      <3>5. Sound(ops \o Tail(ctl), scripts, mains, Len(queue))
        BY ONLY <1>1, <1>2, <1>3, <2>1, <2>2, <3>1, <3>2, <3>3, <3>4, SoundNested
      <3> QED
        BY <1>1, <1>2, <2>3, <3>5
    <2>4. CASE mains' = mains \cup {Top.s} /\ ops = <<>>
      <3> DEFINE more == mains \cup {Top.s}
      <3>1. Of(ops) = {} /\ DOMAIN ops = {} /\ ops \in Seq(Frames) /\ scripts \subseteq scripts
        BY <2>4, ShortOps
      <3>2. \A s \in more \ mains : /\ ctl[1].op \in MainOps /\ ctl[1].s = s
                                    /\ \A c \in Of(ops) : c.op \notin MainOps
        BY <1>1, <3>1
      <3> HIDE DEF more
      <3>3. Sound(ops \o Tail(ctl), scripts, more, Len(queue))
        BY ONLY <1>1, <1>2, <2>1, <3>1, <3>2, SoundNested
      <3> QED
        BY <1>1, <1>2, <2>4, <3>3 DEF more
    <2> QED
      BY <2>3, <2>4
  <1>5. DyingIsDestroyed' /\ DeadWillBeFreed'
    <2>1. ~ \E s : Ends(Top, s)
      BY <1>1 DEF Ends, MainOps
    <2>2. \A c \in Of(ops) : c.op # "queue"
      BY <1>3 DEF Base
    <2> QED
      BY <1>1, <1>2, <2>1, <2>2, AlikeItself, DyingKept, DeadKept
  <1>6. ctl' \in Seq(Frames) /\ queue' \in Seq(Actions)
    BY <1>1, <1>2, ReplacedOf DEF Grown
  <1> QED
    BY <1>4, <1>5, <1>6 DEF IInv, FailedIsUnloaded

LEMMA MainOpsFacts ==
  ASSUME NEW s, NEW once
  PROVE  /\ Started(s, once).op = "started" /\ Started(s, once).s = s
         /\ Register(s, once).op = "register" /\ Register(s, once).s = s
         /\ Main(s).op = "main" /\ Main(s).s = s
         /\ MainDone(s).op = "maindone" /\ MainDone(s).s = s
         /\ Lua(s).op = "lua" /\ Fire.op = "fire"
  BY DEF Started, Register, Main, MainDone, Lua, Fire

(* What is at the top has not been started, but for main itself. *)
LEMMA TopNotStarted ==
  ASSUME IInv, NEW op \in NotYet, At(op)
  PROVE  Top.s \in scripts \ mains
  BY TopFacts DEF IInv, Sound, NotStarted, NotYet, ScriptOps

LEMMA StartingInv ==
  ASSUME IInv, ScriptStarted \/ RegisterScript \/ StartMain \/ MainReturned PROVE IInv'
  <1> DEFINE s == Top.s
  <1>0. ASSUME NEW op \in MainOps, At(op)
        PROVE  /\ s \in scripts /\ s \in Ids
               /\ Fire \in Frames /\ Fits(Fire) /\ Lua(s) \in Frames /\ Fits(Lua(s))
    BY <1>0, TopFacts, Typed, OpsTypes, Fitting DEF MainOps, ScriptOps
  <1>a. /\ UNCHANGED <<reloadLater, phase, acts>> /\ (err' = FALSE \/ err' = err)
        /\ queue' = queue /\ UNCHANGED <<nextScript, scripts, path, dead, cmds>>
    BY DEF ScriptStarted, RegisterScript, StartMain, MainReturned, registry, life
  <1>b. RestTyped
    BY <1>a, Rest DEF IInv, TypeOK
  <1>c. loaded' \in [Paths -> Ids \cup {None}] /\ dying' \subseteq scripts
          /\ mains' \subseteq scripts /\ begun' \subseteq 1 .. nextScript - 1 => TypeOK'
    BY <1>a, <1>b DEF IInv, TypeOK, RestTyped, cmds
  <1>d. UNCHANGED loaded => TablesNameLive' /\ OwnersLive'
    BY <1>a, TablesKept DEF registry
  <1>e. /\ loaded \in [Paths -> Ids \cup {None}] /\ dying \subseteq scripts /\ mains \subseteq scripts
        /\ begun \subseteq 1 .. nextScript - 1
    BY DEF IInv, TypeOK
  <1>1. CASE ScriptStarted
    <2>1. At("started") /\ UNCHANGED <<registry, dead, mains, begun, cmds, queue>>
      BY <1>1 DEF ScriptStarted
    <2>2. CASE Continue(<<Fire, Bury(Top.s)>>) /\ dying' = dying \cup {Top.s}
      BY <1>b, <2>1, <2>2, Failing DEF ScriptOps
    <2>3. CASE dying' = dying /\ Continue(<<Fire, Register(Top.s, Top.once)>>)
      <3> DEFINE r == Register(Top.s, Top.once)
      <3>1. s \in scripts \ mains /\ Top.once \in BOOLEAN /\ s \in Ids
        BY <1>0, <2>1, TopFacts, TopNotStarted, FrameFacts DEF NotYet, MainOps
      <3>2. r \in Frames /\ r.op = "register" /\ r.s = s
        BY <3>1, OpsTypes, MainOpsFacts
      <3> HIDE DEF r
      <3>3. <<Fire, r>> \in Seq(Frames) /\ Of(<<Fire, r>>) = {Fire, r}
        BY <1>0, <2>1, <3>2, ShortOps DEF MainOps
      <3>f. Fits(Fire) /\ "register" \in MainOps
        BY <1>0, <2>1 DEF MainOps
      <3>4. /\ \A c \in Of(<<Fire, r>>) : Fits(c) \/ (c.op \in MainOps /\ c.s = Top.s)
            /\ \A c \in Of(<<Fire, r>>) : c.op \in NotYet => Top.s \notin mains
        BY <3>1, <3>2, <3>3, <3>f
      <3>5. \A i, j \in DOMAIN <<Fire, r>> :
              <<Fire, r>>[i].op \in MainOps /\ <<Fire, r>>[j].op \in MainOps => i = j
        <4>1. Fire.op \notin MainOps
          BY DEF Fire, MainOps
        <4> QED
          BY <4>1
      <3>6. TypeOK' /\ TablesNameLive' /\ OwnersLive' /\ UNCHANGED <<scripts, dead, dying, queue, mains>>
        BY <1>c, <1>d, <1>e, <2>1, <2>3 DEF registry
      <3>7. Continue(<<Fire, r>>)
        BY <2>3 DEF r
      <3> QED
        BY <2>1, <3>3, <3>4, <3>5, <3>6, <3>7, Onward DEF MainOps
    <2> QED
      BY <1>1, <2>2, <2>3 DEF ScriptStarted
  <1>2. CASE RegisterScript
    <2>1. At("register") /\ UNCHANGED <<nextScript, scripts, path, life, cmds, queue>>
      BY <1>2 DEF RegisterScript
    <2>2. s \in scripts /\ s \in Ids /\ path \in [Ids -> Paths] /\ None \notin Ids
      BY <1>0, <2>1 DEF MainOps, IInv, TypeOK, None, Ids
    <2>3. loaded' = [loaded EXCEPT ![path[s]] = IF @ = None THEN s ELSE @]
      BY <1>2 DEF RegisterScript
    <2>4. loaded' \in [Paths -> Ids \cup {None}]
      BY <1>e, <2>2, <2>3
    <2>5. LoadedPathsExist'
      BY <1>e, <2>1, <2>2, <2>3 DEF IInv, TablesNameLive, LoadedPathsExist
    <2>6. CommandsOwned' /\ OwnersLive'
      BY <2>1 DEF IInv, TablesNameLive, CommandsOwned, OwnersLive, cmds
    <2>7. TypeOK' /\ TablesNameLive' /\ OwnersLive' /\ UNCHANGED <<scripts, dead, dying, queue, mains>>
      BY <1>c, <1>e, <2>1, <2>4, <2>5, <2>6 DEF life, TablesNameLive
    <2> DEFINE m == Main(s)
    <2>8. /\ m \in Frames /\ m.op = "main" /\ m.s = s
          /\ Fire \in Frames /\ Fits(Fire) /\ Fire.op = "fire"
      BY <1>0, <2>1, <2>2, OpsTypes, MainOpsFacts DEF MainOps
    <2>9. Continue(<<Fire>>) \/ Continue(<<Fire, m>>)
      <3>1. <<Fire>> \o <<>> = <<Fire>> /\ <<Fire>> \o <<Main(Top.s)>> = <<Fire, Main(Top.s)>>
        BY <2>8, Joined
      <3> QED
        BY <1>2, <3>1 DEF RegisterScript
    <2>s. s = Top.s
      OBVIOUS
    <2> HIDE DEF m, s
    <2>10. ASSUME NEW ops \in {<<Fire>>, <<Fire, m>>}, Continue(ops) PROVE IInv'
      <3>1. ops \in Seq(Frames) /\ \A c \in Of(ops) : c = Fire \/ c = m
        <4>1. <<Fire>> \in Seq(Frames) /\ Of(<<Fire>>) = {Fire}
          BY <2>8, ShortOps
        <4>2. <<Fire, m>> \in Seq(Frames) /\ Of(<<Fire, m>>) = {Fire, m}
          BY <2>8, ShortOps
        <4> QED
          BY <2>10, <4>1, <4>2
      <3>2. /\ \A c \in Of(ops) : Fits(c) \/ (c.op \in MainOps /\ c.s = Top.s)
            /\ \A c \in Of(ops) : c.op \in NotYet => Top.s \notin mains
        BY <2>8, <2>s, <3>1 DEF MainOps, NotYet
      <3>3. \A i, j \in DOMAIN ops : ops[i].op \in MainOps /\ ops[j].op \in MainOps => i = j
        <4>1. Fire.op \notin MainOps
          BY DEF Fire, MainOps
        <4>2. \A i \in DOMAIN ops : i \in {1, 2} /\ (i = 1 => ops[i] = Fire)
          BY <2>10
        <4> QED
          BY <4>1, <4>2
      <3> QED
        BY <2>1, <2>7, <2>10, <3>1, <3>2, <3>3, Onward DEF MainOps
    <2> QED
      BY <2>9, <2>10
  <1>3. CASE StartMain
    <2>1. At("main") /\ UNCHANGED <<registry, dead, dying, mains, cmds, queue>>
      BY <1>3 DEF StartMain
    <2>5. begun' \subseteq 1 .. nextScript - 1
      <3>1. begun' \subseteq begun \cup {s}
        BY <1>3 DEF StartMain
      <3>2. s \in 1 .. nextScript - 1
        BY <1>0, <2>1 DEF MainOps, IInv, TypeOK
      <3> QED
        BY <1>e, <3>1, <3>2
    <2>2. TypeOK' /\ TablesNameLive' /\ OwnersLive' /\ UNCHANGED <<scripts, dead, dying, queue, mains>>
      BY <1>c, <1>d, <1>e, <2>1, <2>5 DEF registry
    <2>3. CASE Continue(<<>>)
      <3>1. <<>> \in Seq(Frames) /\ Of(<<>>) = {} /\ DOMAIN <<>> = {}
        BY ShortOps
      <3> QED
        BY <2>1, <2>2, <2>3, <3>1, Onward DEF MainOps
    <2>4. CASE s \notin mains /\ Continue(<<Lua(s), MainDone(s)>>)
      <3> DEFINE l == Lua(s)
                 m == MainDone(s)
      <3>1. /\ l \in Frames /\ Fits(l) /\ m \in Frames /\ m.op = "maindone" /\ m.s = s
            /\ l.op \notin MainOps
        BY <1>0, <2>1, OpsTypes, MainOpsFacts DEF MainOps
      <3>2. Continue(<<l, m>>)
        BY <2>4
      <3> HIDE DEF l, m, s
      <3>3. <<l, m>> \in Seq(Frames) /\ Of(<<l, m>>) = {l, m}
        BY <3>1, ShortOps
      <3>4. /\ \A c \in Of(<<l, m>>) : Fits(c) \/ (c.op \in MainOps /\ c.s = Top.s)
            /\ \A c \in Of(<<l, m>>) : c.op \in NotYet => Top.s \notin mains
        <4>1. s = Top.s /\ "maindone" \in MainOps
          BY DEF s, MainOps
        <4> QED
          BY <2>4, <3>1, <3>3, <4>1
      <3>5. \A i, j \in DOMAIN <<l, m>> :
              <<l, m>>[i].op \in MainOps /\ <<l, m>>[j].op \in MainOps => i = j
        BY <3>1
      <3> QED
        BY <2>1, <2>2, <3>2, <3>3, <3>4, <3>5, Onward DEF MainOps
    <2> QED
      BY <1>3, <2>3, <2>4 DEF StartMain
  <1>4. CASE MainReturned
    <2>1. At("maindone") /\ UNCHANGED <<registry, dead, begun, cmds, queue>>
      BY <1>4 DEF MainReturned
    <2>2. CASE Continue(<<Fire, Destroy(Top.s, "error")>>) /\ dying' = dying \cup {Top.s} /\ mains' = mains
      BY <1>b, <2>1, <2>2, Failing DEF ScriptOps
    <2>3. CASE mains' = mains \cup {s} /\ Continue(<<>>) /\ dying' = dying
      <3>1. <<>> \in Seq(Frames) /\ Of(<<>>) = {} /\ DOMAIN <<>> = {}
        BY ShortOps
      <3>2. s \in scripts
        BY <1>0, <2>1 DEF MainOps
      <3>3. TypeOK' /\ TablesNameLive' /\ OwnersLive' /\ UNCHANGED <<scripts, dead, dying, queue>>
        BY <1>c, <1>d, <1>e, <2>1, <2>3, <3>2 DEF registry
      <3> QED
        BY <2>1, <2>3, <3>1, <3>3, Onward DEF MainOps
    <2> QED
      BY <1>4, <2>2, <2>3 DEF MainReturned
  <1> QED
    BY <1>1, <1>2, <1>3, <1>4

----------------------------------------------------------------------------
(* destroy_script() *)
LEMMA DestroyInv ==
  ASSUME IInv, DestroyScript \/ ExitHandlers \/ ExitDone PROVE IInv'
  <1> DEFINE s == Top.s
  <1>0. ASSUME NEW op \in {"destroy", "exit", "exited"}, At(op)
        PROVE  /\ s \in scripts /\ s \in Ids /\ ctl # <<>> /\ Top.op = op /\ Top \in Frames
               /\ Fire \in Frames /\ Fits(Fire)
    BY <1>0, TopFacts, Typed, OpsTypes, Fitting DEF ScriptOps
  <1>1. CASE DestroyScript
    <2>1. /\ At("destroy") /\ dying' = dying \cup {s} /\ RestTyped
          /\ UNCHANGED <<registry, dead, mains, begun, cmds, queue>>
      BY <1>1, Rest DEF DestroyScript
    <2>2. Top.how \in {"error", "normal", "quit"}
      BY <1>0, <2>1, FrameFacts
    <2> DEFINE e == Exit(s, Top.how)
               b == Bury(s)
    <2>3. /\ e \in Frames /\ Fits(e) /\ b \in Frames /\ Fits(b) /\ Ends(b, s)
          /\ Fire \in Frames /\ Fits(Fire) /\ s \in scripts
      BY <1>0, <2>1, <2>2, OpsTypes, Fitting DEF Ends, Bury
    <2>4. Continue(<<Fire, e, b>>)
      BY <1>1 DEF DestroyScript
    <2>s. s = Top.s
      OBVIOUS
    <2> HIDE DEF e, b, s
    <2>5. <<Fire, e, b>> \in Seq(Frames) /\ Of(<<Fire, e, b>>) = {Fire, e, b}
      BY <2>3, ShortOps
    <2>6. \A c \in Of(<<Fire, e, b>>) : Fits(c)
      BY <2>3, <2>5
    <2>7. \A x \in dying' : \/ x \in dying /\ ~ Ends(Top, x)
                            \/ \E c \in Of(<<Fire, e, b>>) : Ends(c, x)
      BY <2>1, <2>3, <2>5, <2>s DEF Ends
    <2>8. dying' \subseteq scripts /\ Grown /\ ctl # <<>>
      BY <1>0, <2>1, <2>3, Typed DEF Grown, IInv
    <2> QED
      BY <2>1, <2>4, <2>5, <2>6, <2>7, <2>8, Nested DEF Fits
  <1>2. CASE ExitHandlers
    <2>1. At("exit") /\ RestTyped /\ UNCHANGED <<registry, life, cmds, queue>>
      BY <1>2, Rest DEF ExitHandlers
    <2> DEFINE l == Lua(s)
               x == Exited(s)
    <2>2. l \in Frames /\ Fits(l) /\ x \in Frames /\ Fits(x)
      BY <1>0, <2>1, OpsTypes, Fitting
    <2>3. Continue(<<l, x>>) \/ Continue(<<>>)
      BY <1>2 DEF ExitHandlers
    <2> HIDE DEF l, x
    <2>4. <<l, x>> \in Seq(Frames) /\ \A c \in Of(<<l, x>>) : Fits(c)
      BY <2>2, ShortOps
    <2> QED
      BY <2>1, <2>3, <2>4, ShortOps, Quiet
  <1>3. CASE ExitDone
    <2>1. At("exited") /\ RestTyped /\ UNCHANGED <<registry, life, cmds, queue>>
      BY <1>3, Rest DEF ExitDone
    <2>2. Continue(<<Fire>>) \/ Continue(<<>>)
      BY <1>3 DEF ExitDone
    <2>3. <<Fire>> \in Seq(Frames) /\ \A c \in Of(<<Fire>>) : Fits(c)
      BY <1>0, <2>1, ShortOps
    <2> QED
      BY <2>1, <2>2, <2>3, ShortOps, Quiet
  <1> QED
    BY <1>1, <1>2, <1>3

(* The end of destroy_script(): no walk over the queue has passed its end. *)
LEMMA BuryInv == ASSUME IInv, BuryScript PROVE IInv'
  <1>0. PICK s : s = Top.s
    OBVIOUS
  <1> DEFINE q == RealUnload(s)
  <1>1. /\ At("bury") /\ dead' = dead \cup {s} /\ queue' = Append(queue, q)
        /\ UNCHANGED <<registry, dying, mains, begun, cmds>> /\ Continue(<<>>) /\ RestTyped
    BY <1>0, Rest DEF BuryScript
  <1>2. /\ s \in scripts /\ s \in Ids /\ ctl # <<>> /\ Top.op = "bury" /\ ctl[1] = Top
        /\ ctl \in Seq(Frames) /\ ctl' = <<>> \o Tail(ctl)
    BY <1>0, <1>1, TopFacts, Typed DEF IInv, Continue, ScriptOps
  <1>3. <<>> \in Seq(Frames) /\ Of(<<>>) = {} /\ DOMAIN <<>> = {}
    BY ShortOps
  <1>4. q \in Actions /\ queue \in Seq(Actions)
    BY <1>2 DEF Actions, RealUnload, IInv
  <1> HIDE DEF q
  <1>5. /\ Len(queue) \in Nat /\ Len(queue') = Len(queue) + 1 /\ Grown
        /\ Len(queue) + 1 \in DOMAIN queue' /\ queue'[Len(queue) + 1] = q
    BY <1>1, <1>4 DEF Grown
  <1>6. scripts' = scripts /\ mains' = mains
    BY <1>1 DEF registry
  <1>7. Sound(ctl', scripts', mains', Len(queue'))
    <2>1. /\ Sound(ctl, scripts, mains, Len(queue)) /\ Len(queue) <= Len(queue')
          /\ Len(queue') \in Nat
      BY <1>5 DEF IInv
    <2>2. scripts \subseteq scripts /\ mains \ mains = {}
      OBVIOUS
    <2>3. Sound(<<>> \o Tail(ctl), scripts, mains, Len(queue'))
      BY ONLY <1>2, <1>3, <1>5, <2>1, <2>2, SoundNested
    <2> QED
      BY <1>2, <1>6, <2>3
  <1>8. DyingIsDestroyed'
    <2>1. \A x \in dying' \ dead' : x \in dying \ dead /\ ~ Ends(Top, x)
      BY <1>0, <1>1, <1>2 DEF Ends
    <2> QED
      BY <1>2, <1>3, <2>1, AlikeItself, DyingKept
  <1>9. DeadWillBeFreed'
    <2>1. \A x \in dead : StillQueued(RealUnload(x))'
      BY <1>2, <1>3, <1>5, AlikeItself, QueuedKept
    <2>2. StillQueued(RealUnload(s))'
      <3>1. InQueue(ctl, Len(queue))
        BY DEF IInv, Sound
      <3>2. \A i \in DOMAIN ctl' : \E j \in DOMAIN ctl : ctl'[i] = ctl[j]
        <4> DEFINE t == <<>> \o Tail(ctl)
        <4>1. \A i \in DOMAIN t : t[i] \in Of(<<>>) \/ \E j \in DOMAIN ctl \ {1} : t[i] = ctl[j]
          BY <1>2, <1>3, ReplacedOf
        <4>2. ctl' = t
          BY <1>2
        <4> HIDE DEF t
        <4> QED
          BY <1>3, <4>1, <4>2
      <3>3. \A i \in DOMAIN ctl' : ctl'[i].op = "queue" => ctl'[i].i <= Len(queue) + 1
        BY <3>1, <3>2 DEF InQueue
      <3>4. StillQueued(q)'
        BY <1>5, <3>3 DEF StillQueued, q, RealUnload
      <3> QED
        BY <3>4 DEF q
    <2> QED
      BY <1>1, <2>1, <2>2 DEF DeadWillBeFreed, RealUnload
  <1>10. TypeOK'
    BY <1>1, <1>2 DEF IInv, TypeOK, RestTyped, registry, cmds
  <1>11. ctl' \in Seq(Frames)
    BY <1>2, <1>3, ReplacedOf
  <1> QED
    BY <1>1, <1>5, <1>7, <1>8, <1>9, <1>10, <1>11, TablesKept DEF IInv, FailedIsUnloaded, Grown

----------------------------------------------------------------------------
(* What a call made after exiting all lua contexts may go on with: no      *)
(* script is at work below the last of the calls, or all of them are outer.*)
Fresh(ops) ==
  /\ ops \in Seq(Frames)
  /\ InUse(ops, scripts) /\ Outside(ops) /\ OnceEach(ops) /\ NotStarted(ops, mains)

LEMMA FreshOps ==
  ASSUME IInv, NEW last \in Frames, last.op \notin ScriptOps
  PROVE  /\ Fresh(<<>>) /\ Fresh(<<last>>)
         /\ \A a \in Frames :
              Fits(a) \/ (a.op = "main" /\ a.s \in scripts) => Fresh(<<a, last>>)
         /\ \A a, b \in Frames : Fits(a) /\ Fits(b) => Fresh(<<a, b, last>>)
  <1>0. last.op \notin MainOps /\ last.op \notin NotYet
    BY DEF ScriptOps, MainOps, NotYet
  <1>1. Fresh(<<>>)
    BY DEF Fresh, InUse, Outside, OnceEach, NotStarted
  <1>2. Fresh(<<last>>)
    <2> DEFINE t == <<last>>
    <2>1. t \in Seq(Frames) /\ DOMAIN t = {1} /\ t[1] = last
      OBVIOUS
    <2> HIDE DEF t
    <2>2. Fresh(t)
      BY <1>0, <2>1 DEF Fresh, InUse, Outside, OnceEach, NotStarted
    <2> QED
      BY <2>2 DEF t
  <1>3. ASSUME NEW a \in Frames, Fits(a) \/ (a.op = "main" /\ a.s \in scripts)
        PROVE  Fresh(<<a, last>>)
    <2> DEFINE t == <<a, last>>
    <2>1. t \in Seq(Frames) /\ DOMAIN t = {1, 2} /\ t[1] = a /\ t[2] = last
      OBVIOUS
    <2>2. /\ a.op \in ScriptOps => a.s \in scripts
          /\ a.op \notin Base /\ a.op \notin NotYet
      BY <1>3 DEF Fits, Base, MainOps, NotYet
    <2> HIDE DEF t
    <2>3. InUse(t, scripts) /\ NotStarted(t, mains)
      BY <1>0, <2>1, <2>2 DEF InUse, NotStarted
    <2>4. Outside(t) /\ OnceEach(t)
      BY <1>0, <2>1, <2>2 DEF Outside, OnceEach
    <2> QED
      BY <2>1, <2>3, <2>4 DEF t, Fresh
  <1>4. ASSUME NEW a \in Frames, NEW b \in Frames, Fits(a), Fits(b)
        PROVE  Fresh(<<a, b, last>>)
    <2> DEFINE t == <<a, b, last>>
    <2>1. t \in Seq(Frames) /\ DOMAIN t = {1, 2, 3} /\ t[1] = a /\ t[2] = b /\ t[3] = last
      OBVIOUS
    <2>2. /\ a.op \in ScriptOps => a.s \in scripts
          /\ b.op \in ScriptOps => b.s \in scripts
          /\ a.op \notin Base /\ a.op \notin NotYet /\ a.op \notin MainOps
          /\ b.op \notin Base /\ b.op \notin NotYet /\ b.op \notin MainOps
      BY <1>4 DEF Fits, MainOps, NotYet
    <2> HIDE DEF t
    <2>3. InUse(t, scripts) /\ NotStarted(t, mains)
      BY <1>0, <2>1, <2>2 DEF InUse, NotStarted
    <2>4. Outside(t) /\ OnceEach(t)
      BY <1>0, <2>1, <2>2 DEF Outside, OnceEach
    <2> QED
      BY <2>1, <2>3, <2>4 DEF t, Fresh
  <1> QED
    BY <1>1, <1>2, <1>3, <1>4

LEMMA FreshSound ==
  ASSUME IInv, NEW op \in Base, At(op), NEW ops, Fresh(ops), Continue(ops),
         NEW n \in Nat, InQueue(ops, n), scripts' = scripts, mains' = mains
  PROVE  ctl' \in Seq(Frames) /\ Sound(ctl', scripts', mains', n)
  <1>1. /\ ctl \in Seq(Frames) /\ ctl # <<>> /\ ctl[1].op \in Base
        /\ ctl' = ops \o Tail(ctl) /\ ops \in Seq(Frames)
        /\ Sound(ctl, scripts, mains, Len(queue)) /\ Len(queue) \in Nat
    BY TopFacts, Typed DEF IInv, Continue, Fresh
  <1>2. /\ InUse(ops, scripts) /\ Outside(ops) /\ OnceEach(ops)
        /\ NotStarted(ops, mains)
    BY DEF Fresh
  <1>3. Sound(ops \o Tail(ctl), scripts, mains, n)
    BY <1>1, <1>2, SoundBase
  <1> QED
    BY <1>1, <1>3, ReplacedOf

LEMMA AtBase ==
  ASSUME IInv, NEW op \in Base, At(op), NEW ops, Fresh(ops), Continue(ops), RestTyped,
         UNCHANGED <<registry, life, cmds, queue>>,
         \A c \in Of(ops) : c.op = "queue" => c.i = 1
  PROVE  IInv'
  <1>1. /\ ctl # <<>> /\ Top.op = op /\ ctl' = ops \o Tail(ctl) /\ ops \in Seq(Frames)
        /\ Len(queue) \in Nat /\ queue' = queue /\ Grown
    BY TopFacts, Typed DEF Continue, Fresh, Grown, IInv
  <1>2. InQueue(ops, Len(queue))
    BY <1>1 DEF InQueue, Of
  <1>3. ctl' \in Seq(Frames) /\ Sound(ctl', scripts', mains', Len(queue'))
    BY <1>1, <1>2, FreshSound DEF registry, life
  <1>4. DyingIsDestroyed' /\ DeadWillBeFreed'
    <2>1. dying' = dying /\ dead' = dead /\ \A s : ~ Ends(Top, s)
      BY <1>1 DEF life, Ends, Base
    <2> QED
      BY <1>1, <2>1, AlikeItself, DyingKept, DeadKept
  <1>5. TypeOK'
    BY DEF IInv, TypeOK, RestTyped, registry, life, cmds
  <1> QED
    BY <1>1, <1>3, <1>4, <1>5, TablesKept DEF IInv, FailedIsUnloaded, Grown

(* start_main_all(), load_all() *)
LEMMA AllInv == ASSUME IInv, StartMains \/ NextMain \/ LoadNext PROVE IInv'
  <1>0. RestTyped /\ UNCHANGED <<registry, life, cmds, queue>> /\ scripts \subseteq Ids
    BY Typed, Rest DEF StartMains, NextMain, LoadNext
  <1>1. CASE StartMains
    <2> DEFINE m == Mains(scripts)
    <2>1. m \in Frames /\ m.op \notin ScriptOps /\ m.op # "queue"
      BY <1>0, OpsTypes DEF ScriptOps, Mains
    <2>2. At("startmains") /\ Continue(<<m>>)
      BY <1>1 DEF StartMains
    <2> HIDE DEF m
    <2>3. Fresh(<<m>>) /\ Of(<<m>>) = {m}
      BY <2>1, FreshOps, ShortOps
    <2> QED
      BY <1>0, <2>1, <2>2, <2>3, AtBase DEF Base
  <1>q. /\ Fresh(<<Queue(1)>>) /\ Of(<<Queue(1)>>) = {Queue(1)}
        /\ Queue(1).op = "queue" /\ Queue(1).i = 1
    <2>1. Queue(1) \in Frames
      BY OpsTypes
    <2>2. Queue(1).op = "queue" /\ Queue(1).i = 1 /\ Queue(1).op \notin ScriptOps
      BY DEF Queue, ScriptOps
    <2> QED
      BY <2>1, <2>2, FreshOps, ShortOps
  <1>2. CASE NextMain
    <2>1. At("mains") /\ Top \in Frames /\ Top.todo \subseteq Ids
      BY <1>2, TopFacts, FrameFacts DEF NextMain, Loops
    <2>2. ASSUME NEW s \in Top.todo \cap scripts, Continue(<<Main(s), Mains(Top.todo \ {s})>>)
          PROVE  IInv'
      <3> DEFINE a == Main(s)
                 b == Mains(Top.todo \ {s})
      <3>1. /\ a \in Frames /\ a.op = "main" /\ a.s = s /\ s \in scripts
            /\ b \in Frames /\ b.op \notin ScriptOps /\ b.op = "mains"
        BY <1>0, <2>1, OpsTypes DEF Main, Mains, ScriptOps
      <3>2. Continue(<<a, b>>)
        BY <2>2
      <3> HIDE DEF a, b
      <3>3. Fresh(<<a, b>>) /\ Of(<<a, b>>) = {a, b}
        BY <3>1, FreshOps, ShortOps
      <3> QED
        BY <1>0, <2>1, <3>1, <3>2, <3>3, AtBase DEF Base
    <2>3. CASE Continue(<<Queue(1)>>)
      BY <1>0, <1>q, <2>1, <2>3, AtBase DEF Base
    <2> QED
      BY <1>2, <2>2, <2>3 DEF NextMain
  <1>3. CASE LoadNext
    <2>1. At("loadall") /\ Top \in Frames /\ Top.ps \subseteq Paths
      BY <1>3, TopFacts, FrameFacts DEF LoadNext
    <2>2. ASSUME NEW p \in Top.ps, Continue(<<Load(p, FALSE), LoadAll(Top.ps \ {p})>>)
          PROVE  IInv'
      <3> DEFINE a == Load(p, FALSE)
                 b == LoadAll(Top.ps \ {p})
      <3>1. /\ a \in Frames /\ a.op = "load" /\ Fits(a)
            /\ b \in Frames /\ b.op \notin ScriptOps /\ b.op = "loadall"
        BY <2>1, OpsTypes, Fitting DEF Load, LoadAll, ScriptOps
      <3>2. Continue(<<a, b>>)
        BY <2>2
      <3> HIDE DEF a, b
      <3>3. Fresh(<<a, b>>) /\ Of(<<a, b>>) = {a, b}
        BY <3>1, FreshOps, ShortOps
      <3> QED
        BY <1>0, <2>1, <3>1, <3>2, <3>3, AtBase DEF Base
    <2>3. CASE Continue(<<Queue(1)>>)
      BY <1>0, <1>q, <2>1, <2>3, AtBase DEF Base
    <2> QED
      BY <1>3, <2>2, <2>3 DEF LoadNext
  <1> QED
    BY <1>1, <1>2, <1>3

(* run() *)
LEMMA FrameBodyInv == ASSUME IInv, FrameBody PROVE IInv'
  <1>0. RestTyped /\ UNCHANGED <<registry, life, cmds, queue>> /\ scripts \subseteq Ids /\ At("frame")
    BY Typed, Rest DEF FrameBody
  <1>1. CASE Continue(<<RunScripts(scripts)>>)
    <2> DEFINE r == RunScripts(scripts)
    <2>1. r \in Frames /\ r.op \notin ScriptOps /\ r.op # "queue"
      BY <1>0, OpsTypes DEF RunScripts, ScriptOps
    <2>2. Continue(<<r>>)
      BY <1>1
    <2> HIDE DEF r
    <2>3. Fresh(<<r>>) /\ Of(<<r>>) = {r}
      BY <2>1, FreshOps, ShortOps
    <2> QED
      BY <1>0, <2>1, <2>2, <2>3, AtBase DEF Base
  <1>2. ASSUME Continue(<<ReloadRun(scripts), Queue(1), LoadAll(Paths \ Libraries), Then("startmains"),
                          Then("reloaded")>>)
        PROVE  IInv'
    <2> DEFINE t == <<ReloadRun(scripts), Queue(1), LoadAll(Paths \ Libraries), Then("startmains"),
                      Then("reloaded")>>
    <2>1. /\ ReloadRun(scripts) \in Frames /\ Queue(1) \in Frames /\ LoadAll(Paths \ Libraries) \in Frames
          /\ Then("startmains") \in Frames /\ Then("reloaded") \in Frames
      BY <1>0, OpsTypes
    <2>2. /\ Outer(Queue(1)) /\ Outer(LoadAll(Paths \ Libraries)) /\ Outer(Then("startmains"))
          /\ Outer(Then("reloaded")) /\ ReloadRun(scripts).op = "reloadrun"
      BY DEF Outer, Queue, LoadAll, Then, ReloadRun
    <2>3. /\ t \in Seq(Frames) /\ DOMAIN t = 1 .. 5 /\ t[1].op = "reloadrun"
          /\ \A i \in 2 .. 5 : Outer(t[i])
      BY <2>1, <2>2
    <2>4. Continue(t)
      BY <1>2
    <2> HIDE DEF t
    <2>5. \A i \in DOMAIN t : t[i].op \notin ScriptOps /\ t[i].op \notin MainOps /\ t[i].op \notin NotYet
      BY <2>3 DEF Outer, ScriptOps, MainOps, NotYet
    <2>6. Outside(t)
      BY <2>3 DEF Outside
    <2>7. Fresh(t)
      BY <2>3, <2>5, <2>6 DEF Fresh, InUse, OnceEach, NotStarted
    <2>8. \A c \in Of(t) : c.op = "queue" => c.i = 1
      BY <2>3 DEF Of, Outer
    <2> QED
      BY <1>0, <2>4, <2>7, <2>8, AtBase DEF Base
  <1> QED
    BY <1>1, <1>2 DEF FrameBody

----------------------------------------------------------------------------
(* run_queued_actions(): the walk passes no unload that is still needed.   *)
LEMMA WalkedOn ==
  ASSUME IInv, At("queue"), Top.i \in DOMAIN queue, NEW t \in Seq(Frames), Continue(t),
         \A c \in Of(t) : c.op = "queue" => c.i = Top.i + 1,
         queue' = queue, dead' \subseteq dead,
         \A s \in dead' : Action # RealUnload(s)
  PROVE  DeadWillBeFreed'
  <1>1. /\ ctl \in Seq(Frames) /\ ctl # <<>> /\ 1 \in DOMAIN ctl /\ ctl[1] = Top
        /\ Top.op = "queue" /\ ctl' = t \o Tail(ctl) /\ queue \in Seq(Actions)
    BY TopFacts DEF IInv, Continue
  <1>2. \A i \in DOMAIN ctl' : ctl'[i] \in Of(t) \/ \E j \in DOMAIN ctl : ctl'[i] = ctl[j]
    <2> DEFINE u == t \o Tail(ctl)
    <2>1. \A i \in DOMAIN u : u[i] \in Of(t) \/ \E j \in DOMAIN ctl \ {1} : u[i] = ctl[j]
      BY <1>1, ReplacedOf
    <2>2. ctl' = u
      BY <1>1
    <2> HIDE DEF u
    <2> QED
      BY <2>1, <2>2
  <1>3. ASSUME NEW s \in dead'
        PROVE  \E k \in DOMAIN queue' : /\ queue'[k] = RealUnload(s)
                                        /\ \A i \in DOMAIN ctl' : ctl'[i].op = "queue" => ctl'[i].i <= k
    <2>1. PICK k \in DOMAIN queue : /\ queue[k] = RealUnload(s)
                                    /\ \A i \in DOMAIN ctl : ctl[i].op = "queue" => ctl[i].i <= k
      BY <1>3 DEF IInv, FailedIsUnloaded, DeadWillBeFreed, StillQueued
    <2>2. Top.i <= k /\ k # Top.i
      BY <1>1, <1>3, <2>1 DEF Action
    <2>3. k \in Nat /\ Top.i \in Nat
      BY <1>1
    <2>4. Top.i + 1 <= k
      BY <2>2, <2>3
    <2>5. \A i \in DOMAIN ctl' : ctl'[i].op = "queue" => ctl'[i].i <= k
      BY <1>2, <2>1, <2>4
    <2> QED
      BY <2>1, <2>5
  <1> QED
    BY <1>3 DEF DeadWillBeFreed, StillQueued, RealUnload

LEMMA RunActionInv == ASSUME IInv, RunAction PROVE IInv'
  <1> DEFINE q == Queue(Top.i + 1)
  <1>1. /\ At("queue") /\ RestTyped /\ UNCHANGED <<registry, life, cmds, queue>>
        /\ Top.i <= Len(queue) /\ Action.type # "perform_real_unload"
    BY Rest DEF RunAction
  <1>2. /\ Top.i \in Nat \ {0} /\ Len(queue) \in Nat /\ queue \in Seq(Actions) /\ Grown
        /\ ctl # <<>> /\ Top.op = "queue"
    BY <1>1, TopFacts, FrameFacts, Typed DEF IInv, Grown
  <1>3. Top.i \in DOMAIN queue /\ Action \in Actions
    BY <1>1, <1>2 DEF Action
  <1>4. q \in Frames /\ q.op = "queue" /\ q.i = Top.i + 1 /\ q.op \notin ScriptOps
    BY <1>2, OpsTypes DEF Queue, ScriptOps
  <1> HIDE DEF q
  (* What an action calls, before the walk goes on. *)
  <1>5. ASSUME NEW t, Fresh(t), Continue(t), \A c \in Of(t) : c.op = "queue" => c.i = Top.i + 1
        PROVE  IInv'
    <2>1. InQueue(t, Len(queue))
      BY <1>1, <1>2, <1>5 DEF InQueue, Of
    <2>2. ctl' \in Seq(Frames) /\ Sound(ctl', scripts', mains', Len(queue'))
      <3>1. scripts' = scripts /\ mains' = mains /\ queue' = queue
        BY <1>1 DEF registry, life
      <3> QED
        BY <1>1, <1>2, <1>5, <2>1, <3>1, FreshSound DEF Base
    <2>3. t \in Seq(Frames) /\ ctl' = t \o Tail(ctl) /\ dying' = dying /\ dead' = dead
      BY <1>1, <1>5 DEF Fresh, Continue, life
    <2>4. DyingIsDestroyed'
      <3>1. \A s : ~ Ends(Top, s)
        BY <1>2 DEF Ends
      <3> QED
        BY <1>2, <2>3, <3>1, AlikeItself, DyingKept
    <2>5. DeadWillBeFreed'
      <3>1. \A s : Action # RealUnload(s)
        BY <1>1 DEF RealUnload
      <3> QED
        BY <1>1, <1>3, <1>5, <2>3, <3>1, WalkedOn
    <2>6. TypeOK'
      BY <1>1 DEF IInv, TypeOK, RestTyped, registry, life, cmds
    <2> QED
      BY <1>1, <1>2, <2>2, <2>4, <2>5, <2>6, TablesKept DEF IInv, FailedIsUnloaded, Grown
  <1>6. CASE QueueStep(<<>>)
    <2>1. Continue(<<q>>)
      BY <1>4, <1>6, Joined DEF QueueStep, q
    <2>2. Fresh(<<q>>) /\ Of(<<q>>) = {q}
      BY <1>4, FreshOps, ShortOps
    <2> QED
      BY <1>4, <1>5, <2>1, <2>2
  <1>7. ASSUME NEW a \in Frames, Fits(a), a.op # "queue", QueueStep(<<a>>) PROVE IInv'
    <2>1. Continue(<<a, q>>)
      BY <1>4, <1>7, Joined DEF QueueStep, q
    <2>2. Fresh(<<a, q>>) /\ Of(<<a, q>>) = {a, q}
      BY <1>4, <1>7, FreshOps, ShortOps
    <2> QED
      BY <1>4, <1>5, <1>7, <2>1, <2>2
  <1>8. ASSUME NEW a \in Frames, Fits(a), a.op # "queue", NEW b \in Frames, Fits(b), b.op # "queue",
               QueueStep(<<a, b>>)
        PROVE  IInv'
    <2>1. Continue(<<a, b, q>>)
      BY <1>4, <1>8, Joined DEF QueueStep, q
    <2>2. Fresh(<<a, b, q>>) /\ Of(<<a, b, q>>) = {a, b, q}
      BY <1>4, <1>8, FreshOps, ShortOps
    <2> QED
      BY <1>4, <1>5, <1>8, <2>1, <2>2
  <1>9. CASE Action.type = "load" /\ QueueStep(<<Load(Action.path, TRUE)>>)
    <2>1. Action.path \in Paths
      BY <1>3, <1>9 DEF Actions
    <2>2. /\ Load(Action.path, TRUE) \in Frames /\ Fits(Load(Action.path, TRUE))
          /\ Load(Action.path, TRUE).op # "queue"
      BY <2>1, OpsTypes, Fitting DEF Load
    <2> QED
      BY <1>7, <1>9, <2>2
  <1>10. ASSUME Action.id \in scripts
         PROVE  LET d == Destroy(Action.id, "normal")
                    l == [op |-> "pushload", p |-> path[Action.id]] IN
                /\ d \in Frames /\ Fits(d) /\ d.op # "queue"
                /\ l \in Frames /\ Fits(l) /\ l.op # "queue"
    <2>1. Action.id \in Ids /\ path[Action.id] \in Paths
      BY <1>10, Typed
    <2> QED
      BY <1>10, <2>1, OpsTypes, Fitting DEF Destroy
  <1>11. CASE Action.id \in scripts /\ QueueStep(<<Destroy(Action.id, "normal")>>)
    <2> DEFINE d == Destroy(Action.id, "normal")
    <2>1. d \in Frames /\ Fits(d) /\ d.op # "queue"
      BY <1>10, <1>11
    <2>2. QueueStep(<<d>>)
      BY <1>11
    <2> HIDE DEF d
    <2> QED
      BY <1>7, <2>1, <2>2
  <1>12. CASE Action.id \in scripts /\ QueueStep(ReloadOps(Action.id))
    <2> DEFINE d == Destroy(Action.id, "normal")
               l == [op |-> "pushload", p |-> path[Action.id]]
    <2>1. /\ d \in Frames /\ Fits(d) /\ d.op # "queue"
          /\ l \in Frames /\ Fits(l) /\ l.op # "queue"
      BY <1>10, <1>12
    <2>2. QueueStep(<<d, l>>)
      BY <1>12 DEF ReloadOps
    <2> HIDE DEF d, l
    <2> QED
      BY <1>8, <2>1, <2>2
  <1> QED
    BY <1>6, <1>9, <1>11, <1>12 DEF RunAction

(* ~script(): what the instance has registered goes with it. *)
LEMMA FreeTables ==
  ASSUME IInv, NEW s \in scripts, Free(s), path' = path
  PROVE  /\ TablesNameLive' /\ OwnersLive'
         /\ loaded' \in [Paths -> Ids \cup {None}]
         /\ commands' \in [Names -> Ids \cup {None}] /\ owned' \in [Ids -> SUBSET Names]
  <1>1. /\ scripts' = scripts \ {s} /\ loaded' = [loaded EXCEPT ![path[s]] = None]
        /\ commands' = [n \in Names |-> IF n \in owned[s] THEN None ELSE commands[n]]
        /\ owned' = [owned EXCEPT ![s] = {}]
    BY DEF Free
  <1>2. /\ s \in Ids /\ scripts \subseteq Ids /\ path \in [Ids -> Paths]
        /\ loaded \in [Paths -> Ids \cup {None}] /\ commands \in [Names -> Ids \cup {None}]
        /\ owned \in [Ids -> SUBSET Names]
    BY Typed DEF IInv, TypeOK
  <1>3. CommandsOwned'
    <2>1. CommandsOwned
      BY DEF IInv, TablesNameLive
    <2>2. ASSUME NEW n \in Names, commands'[n] # None
          PROVE  commands'[n] \in scripts' /\ n \in owned'[commands'[n]]
      <3>1. n \notin owned[s] /\ commands'[n] = commands[n]
        BY <1>1, <2>2
      <3>2. commands[n] \in scripts /\ n \in owned[commands[n]]
        BY <2>1, <2>2, <3>1 DEF CommandsOwned
      <3> QED
        BY <1>1, <1>2, <3>1, <3>2
    <2>3. ASSUME NEW x \in scripts', NEW n \in owned'[x] PROVE commands'[n] = x
      <3>1. x \in scripts /\ x # s /\ x \in Ids
        BY <1>1, <1>2
      <3>2. n \in owned[x] /\ n \in Names
        BY <1>1, <1>2, <3>1
      <3>3. commands[n] = x /\ n \notin owned[s]
        BY <2>1, <3>1, <3>2 DEF CommandsOwned
      <3> QED
        BY <1>1, <3>2, <3>3
    <2> QED
      BY <2>2, <2>3 DEF CommandsOwned
  <1>4. LoadedPathsExist'
    BY <1>1, <1>2 DEF IInv, TablesNameLive, LoadedPathsExist
  <1>5. OwnersLive'
    BY <1>1, <1>2 DEF IInv, OwnersLive
  <1>6. /\ loaded' \in [Paths -> Ids \cup {None}]
        /\ commands' \in [Names -> Ids \cup {None}] /\ owned' \in [Ids -> SUBSET Names]
    BY <1>1, <1>2
  <1> QED
    BY <1>3, <1>4, <1>5, <1>6 DEF TablesNameLive

LEMMA PerformInv == ASSUME IInv, PerformRealUnload PROVE IInv'
  <1>0. PICK s : s = Action.id
    OBVIOUS
  <1> DEFINE q == Queue(Top.i + 1)
  <1>1. /\ At("queue") /\ RestTyped /\ UNCHANGED <<nextScript, path, queue>>
        /\ Top.i <= Len(queue) /\ Action.type = "perform_real_unload"
    BY Rest DEF PerformRealUnload
  <1>2. /\ Top.i \in Nat \ {0} /\ Len(queue) \in Nat /\ queue \in Seq(Actions) /\ Grown
        /\ ctl # <<>> /\ Top.op = "queue" /\ ctl \in Seq(Frames) /\ ctl[1] = Top
    BY <1>1, TopFacts, FrameFacts, Typed DEF IInv, Grown
  <1>3. Top.i \in DOMAIN queue /\ Action \in Actions
    BY <1>1, <1>2 DEF Action
  <1>4. q \in Frames /\ q.op = "queue" /\ q.i = Top.i + 1 /\ q.op \notin ScriptOps
    BY <1>2, OpsTypes DEF Queue, ScriptOps
  <1>5. Continue(<<q>>)
    BY <1>4, Joined DEF PerformRealUnload, QueueStep
  <1> HIDE DEF q
  <1>6. Fresh(<<q>>) /\ Of(<<q>>) = {q} /\ <<q>> \in Seq(Frames) /\ ctl' = <<q>> \o Tail(ctl)
    BY <1>4, <1>5, FreshOps, ShortOps DEF Continue
  <1>7. ctl' \in Seq(Frames) /\ Sound(ctl', scripts', mains', Len(queue'))
    <2>1. InUse(<<q>>, scripts') /\ Outside(<<q>>) /\ OnceEach(<<q>>) /\ NotStarted(<<q>>, mains')
      <3> DEFINE t == <<q>>
      <3>1. DOMAIN t = {1} /\ t[1] = q
        OBVIOUS
      <3> HIDE DEF t
      <3>2. InUse(t, scripts') /\ Outside(t) /\ OnceEach(t) /\ NotStarted(t, mains')
        BY <1>4, <3>1 DEF InUse, Outside, OnceEach, NotStarted, NotYet
      <3> QED
        BY <3>2 DEF t
    <2>2. InQueue(<<q>>, Len(queue))
      BY <1>1, <1>2, <1>4 DEF InQueue
    <2>3. Sound(ctl, scripts, mains, Len(queue)) /\ ctl[1].op \in Base
      BY <1>2 DEF IInv, Base
    <2>4. Sound(<<q>> \o Tail(ctl), scripts', mains', Len(queue))
      BY ONLY <1>2, <1>6, <2>1, <2>2, <2>3, SoundBase
    <2> QED
      BY <1>1, <1>2, <1>6, <2>4, ReplacedOf
  <1>8. ASSUME dead' = dead \ {s}, dying' = dying \ {s}
        PROVE  DyingIsDestroyed' /\ DeadWillBeFreed'
    <2>1. \A x : ~ Ends(Top, x)
      BY <1>2 DEF Ends
    <2>2. DyingIsDestroyed'
      BY <1>2, <1>6, <1>8, <2>1, AlikeItself, DyingKept
    <2>3. \A x \in dead' : Action # RealUnload(x)
      BY <1>0, <1>8 DEF RealUnload
    <2> QED
      BY <1>1, <1>3, <1>4, <1>5, <1>6, <1>8, <2>2, <2>3, WalkedOn
  <1>9. CASE s \in scripts /\ Free(s)
    <2>1. /\ TablesNameLive' /\ OwnersLive' /\ loaded' \in [Paths -> Ids \cup {None}]
          /\ commands' \in [Names -> Ids \cup {None}] /\ owned' \in [Ids -> SUBSET Names]
      BY <1>1, <1>9, FreeTables
    <2>2. /\ scripts' = scripts \ {s} /\ dead' = dead \ {s} /\ dying' = dying \ {s}
          /\ mains' = mains \ {s} /\ begun' = begun
      BY <1>9 DEF Free
    <2>3. TypeOK'
      BY <1>1, <2>1, <2>2 DEF IInv, TypeOK, RestTyped
    <2> QED
      BY <1>1, <1>2, <1>7, <1>8, <2>1, <2>2, <2>3 DEF IInv, FailedIsUnloaded, Grown
  <1>10. CASE s \notin scripts /\ UNCHANGED <<scripts, loaded, cmds, life>>
    <2>1. dead' = dead \ {s} /\ dying' = dying \ {s}
      BY <1>10, Typed DEF life
    <2>2. TypeOK'
      BY <1>1, <1>10 DEF IInv, TypeOK, RestTyped, cmds, life
    <2>3. UNCHANGED <<registry, cmds>>
      BY <1>1, <1>10 DEF registry
    <2> QED
      BY <1>1, <1>2, <1>7, <1>8, <2>1, <2>2, <2>3, TablesKept DEF IInv, FailedIsUnloaded, Grown
  <1> QED
    BY <1>0, <1>9, <1>10 DEF PerformRealUnload

(* At the end of the list nothing dead is left: its unload was passed.     *)
LEMMA QueueEndInv == ASSUME IInv, PushLoad \/ QueueDone PROVE IInv'
  <1>1. CASE PushLoad
    <2>1. /\ At("pushload") /\ queue' = Append(queue, LoadFile(Top.p)) /\ Continue(<<>>)
          /\ UNCHANGED <<registry, life, cmds>> /\ RestTyped
      BY <1>1, Rest DEF PushLoad
    <2>2. Top.p \in Paths /\ ctl # <<>> /\ Top.op = "pushload"
      BY <2>1, TopFacts, FrameFacts
    <2>3. Grown
      <3> DEFINE a == LoadFile(Top.p)
      <3>1. a \in Actions /\ queue \in Seq(Actions)
        BY <2>2 DEF LoadFile, Actions, IInv
      <3>2. queue' = Append(queue, a)
        BY <2>1
      <3> HIDE DEF a
      <3> QED
        BY <3>1, <3>2 DEF Grown
    <2>4. <<>> \in Seq(Frames) /\ Of(<<>>) = {}
      BY ShortOps
    <2>5. UNCHANGED <<registry, dead, mains, begun, cmds>> /\ dying' = dying /\ dying' \subseteq scripts
      BY <2>1, Typed DEF life
    <2>6. \A s : ~ Ends(Top, s)
      BY <2>2 DEF Ends
    <2> QED
      BY <2>1, <2>2, <2>3, <2>4, <2>5, <2>6, Nested
  <1>2. CASE QueueDone
    <2>1. /\ At("queue") /\ Top.i > Len(queue) /\ queue' = <<>> /\ Continue(<<>>)
          /\ UNCHANGED <<registry, life, cmds>> /\ RestTyped
      BY <1>2, Rest DEF QueueDone
    <2>2. /\ ctl # <<>> /\ Top.op = "queue" /\ Top.i \in Nat /\ 1 \in DOMAIN ctl /\ ctl[1] = Top
          /\ Len(queue) \in Nat /\ DOMAIN queue = 1 .. Len(queue)
      BY <2>1, TopFacts, FrameFacts, Typed DEF IInv
    <2>3. dead = {}
      <3> SUFFICES ASSUME NEW s \in dead PROVE FALSE
        OBVIOUS
      <3>1. PICK k \in DOMAIN queue : Top.i <= k
        BY <2>2 DEF IInv, FailedIsUnloaded, DeadWillBeFreed, StillQueued
      <3> QED
        BY <2>1, <2>2, <3>1
    <2>4. /\ <<>> \in Seq(Frames) /\ Of(<<>>) = {} /\ DOMAIN <<>> = {} /\ Fresh(<<>>)
          /\ <<>> \in Seq(Actions) /\ Len(<<>>) = 0
      BY ShortOps DEF Fresh, InUse, Outside, OnceEach, NotStarted
    <2>5. ctl' \in Seq(Frames) /\ Sound(ctl', scripts', mains', Len(queue'))
      <3>1. scripts' = scripts /\ mains' = mains /\ Len(queue') = 0 /\ InQueue(<<>>, 0)
        BY <2>1, <2>4 DEF registry, life, InQueue
      <3> QED
        BY <2>1, <2>4, <3>1, FreshSound DEF Base
    <2>6. DyingIsDestroyed'
      <3>1. ctl' = <<>> \o Tail(ctl) /\ dying' = dying /\ dead' = dead
        BY <2>1 DEF Continue, life
      <3>2. \A s : ~ Ends(Top, s)
        BY <2>2 DEF Ends
      <3> QED
        BY <2>2, <2>4, <3>1, <3>2, AlikeItself, DyingKept
    <2>7. DeadWillBeFreed'
      BY <2>1, <2>3 DEF DeadWillBeFreed, life
    <2>8. TypeOK'
      BY <2>1 DEF IInv, TypeOK, RestTyped, registry, life, cmds
    <2> QED
      BY <2>1, <2>4, <2>5, <2>6, <2>7, <2>8, TablesKept DEF IInv, FailedIsUnloaded
  <1> QED
    BY <1>1, <1>2

(* shutdown(): the tables are emptied after exiting all lua contexts.      *)
LEMMA ClearInv == ASSUME IInv, Clear PROVE IInv'
  <1>1. /\ At("clear") /\ Continue(<<>>) /\ UNCHANGED <<nextScript, path, err, acts>>
        /\ commands' = [n \in Names |-> None] /\ owned' = [s \in Ids |-> {}]
        /\ loaded' = [p \in Paths |-> None]
        /\ scripts' = {} /\ dead' = {} /\ dying' = {} /\ mains' = {} /\ begun' = begun
        /\ queue' = <<>> /\ reloadLater' = FALSE /\ phase' = "off"
    BY DEF Clear
  <1>2. /\ ctl \in Seq(Frames) /\ ctl # <<>> /\ ctl[1].op \in Base
        /\ Sound(ctl, scripts, mains, Len(queue)) /\ Len(queue) \in Nat
        /\ ctl' = <<>> \o Tail(ctl)
    BY <1>1, TopFacts, Typed DEF IInv, Base, Continue
  <1>3. /\ <<>> \in Seq(Frames) /\ InUse(<<>>, {}) /\ Outside(<<>>) /\ InQueue(<<>>, 0)
        /\ OnceEach(<<>>) /\ NotStarted(<<>>, {})
    BY ShortOps DEF InUse, Outside, InQueue, OnceEach, NotStarted
  <1>4. Sound(<<>> \o Tail(ctl), {}, {}, 0)
    BY ONLY <1>2, <1>3, SoundBase
  <1>5. ctl' \in Seq(Frames) /\ Sound(ctl', scripts', mains', Len(queue'))
    <2>1. Len(queue') = 0
      BY <1>1
    <2> QED
      BY <1>1, <1>2, <1>3, <1>4, <2>1, ReplacedOf
  <1>6. DyingIsDestroyed' /\ DeadWillBeFreed' /\ queue' \in Seq(Actions)
    BY <1>1 DEF DyingIsDestroyed, DeadWillBeFreed
  <1>7. TypeOK' /\ TablesNameLive' /\ OwnersLive'
    BY <1>1 DEF IInv, TypeOK, TablesNameLive, CommandsOwned, LoadedPathsExist, OwnersLive
  <1> QED
    BY <1>5, <1>6, <1>7 DEF IInv, FailedIsUnloaded

(* run() after the queue, the reload branch, and shutdown() *)
LEMMA LoopsInv ==
  ASSUME IInv,
         \/ InitDone \/ RunScriptsDone \/ ScriptRan \/ ReloadStep \/ ReloadDone \/ QuitScripts
         \/ \E s \in Ids : RunScript(s)
  PROVE  IInv'
  <1>0. scripts \subseteq Ids
    BY Typed
  <1>e. <<>> \in Seq(Frames) /\ Of(<<>>) = {}
    BY ShortOps
  (* A call on a script, and the loop over the others. *)
  <1>1. ASSUME NEW op \in Loops, At(op), NEW a \in Frames, Fits(a),
               NEW rest \in {RunScripts(t) : t \in SUBSET Ids} \cup {ReloadRun(t) : t \in SUBSET Ids}
                              \cup {QuitAll(t) : t \in SUBSET Ids},
               Continue(<<a, rest>>), RestTyped, UNCHANGED <<registry, life, cmds, queue>>
        PROVE  IInv'
    <2>1. rest \in Frames /\ Fits(rest)
      BY <1>1, OpsTypes, Fitting
    <2>2. <<a, rest>> \in Seq(Frames) /\ \A c \in Of(<<a, rest>>) : Fits(c)
      BY <1>1, <2>1, ShortOps
    <2>3. op \notin {"destroy", "bury"}
      BY <1>1 DEF Loops
    <2> QED
      BY <1>1, <2>2, <2>3, Quiet
  <1>2. CASE InitDone
    <2>1. At("live") /\ Continue(<<>>) /\ UNCHANGED <<registry, life, cmds, queue>> /\ RestTyped
      BY <1>2 DEF InitDone, RestTyped, IInv, TypeOK
    <2> QED
      BY <1>e, <2>1, Quiet
  <1>3. CASE RunScriptsDone
    <2>1. At("runscripts") /\ Continue(<<>>) /\ UNCHANGED <<registry, life, cmds, queue>> /\ RestTyped
      BY <1>3, Rest DEF RunScriptsDone
    <2> QED
      BY <1>e, <2>1, Quiet
  <1>4. CASE ScriptRan
    <2>0. At("ran") /\ err' = FALSE /\ UNCHANGED <<registry, dead, mains, begun, cmds, queue>> /\ RestTyped
      BY <1>4, Rest DEF ScriptRan
    <2>1. CASE Continue(<<Fire, Destroy(Top.s, "error")>>) /\ dying' = dying \cup {Top.s}
      BY <2>0, <2>1, Failing DEF ScriptOps
    <2>2. CASE dying' = dying /\ (Continue(<<Destroy(Top.s, "normal")>>) \/ Continue(<<>>))
      <3> DEFINE d == Destroy(Top.s, "normal")
      <3>1. Top.s \in scripts /\ Top.s \in Ids
        BY <1>0, <2>0, TopFacts DEF ScriptOps
      <3>2. d \in Frames /\ Fits(d)
        BY <3>1, OpsTypes, Fitting
      <3>3. Continue(<<d>>) \/ Continue(<<>>)
        BY <2>2
      <3> HIDE DEF d
      <3>4. <<d>> \in Seq(Frames) /\ \A c \in Of(<<d>>) : Fits(c)
        BY <3>2, ShortOps
      <3>5. UNCHANGED <<registry, life, cmds, queue>>
        BY <2>0, <2>2 DEF life
      <3> QED
        BY <1>e, <2>0, <3>3, <3>4, <3>5, Quiet
    <2> QED
      BY <1>4, <2>1, <2>2 DEF ScriptRan
  <1>5. CASE ReloadStep
    <2>0. At("reloadrun") /\ RestTyped /\ UNCHANGED <<registry, life, cmds, queue>>
      BY <1>5, Rest DEF ReloadStep
    <2>1. ASSUME NEW s \in Top.todo \cap scripts, NEW a \in {Lua(s), Destroy(s, "normal")},
                 Continue(<<a, ReloadRun(Top.todo \ {s})>>)
          PROVE  IInv'
      <3>1. Top.todo \ {s} \in SUBSET Ids /\ s \in Ids /\ s \in scripts
        BY <1>0, <2>0, TopFacts, FrameFacts DEF Loops
      <3>2. a \in Frames /\ Fits(a)
        BY <2>1, <3>1, OpsTypes, Fitting
      <3> QED
        BY <1>1, <2>0, <2>1, <3>1, <3>2 DEF Loops
    <2>2. CASE Continue(<<>>)
      BY <1>e, <2>0, <2>2, Quiet
    <2> QED
      BY <1>5, <2>1, <2>2 DEF ReloadStep
  <1>6. CASE ReloadDone
    <2>1. At("reloaded") /\ Continue(<<>>) /\ UNCHANGED <<registry, life, cmds, queue>> /\ RestTyped
      BY <1>6 DEF ReloadDone, RestTyped, IInv, TypeOK
    <2> QED
      BY <1>e, <2>1, Quiet
  <1>7. CASE QuitScripts
    <2>0. RestTyped /\ UNCHANGED <<registry, life, cmds, queue>>
      BY <1>7, Rest DEF QuitScripts
    <2>1. CASE At("quit") /\ Continue(<<QuitAll(scripts)>>)
      <3> DEFINE r == QuitAll(scripts)
      <3>1. r \in Frames /\ Fits(r)
        BY <1>0, OpsTypes, Fitting
      <3>2. Continue(<<r>>)
        BY <2>1
      <3> HIDE DEF r
      <3>3. <<r>> \in Seq(Frames) /\ \A c \in Of(<<r>>) : Fits(c)
        BY <3>1, ShortOps
      <3> QED
        BY <2>0, <2>1, <3>2, <3>3, Quiet
    <2>2. ASSUME At("quitall"), NEW s \in Top.todo \cap scripts,
                 Continue(<<Destroy(s, "quit"), QuitAll(Top.todo \ {s})>>)
          PROVE  IInv'
      <3>1. Top.todo \ {s} \in SUBSET Ids /\ s \in Ids /\ s \in scripts
        BY <1>0, <2>2, TopFacts, FrameFacts DEF Loops
      <3>2. Destroy(s, "quit") \in Frames /\ Fits(Destroy(s, "quit"))
        BY <3>1, OpsTypes, Fitting
      <3> QED
        BY <1>1, <2>0, <2>2, <3>1, <3>2 DEF Loops
    <2>3. CASE At("quitall") /\ Continue(<<>>)
      BY <1>e, <2>0, <2>3, Quiet
    <2> QED
      BY <1>7, <2>1, <2>2, <2>3 DEF QuitScripts
  <1>8. ASSUME NEW s \in Ids, RunScript(s) PROVE IInv'
    <2>1. /\ At("runscripts") /\ RestTyped /\ UNCHANGED <<registry, life, cmds, queue>>
          /\ s \in scripts /\ Continue(<<Lua(s), Ran(s), RunScripts(Top.todo \ {s})>>)
      BY <1>8, Rest DEF RunScript
    <2>2. Top.todo \ {s} \in SUBSET Ids
      BY <2>1, TopFacts, FrameFacts DEF Loops
    <2> DEFINE l == Lua(s)
               r == Ran(s)
               rest == RunScripts(Top.todo \ {s})
    <2>3. /\ l \in Frames /\ Fits(l) /\ r \in Frames /\ Fits(r)
          /\ rest \in Frames /\ Fits(rest)
      BY <2>1, <2>2, OpsTypes, Fitting
    <2>4. Continue(<<l, r, rest>>)
      BY <2>1
    <2> HIDE DEF l, r, rest
    <2>5. <<l, r, rest>> \in Seq(Frames) /\ \A c \in Of(<<l, r, rest>>) : Fits(c)
      BY <2>3, ShortOps
    <2> QED
      BY <2>1, <2>4, <2>5, Quiet
  <1> QED
    BY <1>2, <1>3, <1>4, <1>5, <1>6, <1>7, <1>8

----------------------------------------------------------------------------
LEMMA Initially == Init => IInv
  <1> SUFFICES ASSUME Init PROVE IInv
    OBVIOUS
  <1>1. <<>> \in Seq(Frames) /\ <<>> \in Seq(Actions) /\ DOMAIN <<>> = {} /\ ctl = <<>> /\ queue = <<>>
    BY ShortOps DEF Init
  <1>2. Sound(ctl, scripts, mains, Len(queue))
    BY <1>1 DEF Sound, InUse, Outside, InQueue, OnceEach, NotStarted
  <1>3. path \in [Ids -> Paths]
    <2>1. (CHOOSE p \in Paths : TRUE) \in Paths
      OBVIOUS
    <2> QED
      BY <2>1 DEF Init
  <1>4. TypeOK
    <2>1. nextScript \in 1 .. MaxScripts + 1 /\ acts \in 0 .. MaxActs
      BY DEF Init
    <2>2. /\ loaded \in [Paths -> Ids \cup {None}] /\ commands \in [Names -> Ids \cup {None}]
          /\ owned \in [Ids -> SUBSET Names]
      BY DEF Init
    <2>3. /\ scripts = {} /\ dead = {} /\ dying = {} /\ mains = {} /\ begun = {}
          /\ reloadLater = FALSE /\ phase = "boot" /\ err = FALSE
      BY DEF Init
    <2> QED
      BY <1>3, <2>1, <2>2, <2>3 DEF TypeOK
  <1>5. TablesNameLive /\ OwnersLive /\ FailedIsUnloaded
    BY DEF Init, TablesNameLive, CommandsOwned, LoadedPathsExist, OwnersLive,
           FailedIsUnloaded, DyingIsDestroyed, DeadWillBeFreed
  <1> QED
    BY <1>1, <1>2, <1>4, <1>5 DEF IInv

LEMMA Stays == IInv /\ [Next]_vars => IInv'
  <1> SUFFICES ASSUME IInv, [Next]_vars PROVE IInv'
    OBVIOUS
  <1>1. ASSUME UNCHANGED vars PROVE IInv'
    <2>1. /\ UNCHANGED <<registry, life, cmds, ctl, queue, reloadLater, phase, err, acts>>
      BY <1>1 DEF vars
    <2>2. /\ Sound(ctl, scripts, mains, Len(queue))' /\ TypeOK' /\ TablesNameLive' /\ OwnersLive'
      BY <2>1 DEF IInv, TypeOK, TablesNameLive, CommandsOwned, LoadedPathsExist, OwnersLive,
           registry, life, cmds
    <2>3. DyingIsDestroyed' /\ DeadWillBeFreed'
      BY <2>1 DEF IInv, FailedIsUnloaded, DyingIsDestroyed, DeadWillBeFreed, StillQueued, life
    <2> QED
      BY <2>1, <2>2, <2>3 DEF IInv, FailedIsUnloaded
  <1>2. CASE \/ LuaReturn \/ LuaFail \/ LuaPrint \/ \E p \in Paths : LuaImport(p)
    BY <1>2, LuaCallsInv
  <1>3. CASE \/ \E a \in Requests : LuaRequest(a)
             \/ LuaReloadScripts \/ GameRestart
             \/ \E n \in Names : LuaRegister(n) \/ LuaUnregister(n)
    BY <1>3, LuaEffectsInv
  <1>4. CASE CommandDone \/ \E n \in Names : Command(n)
    BY <1>4, CommandInv
  <1>5. CASE FireEvent \/ EachDone \/ HandlerDone \/ \E s \in Ids : CallHandler(s)
    BY <1>5, EventsInv
  <1>6. CASE LoadScript \/ CreateBeyondBound \/ CreateScript
    BY <1>6, LoadingInv, CreateInv
  <1>7. CASE ScriptStarted \/ RegisterScript \/ StartMain \/ MainReturned
    BY <1>7, StartingInv
  <1>8. CASE StartMains \/ NextMain \/ LoadNext
    BY <1>8, AllInv
  <1>9. CASE DestroyScript \/ ExitHandlers \/ ExitDone \/ BuryScript
    BY <1>9, DestroyInv, BuryInv
  <1>10. CASE RunAction \/ PushLoad \/ PerformRealUnload \/ QueueDone
    BY <1>10, RunActionInv, QueueEndInv, PerformInv
  <1>11. CASE InitManager \/ Frame \/ GameEvent \/ Shutdown
    BY <1>11, BeginningInv
  <1>12. CASE FrameBody \/ Clear
    BY <1>12, FrameBodyInv, ClearInv
  <1>13. CASE \/ InitDone \/ RunScriptsDone \/ ScriptRan \/ ReloadStep \/ ReloadDone \/ QuitScripts
              \/ \E s \in Ids : RunScript(s)
    BY <1>13, LoopsInv
  <1>14. CASE Off
    BY <1>1, <1>14 DEF Off
  <1> QED
    BY <1>1, <1>2, <1>3, <1>4, <1>5, <1>6, <1>7, <1>8, <1>9, <1>10, <1>11, <1>12, <1>13, <1>14
       DEF Next

THEOREM Invariance == Spec => []IInv
  <1>1. Init => IInv
    BY Initially
  <1>2. IInv /\ [Next]_vars => IInv'
    BY Stays
  <1> QED
    BY <1>1, <1>2, PTL DEF Spec

(* The shape of every variable, for any number of instances.               *)
THEOREM TypeCorrect == Spec => []TypeOK
  <1>1. IInv => TypeOK
    BY DEF IInv
  <1> QED
    BY <1>1, Invariance, PTL

(* perform_real_unload never frees an instance that something on the call  *)
(* stack works on, however deep scripts import, print and fail in each     *)
(* other: it runs "after exiting all lua contexts".                        *)
THEOREM NoFreedInUse == Spec => []NoFreedInstanceInUse
  <1>1. IInv => NoFreedInstanceInUse
    <2> SUFFICES ASSUME IInv, NEW i \in DOMAIN ctl, "s" \in DOMAIN ctl[i]
                 PROVE  ctl[i].s \in scripts
      BY DEF NoFreedInstanceInUse
    <2>1. ctl[i] \in Frames
      BY DEF IInv
    <2>2. ctl[i].op \in ScriptOps
      BY <2>1, FrameFacts
    <2> QED
      BY <2>2 DEF IInv, Sound, InUse
  <1> QED
    BY <1>1, Invariance, PTL

(* An instance marked dying is on its way to destroy_script(), a dead one  *)
(* has its perform_real_unload ahead of every walk over the queue.         *)
THEOREM FailedIsAlwaysUnloaded == Spec => []FailedIsUnloaded
  <1>1. IInv => FailedIsUnloaded
    BY DEF IInv
  <1> QED
    BY <1>1, Invariance, PTL

(* _commands and _loaded_paths name instances that exist, and theirs.      *)
THEOREM TablesAlwaysNameLive == Spec => []TablesNameLive
  <1>1. IInv => TablesNameLive
    BY DEF IInv
  <1> QED
    BY <1>1, Invariance, PTL

----------------------------------------------------------------------------
(* What became of script:reload(): a later instance of the file has been   *)
(* created; or the reload is ahead in the queue, of any unload of s; or s  *)
(* is being destroyed, with the load to be queued behind its unload; or    *)
(* the load is ahead in the queue and nothing will have the path when it   *)
(* is its turn; or the file is being loaded.                               *)
Ahead(k) == \A i \in DOMAIN ctl : ctl[i].op = "queue" => ctl[i].i <= k

Restarted(s) == \E t \in 1 .. nextScript - 1 : t > s /\ path[t] = path[s]

ReloadAhead(s) ==
  /\ s \in scripts
  /\ \E k \in DOMAIN queue :
       /\ queue[k] = Reload(s) /\ Ahead(k)
       /\ \A j \in DOMAIN queue : queue[j] = RealUnload(s) => k < j

Stopping(s) ==
  /\ s \in scripts
  /\ \E i \in DOMAIN ctl :
       /\ ctl[i].op = "pushload" /\ ctl[i].p = path[s]
       /\ s \in dead \/ \E j \in DOMAIN ctl : j < i /\ Ends(ctl[j], s)

Vacant(s) ==
  /\ s \notin scripts /\ loaded[path[s]] = None
  /\ \A i \in DOMAIN ctl : ctl[i].op \in {"started", "register"} => s < ctl[i].s

LoadAhead(s) ==
  \E k \in DOMAIN queue :
    /\ queue[k] = LoadFile(path[s]) /\ Ahead(k)
    /\ \/ Vacant(s)
       \/ /\ s \in scripts
          /\ \E j \in DOMAIN queue : j < k /\ queue[j] = RealUnload(s) /\ Ahead(j)

Loading(s) ==
  \/ At("load") /\ Top.p = path[s] /\ loaded[path[s]] = None
  \/ \E i \in DOMAIN ctl : ctl[i].op = "create" /\ ctl[i].p = path[s]

OnItsWay(s) ==
  Restarted(s) \/ ReloadAhead(s) \/ Stopping(s) \/ LoadAhead(s) \/ Loading(s)

(* An unload is queued of what is dead, or gone; when the manager is       *)
(* cleared, or about to be, init() is over.                                *)
Buried ==
  \A k \in DOMAIN queue : queue[k].type = "perform_real_unload" =>
    /\ queue[k].id \in 1 .. nextScript - 1
    /\ queue[k].id \in scripts => queue[k].id \in dead

Closing ==
  phase = "off" \/ (\E j \in DOMAIN ctl : ctl[j].op = "clear") =>
    \A i \in DOMAIN ctl : ctl[i].op # "live"

Reloads ==
  /\ \A s \in reloadAsked : s \in 1 .. nextScript - 1
  /\ phase # "off" /\ nextScript <= MaxScripts => \A s \in reloadAsked : OnItsWay(s)
  /\ Buried
  /\ Closing

RInv == IInv /\ Reloads

USE DEF RInv

(* A step that frees nothing and goes on with ops. *)
Gentle(ops) ==
  /\ Grown
  /\ reloadAsked' = reloadAsked /\ (phase' = "off" <=> phase = "off")
  /\ nextScript' \in Nat /\ nextScript <= nextScript'
  /\ \A t \in 1 .. nextScript - 1 : path'[t] = path[t]
  /\ scripts \subseteq scripts' /\ \A t \in scripts' \ scripts : nextScript <= t
  /\ dead \subseteq dead'
  /\ \A k \in DOMAIN queue' \ DOMAIN queue : queue'[k].type = "perform_real_unload" =>
       queue'[k].id \in scripts /\ queue'[k].id \in dead'
  /\ \A p \in Paths : loaded[p] = None /\ loaded'[p] # None =>
       Top.op = "register" /\ loaded'[p] = Top.s /\ path[Top.s] = p
  /\ \A s : Ends(Top, s) => s \in dead' \/ \E c \in Of(ops) : Ends(c, s)
  /\ \A c \in Of(ops) : c.op \in {"started", "register"} =>
       \/ c.s \in Nat /\ nextScript <= c.s
       \/ Top.op \in {"started", "register"} /\ c.s = Top.s
  /\ \A c \in Of(ops) : c.op # "live" /\ c.op # "clear"
  /\ \A c \in Of(ops) : c.op = "queue" => c.i = 1 \/ (Top.op = "queue" /\ c.i = Top.i + 1)

(* The reload of s is what the top of the stack is about. *)
Due(s) ==
  \/ Top.op = "pushload" /\ Top.p = path[s] /\ s \in scripts \cap dead
  \/ Top.op = "load" /\ Top.p = path[s] /\ loaded[path[s]] = None
  \/ Top.op = "create" /\ Top.p = path[s]
  \/ /\ Top.op = "queue" /\ Top.i \in DOMAIN queue
     /\ \/ queue[Top.i] = Reload(s) /\ s \in scripts
        \/ queue[Top.i] = LoadFile(path[s]) /\ Vacant(s)
        \/ queue[Top.i] = RealUnload(s) /\ s \in scripts

DuesPaid == \A s \in reloadAsked : Due(s) /\ nextScript <= MaxScripts => OnItsWay(s)'

(* The stack after the step, and what of it is old. *)
LEMMA Lower ==
  ASSUME IInv, ctl # <<>>, NEW st, Alike(st), NEW ops \in Seq(Frames), ctl' = ops \o Tail(st)
  PROVE  /\ DOMAIN ops = 1 .. Len(ops) /\ Len(ops) \in Nat
         /\ \A i \in DOMAIN ops : i \in DOMAIN ctl' /\ ctl'[i] = ops[i]
         /\ \A j \in DOMAIN ctl \ {1} :
              /\ j \in Nat /\ j > 1 /\ j + Len(ops) - 1 \in DOMAIN ctl'
              /\ ctl[j].op \notin Loops => ctl'[j + Len(ops) - 1] = ctl[j]
         /\ \A i \in DOMAIN ctl' :
              \/ ctl'[i] \in Of(ops)
              \/ \E j \in DOMAIN ctl \ {1} : /\ ctl'[i].op = ctl[j].op
                                             /\ ctl[j].op \notin Loops => ctl'[i] = ctl[j]
         /\ 1 \in DOMAIN ctl /\ ctl[1] = Top /\ Top \in Frames
  <1> DEFINE t == ops \o Tail(st)
  <1>1. /\ ctl \in Seq(Frames) /\ st \in Seq(Frames) /\ st # <<>> /\ DOMAIN st = DOMAIN ctl
        /\ \A i \in DOMAIN ctl : /\ st[i].op = ctl[i].op
                                 /\ ctl[i].op \notin Loops => st[i] = ctl[i]
    BY DEF IInv, Alike
  <1>2. /\ \A k \in DOMAIN ops : k \in DOMAIN t /\ t[k] = ops[k]
        /\ \A k \in DOMAIN st \ {1} : /\ k + Len(ops) - 1 \in DOMAIN t
                                      /\ t[k + Len(ops) - 1] = st[k]
    BY <1>1, Replaced
  <1>3. \A i \in DOMAIN t : t[i] \in Of(ops) \/ \E j \in DOMAIN st \ {1} : t[i] = st[j]
    BY <1>1, ReplacedOf
  <1>4. ctl' = t
    OBVIOUS
  <1> HIDE DEF t
  <1>5. \A j \in DOMAIN ctl \ {1} : j \in Nat /\ j > 1
    BY <1>1
  <1>6. \A j \in DOMAIN ctl \ {1} :
          /\ j + Len(ops) - 1 \in DOMAIN ctl'
          /\ ctl[j].op \notin Loops => ctl'[j + Len(ops) - 1] = ctl[j]
    <2> SUFFICES ASSUME NEW j \in DOMAIN ctl \ {1}
                 PROVE  /\ j + Len(ops) - 1 \in DOMAIN ctl'
                        /\ ctl[j].op \notin Loops => ctl'[j + Len(ops) - 1] = ctl[j]
      OBVIOUS
    <2>1. j \in DOMAIN st \ {1}
      BY <1>1
    <2>2. j + Len(ops) - 1 \in DOMAIN t /\ t[j + Len(ops) - 1] = st[j]
      BY <1>2, <2>1, Zenon
    <2> QED
      BY <1>1, <1>4, <2>2
  <1>7. \A i \in DOMAIN ctl' :
          \/ ctl'[i] \in Of(ops)
          \/ \E j \in DOMAIN ctl \ {1} : /\ ctl'[i].op = ctl[j].op
                                         /\ ctl[j].op \notin Loops => ctl'[i] = ctl[j]
    BY <1>1, <1>3, <1>4
  <1>8. 1 \in DOMAIN ctl /\ ctl[1] = Top /\ Top \in Frames
    BY <1>1 DEF Top
  <1>9. DOMAIN ops = 1 .. Len(ops) /\ Len(ops) \in Nat
    BY ops \in Seq(Frames)
  <1>10. \A i \in DOMAIN ops : i \in DOMAIN ctl' /\ ctl'[i] = ops[i]
    BY <1>2, <1>4
  <1> QED
    BY ONLY <1>5, <1>6, <1>7, <1>8, <1>9, <1>10

LEMMA WayKept ==
  ASSUME IInv, ctl # <<>>, NEW st, Alike(st), NEW ops \in Seq(Frames), ctl' = ops \o Tail(st),
         Gentle(ops), NEW s \in 1 .. nextScript - 1, OnItsWay(s)
  PROVE  OnItsWay(s)' \/ Due(s)
  <1>1. /\ DOMAIN ops = 1 .. Len(ops) /\ Len(ops) \in Nat
        /\ \A i \in DOMAIN ops : i \in DOMAIN ctl' /\ ctl'[i] = ops[i]
        /\ \A j \in DOMAIN ctl \ {1} :
             /\ j \in Nat /\ j > 1 /\ j + Len(ops) - 1 \in DOMAIN ctl'
             /\ ctl[j].op \notin Loops => ctl'[j + Len(ops) - 1] = ctl[j]
        /\ \A i \in DOMAIN ctl' :
             \/ ctl'[i] \in Of(ops)
             \/ \E j \in DOMAIN ctl \ {1} : /\ ctl'[i].op = ctl[j].op
                                            /\ ctl[j].op \notin Loops => ctl'[i] = ctl[j]
        /\ 1 \in DOMAIN ctl /\ ctl[1] = Top /\ Top \in Frames
    BY Lower
  <1>2. /\ nextScript \in Nat /\ s \in Nat /\ s < nextScript
        /\ s \in Ids /\ path[s] \in Paths /\ path'[s] = path[s]
        /\ nextScript' \in Nat /\ nextScript <= nextScript'
    <2>1. nextScript \in 1 .. MaxScripts + 1 /\ path \in [Ids -> Paths]
      BY DEF IInv, TypeOK
    <2>2. /\ nextScript' \in Nat /\ nextScript <= nextScript'
          /\ \A t \in 1 .. nextScript - 1 : path'[t] = path[t]
      BY DEF Gentle
    <2> QED
      BY <2>1, <2>2 DEF Ids
  <1>3. /\ queue \in Seq(Actions) /\ queue' \in Seq(Actions)
        /\ DOMAIN queue = 1 .. Len(queue) /\ DOMAIN queue' = 1 .. Len(queue')
        /\ Len(queue) \in Nat /\ Len(queue') \in Nat /\ Len(queue) <= Len(queue')
        /\ \A k \in DOMAIN queue : k \in DOMAIN queue' /\ queue'[k] = queue[k]
    BY DEF Gentle, Grown, IInv
  <1>4. {"queue", "pushload", "create", "started", "register", "destroy", "bury"} \cap Loops = {}
    BY DEF Loops
  <1>5. ASSUME NEW k \in DOMAIN queue, Ahead(k)
        PROVE  Ahead(k)' \/ (Top.op = "queue" /\ Top.i = k)
    <2> SUFFICES ASSUME ~ (Top.op = "queue" /\ Top.i = k), NEW i \in DOMAIN ctl', ctl'[i].op = "queue"
                 PROVE  ctl'[i].i <= k
      BY DEF Ahead
    <2>1. k \in Nat /\ k >= 1
      BY <1>3
    <2>2. CASE ctl'[i] \in Of(ops)
      <3>1. ctl'[i].i = 1 \/ (Top.op = "queue" /\ ctl'[i].i = Top.i + 1)
        BY <2>2 DEF Gentle
      <3>2. Top.op = "queue" => Top.i \in Nat /\ Top.i <= k
        BY <1>1, <1>5, FrameFacts DEF Ahead
      <3> QED
        BY <2>1, <3>1, <3>2
    <2>3. ASSUME NEW j \in DOMAIN ctl \ {1}, ctl'[i].op = ctl[j].op, ctl[j].op \notin Loops => ctl'[i] = ctl[j]
          PROVE  ctl'[i].i <= k
      BY <1>4, <1>5, <2>3 DEF Ahead
    <2> QED
      BY <1>1, <2>2, <2>3
  <1>6. CASE Restarted(s)
    <2>1. PICK t \in 1 .. nextScript - 1 : t > s /\ path[t] = path[s]
      BY <1>6 DEF Restarted
    <2>2. t \in 1 .. nextScript' - 1
      BY <1>2, <2>1
    <2>3. path'[t] = path[t]
      BY <2>1 DEF Gentle
    <2> QED
      BY <1>2, <2>1, <2>2, <2>3 DEF OnItsWay, Restarted
  <1>7. CASE ReloadAhead(s)
    <2>1. PICK k \in DOMAIN queue :
            /\ queue[k] = Reload(s) /\ Ahead(k)
            /\ \A j \in DOMAIN queue : queue[j] = RealUnload(s) => k < j
      BY <1>7 DEF ReloadAhead
    <2>2. s \in scripts /\ s \in scripts'
      BY <1>7 DEF ReloadAhead, Gentle
    <2>3. CASE Ahead(k)'
      <3>1. k \in DOMAIN queue' /\ queue'[k] = Reload(s)
        BY <1>3, <2>1
      <3>2. \A j \in DOMAIN queue' : queue'[j] = RealUnload(s) => k < j
        BY <1>3, <2>1
      <3> QED
        BY <2>2, <2>3, <3>1, <3>2 DEF OnItsWay, ReloadAhead, Reload, RealUnload
    <2>4. CASE Top.op = "queue" /\ Top.i = k
      BY <2>1, <2>2, <2>4 DEF Due
    <2> QED
      BY <1>5, <2>1, <2>3, <2>4
  <1>8. CASE Stopping(s)
    <2>1. PICK i \in DOMAIN ctl :
            /\ ctl[i].op = "pushload" /\ ctl[i].p = path[s]
            /\ s \in dead \/ \E j \in DOMAIN ctl : j < i /\ Ends(ctl[j], s)
      BY <1>8 DEF Stopping
    <2>2. s \in scripts /\ s \in scripts' /\ (s \in dead => s \in dead')
      BY <1>8 DEF Stopping, Gentle
    <2>3. CASE i = 1
      <3>1. \A j \in DOMAIN ctl : ~ (j < 1)
        BY <1>1
      <3> QED
        BY <1>1, <2>1, <2>2, <2>3, <3>1 DEF Due
    <2>4. CASE i # 1
      <3> DEFINE a == i + Len(ops) - 1
      <3>1. a \in DOMAIN ctl' /\ ctl'[a] = ctl[i] /\ i > 1 /\ i \in Nat
        BY <1>1, <1>4, <2>1, <2>4
      <3>2. s \in dead' \/ \E j \in DOMAIN ctl' : j < a /\ Ends(ctl'[j], s)
        <4>1. CASE s \in dead
          BY <2>2, <4>1
        <4>2. ASSUME NEW j \in DOMAIN ctl \ {1}, j < i, Ends(ctl[j], s)
              PROVE  \E m \in DOMAIN ctl' : m < a /\ Ends(ctl'[m], s)
          <5>1. j + Len(ops) - 1 \in DOMAIN ctl' /\ ctl'[j + Len(ops) - 1] = ctl[j] /\ j \in Nat
            BY <1>1, <1>4, <4>2 DEF Ends
          <5>2. j + Len(ops) - 1 < a
            BY <1>1, <3>1, <4>2, <5>1
          <5> QED
            BY <4>2, <5>1, <5>2
        <4>3. CASE Ends(ctl[1], s)
          <5>1. s \in dead' \/ \E c \in Of(ops) : Ends(c, s)
            BY <1>1, <4>3 DEF Gentle
          <5>2. ASSUME NEW c \in Of(ops), Ends(c, s)
                PROVE  \E m \in DOMAIN ctl' : m < a /\ Ends(ctl'[m], s)
            <6>1. PICK m \in DOMAIN ops : ops[m] = c
              BY DEF Of
            <6>2. m < a
              BY <1>1, <3>1
            <6> QED
              BY <1>1, <5>2, <6>1, <6>2
          <5> QED
            BY <5>1, <5>2
        <4> QED
          BY <2>1, <4>1, <4>2, <4>3
      <3> HIDE DEF a
      <3> QED
        BY <1>2, <2>1, <2>2, <3>1, <3>2 DEF OnItsWay, Stopping, Ends
    <2> QED
      BY <2>3, <2>4
  <1>9. ASSUME Vacant(s) PROVE Vacant(s)' \/ Restarted(s)'
    <2>1. s \notin scripts'
      BY <1>2, <1>9 DEF Vacant, Gentle
    <2>2. CASE loaded'[path[s]] = None
      <3>1. ASSUME NEW i \in DOMAIN ctl', ctl'[i].op \in {"started", "register"}
            PROVE  s < ctl'[i].s
        <4>1. CASE ctl'[i] \in Of(ops)
          <5>1. \/ ctl'[i].s \in Nat /\ nextScript <= ctl'[i].s
                \/ Top.op \in {"started", "register"} /\ ctl'[i].s = Top.s
            BY <3>1, <4>1 DEF Gentle
          <5>2. Top.op \in {"started", "register"} => s < Top.s
            BY <1>1, <1>9 DEF Vacant
          <5> QED
            BY <1>2, <5>1, <5>2
        <4>2. ASSUME NEW j \in DOMAIN ctl \ {1}, ctl'[i].op = ctl[j].op, ctl[j].op \notin Loops => ctl'[i] = ctl[j]
              PROVE  s < ctl'[i].s
          BY <1>4, <1>9, <3>1, <4>2 DEF Vacant
        <4> QED
          BY <1>1, <4>1, <4>2
      <3> QED
        BY <1>2, <2>1, <2>2, <3>1 DEF Vacant
    <2>3. CASE loaded'[path[s]] # None
      <3>1. Top.op = "register" /\ loaded'[path[s]] = Top.s /\ path[Top.s] = path[s]
        BY <1>2, <1>9, <2>3 DEF Gentle, Vacant
      <3>2. s < Top.s /\ Top.s \in scripts
        BY <1>1, <1>9, <3>1 DEF Vacant, IInv, Sound, InUse, ScriptOps
      <3>3. Top.s \in 1 .. nextScript - 1
        BY <3>2 DEF IInv, TypeOK
      <3>4. Top.s \in 1 .. nextScript' - 1 /\ path'[Top.s] = path[Top.s]
        BY <1>2, <3>3 DEF Gentle
      <3> QED
        BY <1>2, <3>1, <3>2, <3>4 DEF Restarted
    <2> QED
      BY <2>2, <2>3
  <1>10. CASE LoadAhead(s)
    <2>1. PICK k \in DOMAIN queue :
            /\ queue[k] = LoadFile(path[s]) /\ Ahead(k)
            /\ \/ Vacant(s)
               \/ /\ s \in scripts
                  /\ \E j \in DOMAIN queue : j < k /\ queue[j] = RealUnload(s) /\ Ahead(j)
      BY <1>10 DEF LoadAhead
    <2>2. k \in DOMAIN queue' /\ queue'[k] = LoadFile(path'[s])
      BY <1>2, <1>3, <2>1
    <2>3. CASE Vacant(s)
      <3>1. CASE Ahead(k)' /\ Vacant(s)'
        BY <2>2, <3>1 DEF OnItsWay, LoadAhead, LoadFile
      <3>2. CASE Top.op = "queue" /\ Top.i = k
        BY <2>1, <2>3, <3>2 DEF Due
      <3> QED
        BY <1>5, <1>9, <2>1, <2>3, <3>1, <3>2 DEF OnItsWay
    <2>4. CASE s \in scripts /\ \E j \in DOMAIN queue : j < k /\ queue[j] = RealUnload(s) /\ Ahead(j)
      <3>1. PICK j \in DOMAIN queue : j < k /\ queue[j] = RealUnload(s) /\ Ahead(j)
        BY <2>4
      <3>2. CASE Ahead(j)'
        <4>1. j \in DOMAIN queue' /\ queue'[j] = RealUnload(s) /\ s \in scripts'
          BY <1>3, <2>4, <3>1 DEF Gentle
        <4>2. ~ (Top.op = "queue" /\ Top.i = k)
          BY <1>1, <1>3, <3>1 DEF Ahead
        <4>3. Ahead(k)'
          BY <1>5, <2>1, <4>2
        <4> QED
          BY <2>2, <3>1, <3>2, <4>1, <4>3 DEF OnItsWay, LoadAhead, LoadFile, RealUnload
      <3>3. CASE Top.op = "queue" /\ Top.i = j
        BY <2>4, <3>1, <3>3 DEF Due
      <3> QED
        BY <1>5, <3>1, <3>2, <3>3
    <2> QED
      BY <2>1, <2>3, <2>4
  <1>11. CASE Loading(s)
    <2>1. CASE At("load") /\ Top.p = path[s] /\ loaded[path[s]] = None
      BY <2>1 DEF At, Due
    <2>2. ASSUME NEW i \in DOMAIN ctl, ctl[i].op = "create", ctl[i].p = path[s]
          PROVE  OnItsWay(s)' \/ Due(s)
      <3>1. CASE i = 1
        BY <1>1, <2>2, <3>1 DEF Due
      <3>2. CASE i # 1
        <4>1. i + Len(ops) - 1 \in DOMAIN ctl' /\ ctl'[i + Len(ops) - 1] = ctl[i]
          BY <1>1, <1>4, <2>2, <3>2
        <4> QED
          BY <1>2, <2>2, <4>1 DEF OnItsWay, Loading
      <3> QED
        BY <3>1, <3>2
    <2> QED
      BY <1>11, <2>1, <2>2 DEF Loading
  <1> QED
    BY <1>6, <1>7, <1>8, <1>10, <1>11 DEF OnItsWay

LEMMA ReloadsKept ==
  ASSUME RInv, ctl # <<>>, NEW st, Alike(st), NEW ops \in Seq(Frames), ctl' = ops \o Tail(st),
         Gentle(ops), DuesPaid
  PROVE  Reloads'
  <1>1. nextScript \in Nat /\ nextScript' \in Nat /\ nextScript <= nextScript'
    BY Typed DEF Gentle, IInv, TypeOK
  <1>2. \A s \in reloadAsked' : s \in 1 .. nextScript - 1 /\ s \in reloadAsked
    BY DEF Gentle, Reloads
  <1>3. ASSUME phase' # "off", nextScript' <= MaxScripts, NEW s \in reloadAsked'
        PROVE  OnItsWay(s)'
    <2>1. nextScript <= MaxScripts /\ phase # "off"
      BY <1>1, <1>3 DEF Gentle
    <2>2. OnItsWay(s)
      BY <1>2, <1>3, <2>1 DEF Reloads
    <2>3. OnItsWay(s)' \/ Due(s)
      BY <1>2, <1>3, <2>2, WayKept
    <2> QED
      BY <1>2, <1>3, <2>1, <2>3 DEF DuesPaid
  <1>4. Buried'
    <2> SUFFICES ASSUME NEW k \in DOMAIN queue', queue'[k].type = "perform_real_unload"
                 PROVE  /\ queue'[k].id \in 1 .. nextScript' - 1
                        /\ queue'[k].id \in scripts' => queue'[k].id \in dead'
      BY DEF Buried
    <2>1. CASE k \in DOMAIN queue
      <3>1. /\ queue'[k] = queue[k] /\ queue[k].id \in 1 .. nextScript - 1
            /\ queue[k].id \in scripts => queue[k].id \in dead
        BY <2>1 DEF Gentle, Grown, Reloads, Buried
      <3>2. queue[k].id \in scripts' => queue[k].id \in scripts
        BY <1>1, <3>1 DEF Gentle
      <3> QED
        BY <1>1, <3>1, <3>2 DEF Gentle
    <2>2. CASE k \notin DOMAIN queue
      <3>1. queue'[k].id \in scripts /\ queue'[k].id \in dead'
        BY <2>2 DEF Gentle
      <3>2. queue'[k].id \in 1 .. nextScript - 1
        BY <3>1 DEF IInv, TypeOK
      <3> QED
        BY <1>1, <3>1, <3>2
    <2> QED
      BY <2>1, <2>2
  <1>5. Closing'
    <2>1. \A i \in DOMAIN ctl' : ctl'[i].op \in {"live", "clear"} =>
            \E j \in DOMAIN ctl : ctl[j].op = ctl'[i].op
      <3>1. \A i \in DOMAIN ctl' :
              \/ ctl'[i] \in Of(ops)
              \/ \E j \in DOMAIN ctl \ {1} : /\ ctl'[i].op = ctl[j].op
                                             /\ ctl[j].op \notin Loops => ctl'[i] = ctl[j]
        BY Lower
      <3> QED
        BY <3>1 DEF Gentle
    <2>2. Closing /\ (phase' = "off" <=> phase = "off")
      BY DEF Gentle, Reloads
    <2> QED
      BY <2>1, <2>2 DEF Closing
  <1> QED
    BY <1>1, <1>2, <1>3, <1>4, <1>5 DEF Reloads

(* What leaves the stack alone, and asks for nothing but reloads. *)
LEMMA ReloadsAsked ==
  ASSUME RInv, UNCHANGED <<registry, life, ctl>>, phase' = phase, Grown,
         \A k \in DOMAIN queue' \ DOMAIN queue : queue'[k].type # "perform_real_unload",
         \A s \in reloadAsked' \ reloadAsked :
           s \in scripts \ dead /\ queue' = Append(queue, Reload(s))
  PROVE  Reloads'
  <1>1. /\ queue \in Seq(Actions) /\ queue' \in Seq(Actions)
        /\ DOMAIN queue = 1 .. Len(queue) /\ DOMAIN queue' = 1 .. Len(queue')
        /\ Len(queue) \in Nat /\ Len(queue') \in Nat /\ Len(queue) <= Len(queue')
        /\ \A k \in DOMAIN queue : k \in DOMAIN queue' /\ queue'[k] = queue[k]
    BY DEF Grown, IInv
  <1>2. /\ nextScript' = nextScript /\ scripts' = scripts /\ path' = path /\ loaded' = loaded
        /\ dead' = dead /\ ctl' = ctl
    BY DEF registry, life
  <1>3. \A s \in scripts : s \in 1 .. nextScript - 1
    BY DEF IInv, TypeOK
  <1>4. ASSUME NEW s, OnItsWay(s) PROVE OnItsWay(s)'
    <2>1. Restarted(s) => Restarted(s)'
      BY <1>2 DEF Restarted
    <2>2. ReloadAhead(s) => ReloadAhead(s)'
      <3> SUFFICES ASSUME ReloadAhead(s) PROVE ReloadAhead(s)'
        OBVIOUS
      <3>1. PICK k \in DOMAIN queue :
              /\ queue[k] = Reload(s) /\ Ahead(k)
              /\ \A j \in DOMAIN queue : queue[j] = RealUnload(s) => k < j
        BY DEF ReloadAhead
      <3>2. k \in DOMAIN queue' /\ queue'[k] = Reload(s) /\ Ahead(k)'
        BY <1>1, <1>2, <3>1 DEF Ahead
      <3>3. \A j \in DOMAIN queue' : queue'[j] = RealUnload(s) => k < j
        <4>1. \A j \in DOMAIN queue' \ DOMAIN queue : queue'[j] # RealUnload(s)
          BY DEF RealUnload
        <4> QED
          BY <1>1, <3>1, <4>1
      <3> QED
        BY <1>2, <3>2, <3>3 DEF ReloadAhead, Reload, RealUnload
    <2>3. Stopping(s) => Stopping(s)'
      BY <1>2 DEF Stopping, Ends
    <2>4. LoadAhead(s) => LoadAhead(s)'
      <3> SUFFICES ASSUME LoadAhead(s) PROVE LoadAhead(s)'
        OBVIOUS
      <3>1. PICK k \in DOMAIN queue :
              /\ queue[k] = LoadFile(path[s]) /\ Ahead(k)
              /\ \/ Vacant(s)
                 \/ /\ s \in scripts
                    /\ \E j \in DOMAIN queue : j < k /\ queue[j] = RealUnload(s) /\ Ahead(j)
        BY DEF LoadAhead
      <3>2. k \in DOMAIN queue' /\ queue'[k] = LoadFile(path'[s]) /\ Ahead(k)'
        BY <1>1, <1>2, <3>1 DEF Ahead
      <3>3. Vacant(s) => Vacant(s)'
        BY <1>2 DEF Vacant
      <3>4. \A j \in DOMAIN queue : queue[j] = RealUnload(s) /\ Ahead(j) =>
              j \in DOMAIN queue' /\ queue'[j] = RealUnload(s) /\ Ahead(j)'
        BY <1>1, <1>2 DEF Ahead
      <3> QED
        BY <1>2, <3>1, <3>2, <3>3, <3>4 DEF LoadAhead, LoadFile, RealUnload
    <2>5. Loading(s) => Loading(s)'
      BY <1>2 DEF Loading, At, Top
    <2> QED
      BY <1>4, <2>1, <2>2, <2>3, <2>4, <2>5 DEF OnItsWay
  <1>5. ASSUME NEW s \in reloadAsked' \ reloadAsked PROVE OnItsWay(s)'
    <2>1. s \in scripts \ dead /\ queue' = Append(queue, Reload(s))
      BY <1>5
    <2>2. PICK k : k = Len(queue) + 1
      OBVIOUS
    <2>3. k \in DOMAIN queue' /\ queue'[k] = Reload(s)
      BY <1>1, <2>1, <2>2
    <2>4. Ahead(k)'
      BY <1>2, <2>2 DEF Ahead, IInv, Sound, InQueue
    <2>5. \A j \in DOMAIN queue' : queue'[j] # RealUnload(s)
      <3>1. \A j \in DOMAIN queue : queue[j] # RealUnload(s)
        BY <2>1 DEF Reloads, Buried, RealUnload
      <3>2. \A j \in DOMAIN queue' \ DOMAIN queue : queue'[j] # RealUnload(s)
        BY DEF RealUnload
      <3> QED
        BY <1>1, <3>1, <3>2
    <2> QED
      BY <1>2, <2>1, <2>3, <2>4, <2>5 DEF OnItsWay, ReloadAhead, Reload, RealUnload
  <1>6. \A s \in reloadAsked' : s \in 1 .. nextScript' - 1
    BY <1>2, <1>3 DEF Reloads
  <1>7. Buried'
    BY <1>1, <1>2 DEF Reloads, Buried
  <1>8. Closing'
    BY <1>2 DEF Reloads, Closing
  <1>9. phase' # "off" /\ nextScript' <= MaxScripts => \A s \in reloadAsked' : OnItsWay(s)'
    BY <1>2, <1>4, <1>5 DEF Reloads
  <1> QED
    BY <1>6, <1>7, <1>8, <1>9 DEF Reloads

----------------------------------------------------------------------------
(* The calls that are not about a reload, and the steps that make them.    *)
Benign == {c \in Frames : /\ c.op \notin {"started", "register", "live", "clear"}
                          /\ c.op = "queue" => c.i = 1}
Busy == {"destroy", "bury", "pushload", "load", "create", "queue"}

LEMMA BenignOps ==
  /\ \A s \in Ids :
       /\ Lua(s) \in Benign /\ Handled(s) \in Benign /\ Main(s) \in Benign
       /\ MainDone(s) \in Benign /\ Exited(s) \in Benign /\ Bury(s) \in Benign
       /\ Ran(s) \in Benign
  /\ \A s \in Ids, how \in {"error", "normal", "quit"} :
       Destroy(s, how) \in Benign /\ Exit(s, how) \in Benign
  /\ \A s \in Ids, n \in Names : CmdDone(n, s) \in Benign
  /\ \A todo \in SUBSET Ids :
       /\ Each(todo) \in Benign /\ Mains(todo) \in Benign /\ RunScripts(todo) \in Benign
       /\ ReloadRun(todo) \in Benign /\ QuitAll(todo) \in Benign
  /\ \A p \in Paths, once \in BOOLEAN : Load(p, once) \in Benign /\ Create(p, once) \in Benign
  /\ Queue(1) \in Benign
  /\ \A ps \in SUBSET Paths : LoadAll(ps) \in Benign
  /\ Fire \in Benign
  /\ \A what \in {"startmains", "frame", "reloaded", "quit"} : Then(what) \in Benign
  <1>1. /\ \A s : /\ Lua(s).op = "lua" /\ Handled(s).op = "handled" /\ Main(s).op = "main"
                  /\ MainDone(s).op = "maindone" /\ Exited(s).op = "exited"
                  /\ Bury(s).op = "bury" /\ Ran(s).op = "ran"
        /\ \A s, how : Destroy(s, how).op = "destroy" /\ Exit(s, how).op = "exit"
        /\ \A s, n : CmdDone(n, s).op = "cmddone"
        /\ \A todo : /\ Each(todo).op = "each" /\ Mains(todo).op = "mains"
                     /\ RunScripts(todo).op = "runscripts"
                     /\ ReloadRun(todo).op = "reloadrun" /\ QuitAll(todo).op = "quitall"
        /\ \A p, once : Load(p, once).op = "load" /\ Create(p, once).op = "create"
        /\ Queue(1).op = "queue" /\ Queue(1).i = 1
        /\ \A ps : LoadAll(ps).op = "loadall"
        /\ Fire.op = "fire" /\ \A what : Then(what).op = what
    BY DEF Lua, Handled, Main, MainDone, Exited, Bury, Ran, Destroy, Exit, CmdDone, Each,
           Mains, RunScripts, ReloadRun, QuitAll, Load, Create, Queue, LoadAll, Fire, Then
  <1> QED
    BY <1>1, OpsTypes DEF Benign

(* Nothing that a reload waits for changes. *)
Still ==
  /\ UNCHANGED <<registry, dead, queue, reloadAsked>>
  /\ phase' = "off" <=> phase = "off"

LEMMA StillGentle ==
  ASSUME IInv, Still, NEW op, At(op), op \notin {"destroy", "bury", "queue"}, NEW ops,
         \A c \in Of(ops) : c \in Benign
  PROVE  Gentle(ops)
  <1>1. Top.op = op
    BY DEF At
  <1>2. /\ nextScript \in Nat /\ queue \in Seq(Actions)
        /\ nextScript' = nextScript /\ path' = path /\ scripts' = scripts /\ loaded' = loaded
        /\ dead' = dead /\ queue' = queue
    BY DEF IInv, TypeOK, Still, registry
  <1>3. Grown /\ reloadAsked' = reloadAsked /\ (phase' = "off" <=> phase = "off")
    BY <1>2 DEF Grown, Still
  <1>4. \A s : ~ Ends(Top, s)
    BY <1>1 DEF Ends
  <1>5. \A c \in Of(ops) : /\ c.op \notin {"started", "register", "live", "clear"}
                           /\ c.op = "queue" => c.i = 1
    BY DEF Benign
  <1> QED
    BY <1>2, <1>3, <1>4, <1>5 DEF Gentle

LEMMA Quietly ==
  ASSUME RInv, Still, NEW op, At(op), op \notin Busy, NEW ops \in Seq(Frames), Continue(ops),
         \A c \in Of(ops) : c \in Benign
  PROVE  Reloads'
  <1>1. ctl # <<>> /\ Top.op = op /\ ctl' = ops \o Tail(ctl) /\ Alike(ctl)
    BY AlikeItself DEF At, Continue
  <1>2. Gentle(ops)
    BY StillGentle DEF Busy
  <1>3. \A s : ~ Due(s)
    BY <1>1 DEF Due, Busy
  <1>4. DuesPaid
    BY <1>3 DEF DuesPaid
  <1> QED
    BY <1>1, <1>2, <1>4, ReloadsKept

LEMMA Light ==
  ASSUME RInv, Still, NEW op, At(op), op \notin Busy
  PROVE  /\ Continue(<<>>) => Reloads'
         /\ \A a \in Benign : Continue(<<a>>) => Reloads'
         /\ \A a, b \in Benign : Continue(<<a, b>>) => Reloads'
         /\ \A a, b, c \in Benign : Continue(<<a, b, c>>) => Reloads'
  <1>0. Benign \subseteq Frames
    BY DEF Benign
  <1>1. ASSUME Continue(<<>>) PROVE Reloads'
    BY <1>1, ShortOps, Quietly
  <1>2. ASSUME NEW a \in Benign, Continue(<<a>>) PROVE Reloads'
    <2>1. <<a>> \in Seq(Frames) /\ \A x \in Of(<<a>>) : x \in Benign
      BY <1>0, ShortOps
    <2> QED
      BY <1>2, <2>1, Quietly
  <1>3. ASSUME NEW a \in Benign, NEW b \in Benign, Continue(<<a, b>>) PROVE Reloads'
    <2>1. <<a, b>> \in Seq(Frames) /\ \A x \in Of(<<a, b>>) : x \in Benign
      BY <1>0, ShortOps
    <2> QED
      BY <1>3, <2>1, Quietly
  <1>4. ASSUME NEW a \in Benign, NEW b \in Benign, NEW c \in Benign, Continue(<<a, b, c>>)
        PROVE  Reloads'
    <2>1. <<a, b, c>> \in Seq(Frames) /\ \A x \in Of(<<a, b, c>>) : x \in Benign
      BY <1>0, ShortOps
    <2> QED
      BY <1>4, <2>1, Quietly
  <1> QED
    BY <1>1, <1>2, <1>3, <1>4

(* What is at the top of the stack is a call on a script that exists. *)
LEMMA TopCall ==
  ASSUME IInv, NEW op, At(op)
  PROVE  /\ op \in ScriptOps => Top.s \in Ids
         /\ op \in Loops => Top.todo \subseteq Ids
         /\ op = "loadall" => Top.ps \subseteq Paths
         /\ op \in {"load", "create", "pushload"} => Top.p \in Paths
         /\ op \in {"load", "create", "started", "register"} => Top.once \in BOOLEAN
         /\ op \in {"destroy", "exit"} => Top.how \in {"error", "normal", "quit"}
         /\ scripts \subseteq Ids /\ Top \in Frames
  BY TopFacts, FrameFacts, Typed

(* Lua code of a script, handle_command() and the events. *)
LEMMA LuaReloads ==
  ASSUME RInv,
         \/ LuaReturn \/ LuaFail \/ LuaPrint
         \/ \E p \in Paths : LuaImport(p)
         \/ \E n \in Names : Command(n) /\ ctl # <<>>
  PROVE  Reloads'
  <1>1. Still /\ At("lua") /\ "lua" \notin Busy
    BY DEF LuaReturn, LuaFail, LuaPrint, LuaImport, Command, Still, Busy, life
  <1>2. CASE LuaReturn \/ LuaFail
    BY <1>1, <1>2, Light DEF LuaReturn, LuaFail
  <1>3. Top \in Benign /\ Top \in Frames /\ ctl # <<>>
    BY <1>1, TopFacts DEF Benign
  <1>4. CASE LuaPrint
    <2>1. Fire \in Benign /\ Fire \in Frames
      BY BenignOps, OpsTypes
    <2>2. Continue(<<Fire, Top>>)
      BY <1>3, <1>4, <2>1, Calling DEF LuaPrint, Call, Continue
    <2> QED
      BY <1>1, <1>3, <2>1, <2>2, Light
  <1>5. ASSUME NEW p \in Paths, LuaImport(p) PROVE Reloads'
    <2>1. Load(p, FALSE) \in Benign /\ Load(p, FALSE) \in Frames
      BY BenignOps, OpsTypes
    <2>2. Continue(<<Load(p, FALSE), Top>>)
      BY <1>3, <1>5, <2>1, Calling DEF LuaImport, Call, Continue
    <2> QED
      BY <1>1, <1>3, <2>1, <2>2, Light
  <1>6. ASSUME NEW n \in Names, Command(n) PROVE Reloads'
    <2> DEFINE s == commands[n]
    <2>1. s \in Ids
      BY <1>6, Typed DEF Command, IInv, TablesNameLive, CommandsOwned
    <2>2. ctl' = <<Lua(s), CmdDone(n, s)>> \o ctl
      BY <1>6 DEF Command, Call
    <2> HIDE DEF s
    <2>3. /\ Lua(s) \in Benign /\ Lua(s) \in Frames
          /\ CmdDone(n, s) \in Benign /\ CmdDone(n, s) \in Frames
      BY <2>1, BenignOps, OpsTypes
    <2>4. Continue(<<Lua(s), CmdDone(n, s), Top>>)
      BY <1>3, <2>2, <2>3, Calling DEF Continue
    <2> QED
      BY <1>1, <1>3, <2>3, <2>4, Light
  <1> QED
    BY <1>2, <1>4, <1>5, <1>6

LEMMA EventReloads ==
  ASSUME RInv,
         \/ CommandDone \/ FireEvent \/ EachDone \/ HandlerDone
         \/ \E s \in Ids : CallHandler(s)
  PROVE  Reloads'
  <1> USE BenignOps DEF Busy, ScriptOps, Loops
  <1>0. Still
    BY DEF CommandDone, FireEvent, EachDone, HandlerDone, CallHandler, Still, life
  <1>1. CASE CommandDone
    <2>1. At("cmddone") /\ Top.s \in Ids
      BY <1>1, TopCall DEF CommandDone
    <2>2. Continue(<<>>) \/ Continue(<<Fire, Destroy(Top.s, "error")>>)
      BY <1>1 DEF CommandDone
    <2> QED
      BY <1>0, <2>1, <2>2, Light
  <1>2. CASE FireEvent
    <2>1. At("fire") /\ scripts \subseteq Ids /\ Continue(<<Each(scripts)>>)
      BY <1>2, TopCall DEF FireEvent
    <2> QED
      BY <1>0, <2>1, Light
  <1>3. CASE EachDone
    BY <1>0, <1>3, Light DEF EachDone
  <1>4. CASE HandlerDone
    <2>1. At("handled") /\ Top.s \in Ids
      BY <1>4, TopCall DEF HandlerDone
    <2>2. Continue(<<>>) \/ Continue(<<Fire, Destroy(Top.s, "error")>>)
      BY <1>4 DEF HandlerDone
    <2> QED
      BY <1>0, <2>1, <2>2, Light
  <1>5. ASSUME NEW s \in Ids, CallHandler(s) PROVE Reloads'
    <2>1. At("each") /\ Continue(<<Lua(s), Handled(s), Each(Top.todo \ {s})>>)
      BY <1>5 DEF CallHandler
    <2>2. Top.todo \ {s} \in SUBSET Ids
      BY <2>1, TopCall
    <2> QED
      BY <1>0, <2>1, <2>2, Light
  <1> QED
    BY <1>1, <1>2, <1>3, <1>4, <1>5

(* Main functions, exit handlers, and the loops over all scripts. *)
LEMMA MainReloads ==
  ASSUME RInv,
         \/ StartMain \/ MainReturned \/ StartMains \/ NextMain \/ LoadNext
         \/ ExitHandlers \/ ExitDone
  PROVE  Reloads'
  <1> USE BenignOps DEF Busy, ScriptOps, Loops
  <1>0. Still
    BY DEF StartMain, MainReturned, StartMains, NextMain, LoadNext, ExitHandlers, ExitDone,
           Still, life
  <1>1. CASE StartMain
    <2>1. At("main") /\ Top.s \in Ids
      BY <1>1, TopCall DEF StartMain
    <2>2. Continue(<<>>) \/ Continue(<<Lua(Top.s), MainDone(Top.s)>>)
      BY <1>1 DEF StartMain
    <2> QED
      BY <1>0, <2>1, <2>2, Light
  <1>2. CASE MainReturned
    <2>1. At("maindone") /\ Top.s \in Ids
      BY <1>2, TopCall DEF MainReturned
    <2>2. Continue(<<>>) \/ Continue(<<Fire, Destroy(Top.s, "error")>>)
      BY <1>2 DEF MainReturned
    <2> QED
      BY <1>0, <2>1, <2>2, Light
  <1>3. CASE StartMains
    <2>1. At("startmains") /\ scripts \subseteq Ids /\ Continue(<<Mains(scripts)>>)
      BY <1>3, TopCall DEF StartMains
    <2> QED
      BY <1>0, <2>1, Light
  <1>4. CASE NextMain
    <2>1. At("mains") /\ Top.todo \subseteq Ids
      BY <1>4, TopCall DEF NextMain
    <2>2. ASSUME NEW s \in Top.todo, Continue(<<Main(s), Mains(Top.todo \ {s})>>)
          PROVE  Reloads'
      <3>1. s \in Ids /\ Top.todo \ {s} \in SUBSET Ids
        BY <2>1
      <3> QED
        BY <1>0, <2>1, <2>2, <3>1, Light
    <2>3. CASE Continue(<<Queue(1)>>)
      BY <1>0, <2>1, <2>3, Light
    <2> QED
      BY <1>4, <2>2, <2>3 DEF NextMain
  <1>5. CASE LoadNext
    <2>1. At("loadall") /\ Top.ps \subseteq Paths
      BY <1>5, TopCall DEF LoadNext
    <2>2. ASSUME NEW p \in Top.ps, Continue(<<Load(p, FALSE), LoadAll(Top.ps \ {p})>>)
          PROVE  Reloads'
      <3>1. p \in Paths /\ Top.ps \ {p} \in SUBSET Paths
        BY <2>1
      <3> QED
        BY <1>0, <2>1, <2>2, <3>1, Light
    <2>3. CASE Continue(<<Queue(1)>>)
      BY <1>0, <2>1, <2>3, Light
    <2> QED
      BY <1>5, <2>2, <2>3 DEF LoadNext
  <1>6. CASE ExitHandlers
    <2>1. At("exit") /\ Top.s \in Ids
      BY <1>6, TopCall DEF ExitHandlers
    <2>2. Continue(<<>>) \/ Continue(<<Lua(Top.s), Exited(Top.s)>>)
      BY <1>6 DEF ExitHandlers
    <2> QED
      BY <1>0, <2>1, <2>2, Light
  <1>7. CASE ExitDone
    <2>1. At("exited") /\ (Continue(<<>>) \/ Continue(<<Fire>>))
      BY <1>7 DEF ExitDone
    <2> QED
      BY <1>0, <2>1, Light
  <1> QED
    BY <1>1, <1>2, <1>3, <1>4, <1>5, <1>6, <1>7

LEMMA LoopReloads ==
  ASSUME RInv,
         \/ InitDone \/ FrameBody \/ RunScriptsDone \/ ScriptRan \/ ReloadStep \/ ReloadDone
         \/ QuitScripts \/ \E s \in Ids : RunScript(s)
  PROVE  Reloads'
  <1> USE BenignOps DEF Busy, ScriptOps, Loops
  <1>1. CASE InitDone
    <2>1. At("live") /\ Continue(<<>>)
      BY <1>1 DEF InitDone
    <2>2. ctl[1].op = "live" /\ 1 \in DOMAIN ctl
      BY <2>1, TopFacts
    <2>3. phase # "off"
      BY <2>2 DEF Reloads, Closing
    <2>4. Still
      BY <1>1, <2>3 DEF InitDone, Still, life
    <2> QED
      BY <2>1, <2>4, Light
  <1>2. CASE FrameBody
    <2>0. Still /\ At("frame") /\ scripts \subseteq Ids
      BY <1>2, TopCall DEF FrameBody, Still, life
    <2>1. CASE Continue(<<RunScripts(scripts)>>)
      BY <2>0, <2>1, Light
    <2>2. CASE Continue(<<ReloadRun(scripts), Queue(1), LoadAll(Paths \ Libraries), Then("startmains"),
                          Then("reloaded")>>)
      <3> DEFINE t == <<ReloadRun(scripts), Queue(1), LoadAll(Paths \ Libraries), Then("startmains"),
                        Then("reloaded")>>
      <3>1. /\ ReloadRun(scripts) \in Benign /\ Queue(1) \in Benign /\ LoadAll(Paths \ Libraries) \in Benign
            /\ Then("startmains") \in Benign /\ Then("reloaded") \in Benign
        BY <2>0
      <3>2. t \in Seq(Benign) /\ Continue(t)
        BY <2>2, <3>1
      <3> HIDE DEF t
      <3>3. t \in Seq(Frames) /\ \A c \in Of(t) : c \in Benign
        BY <3>2 DEF Of, Benign
      <3> QED
        BY <2>0, <3>2, <3>3, Quietly
    <2> QED
      BY <1>2, <2>1, <2>2 DEF FrameBody
  <1>3. CASE RunScriptsDone
    <2>1. Still
      BY <1>3 DEF RunScriptsDone, Still, life
    <2> QED
      BY <1>3, <2>1, Light DEF RunScriptsDone
  <1>4. CASE ScriptRan
    <2>1. Still /\ At("ran") /\ Top.s \in Ids
      BY <1>4, TopCall DEF ScriptRan, Still
    <2>2. \/ Continue(<<>>) \/ Continue(<<Fire, Destroy(Top.s, "error")>>)
          \/ Continue(<<Destroy(Top.s, "normal")>>)
      BY <1>4 DEF ScriptRan
    <2> QED
      BY <2>1, <2>2, Light
  <1>5. CASE ReloadStep
    <2>1. Still /\ At("reloadrun") /\ Top.todo \subseteq Ids
      BY <1>5, TopCall DEF ReloadStep, Still, life
    <2>2. ASSUME NEW s \in Top.todo, NEW a \in {Lua(s), Destroy(s, "normal")},
                 Continue(<<a, ReloadRun(Top.todo \ {s})>>)
          PROVE  Reloads'
      <3>1. s \in Ids /\ Top.todo \ {s} \in SUBSET Ids
        BY <2>1
      <3>2. a \in Benign
        BY <2>2, <3>1
      <3> QED
        BY <2>1, <2>2, <3>1, <3>2, Light
    <2>3. CASE Continue(<<>>)
      BY <2>1, <2>3, Light
    <2> QED
      BY <1>5, <2>2, <2>3 DEF ReloadStep
  <1>6. CASE ReloadDone
    <2>1. Still
      BY <1>6 DEF ReloadDone, Still, life
    <2> QED
      BY <1>6, <2>1, Light DEF ReloadDone
  <1>7. CASE QuitScripts
    <2>1. Still
      BY <1>7 DEF QuitScripts, Still, life
    <2>2. CASE At("quit") /\ Continue(<<QuitAll(scripts)>>)
      <3>1. scripts \subseteq Ids
        BY Typed
      <3> QED
        BY <2>1, <2>2, <3>1, Light
    <2>3. CASE At("quitall") /\ Continue(<<>>)
      BY <2>1, <2>3, Light
    <2>4. ASSUME At("quitall"), NEW s \in Top.todo,
                 Continue(<<Destroy(s, "quit"), QuitAll(Top.todo \ {s})>>)
          PROVE  Reloads'
      <3>1. s \in Ids /\ Top.todo \ {s} \in SUBSET Ids
        BY <2>4, TopCall
      <3> QED
        BY <2>1, <2>4, <3>1, Light
    <2> QED
      BY <1>7, <2>2, <2>3, <2>4 DEF QuitScripts
  <1>8. ASSUME NEW s \in Ids, RunScript(s) PROVE Reloads'
    <2>1. /\ Still /\ At("runscripts")
          /\ Continue(<<Lua(s), Ran(s), RunScripts(Top.todo \ {s})>>)
      BY <1>8 DEF RunScript, Still, life
    <2>2. Top.todo \ {s} \in SUBSET Ids
      BY <2>1, TopCall
    <2> QED
      BY <2>1, <2>2, Light
  <1> QED
    BY <1>1, <1>2, <1>3, <1>4, <1>5, <1>6, <1>7, <1>8

----------------------------------------------------------------------------
(* The steps a reload waits for, and those that could be in its way.       *)
LEMMA StartedReloads == ASSUME RInv, ScriptStarted \/ RegisterScript PROVE Reloads'
  <1> USE BenignOps DEF Busy, ScriptOps
  <1>1. CASE ScriptStarted
    <2>1. Still /\ At("started") /\ Top.s \in Ids /\ Top.once \in BOOLEAN
      BY <1>1, TopCall DEF ScriptStarted, Still
    <2>2. CASE Continue(<<Fire, Bury(Top.s)>>)
      BY <2>1, <2>2, Light
    <2>3. CASE Continue(<<Fire, Register(Top.s, Top.once)>>)
      <3> DEFINE r == Register(Top.s, Top.once)
                 ops == <<Fire, r>>
      <3>1. r \in Frames /\ r.op = "register" /\ r.s = Top.s /\ Fire \in Frames /\ Fire.op = "fire"
        BY <2>1, OpsTypes, MainOpsFacts
      <3> HIDE DEF r
      <3>2. ops \in Seq(Frames) /\ Of(ops) = {Fire, r}
        BY <3>1, ShortOps
      <3>3. ctl # <<>> /\ Top.op = "started" /\ ctl' = ops \o Tail(ctl) /\ Alike(ctl)
        BY <2>1, <2>3, AlikeItself DEF At, Continue, r
      <3> HIDE DEF ops
      <3>4. Of(<<>>) = {} /\ Gentle(<<>>)
        BY <2>1, StillGentle, ShortOps
      <3>5. /\ \A s : ~ Ends(Top, s)
            /\ \A s : ~ Due(s)
        BY <3>3 DEF Ends, Due
      <3>6. Gentle(ops) /\ DuesPaid
        BY <3>1, <3>2, <3>3, <3>4, <3>5 DEF Gentle, DuesPaid
      <3> QED
        BY <3>2, <3>3, <3>6, ReloadsKept
    <2> QED
      BY <1>1, <2>2, <2>3 DEF ScriptStarted
  <1>2. CASE RegisterScript
    <2>1. /\ At("register") /\ UNCHANGED <<nextScript, scripts, path, life, queue, phase, reloadAsked>>
          /\ loaded' = [loaded EXCEPT ![path[Top.s]] = IF @ = None THEN Top.s ELSE @]
      BY <1>2 DEF RegisterScript
    <2>2. Top.s \in Ids /\ Fire \in Frames /\ Main(Top.s) \in Frames
      BY <2>1, TopCall, OpsTypes
    <2>3. Fire \in Benign /\ Main(Top.s) \in Benign
      BY <2>2
    <2>4. Continue(<<Fire>>) \/ Continue(<<Fire, Main(Top.s)>>)
      <3>1. <<Fire>> \o <<>> = <<Fire>> /\ <<Fire>> \o <<Main(Top.s)>> = <<Fire, Main(Top.s)>>
        BY <2>2, Joined
      <3> QED
        BY <1>2, <3>1 DEF RegisterScript
    <2>5. PICK ops : /\ Continue(ops) /\ ops \in Seq(Frames)
                     /\ \A c \in Of(ops) : c \in Benign
      <3>1. <<Fire>> \in Seq(Frames) /\ \A c \in Of(<<Fire>>) : c \in Benign
        BY <2>2, <2>3, ShortOps
      <3>2. /\ <<Fire, Main(Top.s)>> \in Seq(Frames)
            /\ \A c \in Of(<<Fire, Main(Top.s)>>) : c \in Benign
        BY <2>2, <2>3, ShortOps
      <3> QED
        BY <2>4, <3>1, <3>2
    <2>6. ctl # <<>> /\ Top.op = "register" /\ ctl' = ops \o Tail(ctl) /\ Alike(ctl)
      BY <2>1, <2>5, AlikeItself DEF At, Continue
    <2>7. /\ \A s : ~ Ends(Top, s)
          /\ \A s : ~ Due(s)
      BY <2>6 DEF Ends, Due
    <2>8. \A p \in Paths : loaded[p] = None /\ loaded'[p] # None =>
            loaded'[p] = Top.s /\ path[Top.s] = p
      BY <2>1 DEF IInv, TypeOK
    <2>9. Gentle(ops) /\ DuesPaid
      <3>1. /\ nextScript \in Nat /\ nextScript' = nextScript /\ path' = path /\ scripts' = scripts
            /\ dead' = dead /\ Grown /\ reloadAsked' = reloadAsked /\ phase' = phase /\ queue' = queue
        BY <2>1 DEF IInv, TypeOK, life, Grown
      <3>2. \A c \in Of(ops) : /\ c.op \notin {"started", "register", "live", "clear"}
                               /\ c.op = "queue" => c.i = 1
        BY <2>5 DEF Benign
      <3> QED
        BY <2>6, <2>7, <2>8, <3>1, <3>2 DEF Gentle, DuesPaid
    <2> QED
      BY <2>5, <2>6, <2>9, ReloadsKept
  <1> QED
    BY <1>1, <1>2

(* load(): a file that is due is not registered, so that an instance of it *)
(* is created.                                                             *)
LEMMA LoadReloads == ASSUME RInv, LoadScript \/ CreateBeyondBound PROVE Reloads'
  <1> USE BenignOps
  <1>0. Still
    BY DEF LoadScript, CreateBeyondBound, Still, life
  <1>1. ASSUME NEW op \in {"load", "create"}, At(op), NEW ops \in Seq(Frames), Continue(ops),
               \A c \in Of(ops) : c \in Benign, DuesPaid
        PROVE  Reloads'
    <2>1. ctl # <<>> /\ ctl' = ops \o Tail(ctl) /\ Alike(ctl)
      BY <1>1, AlikeItself DEF At, Continue
    <2>2. Gentle(ops)
      BY <1>0, <1>1, StillGentle
    <2> QED
      BY <1>1, <2>1, <2>2, ReloadsKept
  <1>2. <<>> \in Seq(Frames) /\ Of(<<>>) = {}
    BY ShortOps
  <1>3. CASE CreateBeyondBound
    <2>1. At("create") /\ Continue(<<>>) /\ nextScript > MaxScripts /\ nextScript \in Nat
      BY <1>3 DEF CreateBeyondBound, IInv, TypeOK
    <2>2. DuesPaid
      BY <2>1 DEF DuesPaid
    <2> QED
      BY <1>1, <1>2, <2>1, <2>2
  <1>4. CASE LoadScript
    <2>1. At("load") /\ Top.p \in Paths /\ Top.once \in BOOLEAN /\ Top.op = "load"
      BY <1>4, TopCall DEF LoadScript, At
    <2>2. CASE loaded[Top.p] # None /\ Continue(<<>>)
      <3>1. DuesPaid
        BY <2>1, <2>2 DEF DuesPaid, Due
      <3> QED
        BY <1>1, <1>2, <2>1, <2>2, <3>1
    <2>3. CASE Continue(<<Fire, Create(Top.p, Top.once)>>)
      <3> DEFINE c == Create(Top.p, Top.once)
                 ops == <<Fire, c>>
      <3>1. /\ c \in Frames /\ Fire \in Frames /\ c \in Benign /\ Fire \in Benign
            /\ c.op = "create" /\ c.p = Top.p
        BY <2>1, OpsTypes DEF Create
      <3> HIDE DEF c
      <3>2. ops \in Seq(Frames) /\ Of(ops) = {Fire, c} /\ 2 \in DOMAIN ops /\ ops[2] = c
        BY <3>1, ShortOps
      <3>3. ctl # <<>> /\ ctl' = ops \o Tail(ctl) /\ Alike(ctl) /\ Continue(ops)
        BY <2>1, <2>3, AlikeItself DEF At, Continue, c
      <3> HIDE DEF ops
      <3>4. 2 \in DOMAIN ctl' /\ ctl'[2] = c
        BY <3>2, <3>3, Lower
      <3>5. DuesPaid
        <4> SUFFICES ASSUME NEW s \in reloadAsked, Due(s) PROVE Loading(s)'
          BY DEF DuesPaid, OnItsWay
        <4>1. Top.p = path[s] /\ path' = path
          BY <1>0, <2>1 DEF Due, Still, registry
        <4> QED
          BY <3>1, <3>4, <4>1 DEF Loading
      <3> QED
        BY <1>1, <2>1, <3>1, <3>2, <3>3, <3>5
    <2> QED
      BY <1>4, <2>2, <2>3 DEF LoadScript
  <1> QED
    BY <1>3, <1>4

(* The instance of a file that is created is later than any before. *)
LEMMA CreateReloads == ASSUME RInv, CreateScript PROVE Reloads'
  <1> DEFINE n == nextScript
             once == Top.once
             ops == <<Lua(n), Started(n, once)>>
  <1>1. /\ At("create") /\ Top.op = "create" /\ ctl # <<>> /\ n <= MaxScripts
        /\ Top.p \in Paths /\ once \in BOOLEAN /\ n \in Ids /\ n \in Nat /\ scripts \subseteq Ids
    BY TopCall DEF CreateScript, At, IInv, TypeOK, Ids
  <1>2. /\ nextScript' = n + 1 /\ scripts' = scripts \cup {n}
        /\ path' = [path EXCEPT ![n] = Top.p] /\ path \in [Ids -> Paths]
        /\ UNCHANGED <<loaded, dead, queue, phase, reloadAsked>>
    BY DEF CreateScript, IInv, TypeOK, life
  <1>3. /\ Lua(n) \in Frames /\ Started(n, once) \in Frames
        /\ Lua(n).op = "lua" /\ Started(n, once).op = "started" /\ Started(n, once).s = n
    BY <1>1, OpsTypes, MainOpsFacts
  <1>4. ops \in Seq(Frames) /\ Of(ops) = {Lua(n), Started(n, once)}
    BY <1>3, ShortOps
  <1>5. PICK st : Alike(st) /\ ctl' = ops \o Tail(st)
    <2>1. CASE Continue(ops)
      BY <2>1, AlikeItself DEF Continue
    <2>2. ASSUME NEW todo \in SUBSET scripts', ctl' = ops \o Tail(Rehash(todo))
          PROVE  \E st : Alike(st) /\ ctl' = ops \o Tail(st)
      <3>1. todo \in SUBSET Ids
        BY <1>1, <1>2
      <3> QED
        BY <2>2, <3>1, RehashAlike
    <2> QED
      BY <2>1, <2>2 DEF CreateScript
  <1> HIDE DEF ops, once
  <1>6. Gentle(ops)
    <2>1. Grown
      BY <1>2 DEF Grown, IInv
    <2>2. \A t \in 1 .. n - 1 : path'[t] = path[t]
      BY <1>1, <1>2 DEF Ids
    <2>3. \A s : ~ Ends(Top, s)
      BY <1>1 DEF Ends
    <2>4. \A c \in Of(ops) : /\ c.op \in {"started", "register"} => c.s = n
                             /\ c.op \notin {"live", "clear", "queue"}
      BY <1>3, <1>4
    <2>5. /\ reloadAsked' = reloadAsked /\ phase' = phase /\ loaded' = loaded /\ queue' = queue
          /\ dead' = dead /\ nextScript' \in Nat /\ nextScript <= nextScript'
          /\ scripts \subseteq scripts' /\ \A t \in scripts' \ scripts : nextScript <= t
      BY <1>1, <1>2
    <2> QED
      BY <1>1, <2>1, <2>2, <2>3, <2>4, <2>5 DEF Gentle
  <1>7. DuesPaid
    <2> SUFFICES ASSUME NEW s \in reloadAsked, Due(s) PROVE Restarted(s)'
      BY DEF DuesPaid, OnItsWay
    <2>1. Top.p = path[s]
      BY <1>1 DEF Due
    <2>2. s \in 1 .. n - 1
      BY DEF Reloads
    <2>3. path'[n] = Top.p /\ path'[s] = path[s]
      BY <1>1, <1>2, <2>2 DEF Ids
    <2>4. n \in 1 .. nextScript' - 1 /\ n > s
      BY <1>1, <1>2, <2>2 DEF Ids
    <2> QED
      BY <2>1, <2>3, <2>4 DEF Restarted
  <1> QED
    BY <1>1, <1>4, <1>5, <1>6, <1>7, ReloadsKept

(* destroy_script() comes to its end, and then the unload is queued. *)
LEMMA DestroyReloads == ASSUME RInv, DestroyScript \/ BuryScript PROVE Reloads'
  <1>0. /\ reloadAsked' = reloadAsked /\ phase' = phase /\ scripts' = scripts /\ path' = path
        /\ loaded' = loaded /\ nextScript' = nextScript /\ nextScript \in Nat
    BY DEF DestroyScript, BuryScript, registry, IInv, TypeOK
  <1>1. CASE DestroyScript
    <2> DEFINE e == Exit(Top.s, Top.how)
               b == Bury(Top.s)
               ops == <<Fire, e, b>>
    <2>1. At("destroy") /\ Top.s \in Ids /\ Top.how \in {"error", "normal", "quit"} /\ Top.op = "destroy"
      BY <1>1, TopCall DEF DestroyScript, ScriptOps, At
    <2>2. /\ e \in Frames /\ b \in Frames /\ Fire \in Frames
          /\ e \in Benign /\ b \in Benign /\ Fire \in Benign
          /\ b.op = "bury" /\ b.s = Top.s
      BY <2>1, OpsTypes, BenignOps DEF Bury
    <2>3. Continue(ops)
      BY <1>1 DEF DestroyScript
    <2> HIDE DEF e, b
    <2>4. ops \in Seq(Frames) /\ Of(ops) = {Fire, e, b}
      BY <2>2, ShortOps
    <2> HIDE DEF ops
    <2>5. ctl # <<>> /\ ctl' = ops \o Tail(ctl) /\ Alike(ctl)
      BY <2>1, <2>3, AlikeItself DEF At, Continue
    <2>6. \A s : Ends(Top, s) => \E c \in Of(ops) : Ends(c, s)
      BY <2>2, <2>4 DEF Ends
    <2>7. \A c \in Of(ops) : /\ c.op \notin {"started", "register", "live", "clear"}
                             /\ c.op = "queue" => c.i = 1
      BY <2>2, <2>4 DEF Benign
    <2>8. queue' = queue /\ dead' = dead /\ Grown
      BY <1>1 DEF DestroyScript, Grown, IInv
    <2>9. Gentle(ops)
      BY <1>0, <2>6, <2>7, <2>8 DEF Gentle
    <2>10. DuesPaid
      BY <2>1 DEF DuesPaid, Due
    <2> QED
      BY <2>4, <2>5, <2>9, <2>10, ReloadsKept
  <1>2. CASE BuryScript
    <2>1. /\ At("bury") /\ Top.op = "bury" /\ dead' = dead \cup {Top.s}
          /\ queue' = Append(queue, RealUnload(Top.s)) /\ Continue(<<>>)
      BY <1>2 DEF BuryScript, At
    <2>2. Top.s \in scripts /\ Top.s \in Ids
      BY <2>1, TopFacts, Typed DEF ScriptOps
    <2>3. RealUnload(Top.s) \in Actions /\ RealUnload(Top.s).id = Top.s
      BY <2>2 DEF RealUnload, Actions
    <2>4. /\ <<>> \in Seq(Frames) /\ Of(<<>>) = {}
          /\ ctl # <<>> /\ ctl' = <<>> \o Tail(ctl) /\ Alike(ctl)
      BY <2>1, ShortOps, AlikeItself DEF At, Continue
    <2>5. Grown /\ \A k \in DOMAIN queue' \ DOMAIN queue : queue'[k] = RealUnload(Top.s)
      <3>1. queue \in Seq(Actions)
        BY DEF IInv
      <3> QED
        BY <2>1, <2>3, <3>1 DEF Grown
    <2>6. \A s : Ends(Top, s) => s \in dead'
      BY <2>1 DEF Ends
    <2>7. Gentle(<<>>)
      BY <1>0, <2>1, <2>2, <2>3, <2>4, <2>5, <2>6 DEF Gentle
    <2>8. DuesPaid
      BY <2>1 DEF DuesPaid, Due
    <2> QED
      BY <2>4, <2>7, <2>8, ReloadsKept
  <1> QED
    BY <1>1, <1>2

(* The load of a reload is queued behind the unload of what was destroyed. *)
LEMMA PushReloads == ASSUME RInv, IInv', PushLoad PROVE Reloads'
  <1>1. /\ At("pushload") /\ Top.op = "pushload" /\ queue' = Append(queue, LoadFile(Top.p))
        /\ Continue(<<>>) /\ Top.p \in Paths
        /\ UNCHANGED <<registry, dead, phase, reloadAsked>>
    BY TopCall DEF PushLoad, At, life
  <1>2. /\ <<>> \in Seq(Frames) /\ Of(<<>>) = {}
        /\ ctl # <<>> /\ ctl' = <<>> \o Tail(ctl) /\ Alike(ctl)
    BY <1>1, ShortOps, AlikeItself DEF Continue, At
  <1>3. LoadFile(Top.p) \in Actions /\ LoadFile(Top.p).type = "load"
    BY <1>1 DEF LoadFile, Actions
  <1>4. PICK n \in Nat : n = Len(queue) + 1 /\ queue \in Seq(Actions)
    BY DEF IInv
  <1>5. /\ n \in DOMAIN queue' /\ queue'[n] = LoadFile(Top.p) /\ DOMAIN queue' = 1 .. n /\ Grown
        /\ \A k \in DOMAIN queue' \ DOMAIN queue : queue'[k] = LoadFile(Top.p)
    BY <1>1, <1>3, <1>4 DEF Grown
  <1>6. Gentle(<<>>)
    <2>1. /\ nextScript \in Nat /\ nextScript' = nextScript /\ path' = path /\ scripts' = scripts
          /\ dead' = dead /\ loaded' = loaded /\ phase' = phase /\ reloadAsked' = reloadAsked
      BY <1>1 DEF IInv, TypeOK, registry
    <2>2. \A s : ~ Ends(Top, s)
      BY <1>1 DEF Ends
    <2> QED
      BY <1>2, <1>3, <1>5, <2>1, <2>2 DEF Gentle
  <1>7. DuesPaid
    <2> SUFFICES ASSUME NEW s \in reloadAsked, Due(s) PROVE LoadAhead(s)'
      BY DEF DuesPaid, OnItsWay
    <2>1. Top.p = path[s] /\ s \in scripts' /\ s \in dead' /\ path' = path
      BY <1>1 DEF Due, registry
    <2>2. PICK j \in DOMAIN queue' :
            /\ queue'[j] = RealUnload(s)
            /\ \A i \in DOMAIN ctl' : ctl'[i].op = "queue" => ctl'[i].i <= j
      BY <2>1 DEF IInv, FailedIsUnloaded, DeadWillBeFreed, StillQueued, RealUnload
    <2>3. j # n
      BY <1>5, <2>2 DEF LoadFile, RealUnload
    <2>4. j < n
      BY <1>5, <2>3
    <2>5. Ahead(j)' /\ Ahead(n)'
      <3>1. Ahead(j)'
        BY <2>2 DEF Ahead
      <3>2. \A i \in DOMAIN ctl' : ctl'[i].op = "queue" => ctl'[i].i <= n
        <4>1. \A i \in DOMAIN ctl' : ctl'[i].op = "queue" => ctl'[i].i \in Nat
          BY FrameFacts DEF IInv
        <4> QED
          BY <1>4, <1>5, <2>2, <2>4, <4>1
      <3> QED
        BY <3>1, <3>2 DEF Ahead
    <2>6. queue'[n] = LoadFile(path'[s])
      BY <1>5, <2>1
    <2> QED
      BY <1>5, <2>1, <2>2, <2>4, <2>5, <2>6 DEF LoadAhead, LoadFile, RealUnload
  <1> QED
    BY <1>2, <1>6, <1>7, ReloadsKept

----------------------------------------------------------------------------
(* run_queued_actions(): nothing of a reload is below the walk, and the    *)
(* walk itself does what is due.                                           *)
LEMMA UnderWalk ==
  ASSUME IInv, At("queue")
  PROVE  /\ \A i \in DOMAIN ctl :
              ctl[i].op \notin {"pushload", "load", "create", "started", "register"}
         /\ \A s : ~ Stopping(s) /\ ~ Loading(s)
  <1>1. /\ ctl[1].op = "queue" /\ 1 \in DOMAIN ctl /\ Top.op = "queue"
        /\ \A i \in DOMAIN ctl : i \in Nat /\ (i = 1 \/ 1 < i)
    BY TopFacts DEF IInv
  <1>2. \A i \in DOMAIN ctl \ {1} : Outer(ctl[i])
    BY <1>1 DEF IInv, Sound, Outside, Base
  <1>3. \A i \in DOMAIN ctl :
          ctl[i].op \notin {"pushload", "load", "create", "started", "register"}
    BY <1>1, <1>2 DEF Outer
  <1> QED
    BY <1>1, <1>3 DEF Stopping, Loading, At

LEMMA RunActionReloads == ASSUME RInv, RunAction PROVE Reloads'
  <1> DEFINE q == Queue(Top.i + 1)
  <1>1. /\ At("queue") /\ Top.op = "queue" /\ Action.type # "perform_real_unload"
        /\ Top.i <= Len(queue)
        /\ UNCHANGED <<registry, dead, queue, phase, reloadAsked>>
    BY DEF RunAction, At, life
  <1>2. /\ Top.i \in Nat \ {0} /\ queue \in Seq(Actions) /\ Len(queue) \in Nat /\ ctl # <<>>
        /\ Alike(ctl)
    BY <1>1, TopFacts, FrameFacts, AlikeItself DEF IInv
  <1>3. Top.i \in DOMAIN queue /\ Action \in Actions /\ Action = queue[Top.i]
    BY <1>1, <1>2 DEF Action
  <1>4. q \in Frames /\ q.op = "queue" /\ q.i = Top.i + 1
    BY <1>2, OpsTypes DEF Queue
  <1> HIDE DEF q
  <1>5. ASSUME NEW ops \in Seq(Frames), Continue(ops),
               \A c \in Of(ops) : c = q \/ c \in Benign, DuesPaid
        PROVE  Reloads'
    <2>1. /\ nextScript \in Nat /\ nextScript' = nextScript /\ path' = path /\ scripts' = scripts
          /\ dead' = dead /\ loaded' = loaded /\ phase' = phase /\ reloadAsked' = reloadAsked
          /\ queue' = queue /\ Grown
      BY <1>1 DEF IInv, TypeOK, registry, Grown
    <2>2. \A s : ~ Ends(Top, s)
      BY <1>1 DEF Ends
    <2>3. \A c \in Of(ops) : /\ c.op \notin {"started", "register", "live", "clear"}
                             /\ c.op = "queue" => c.i = 1 \/ (Top.op = "queue" /\ c.i = Top.i + 1)
      BY <1>1, <1>4, <1>5 DEF Benign
    <2>4. Gentle(ops)
      BY <2>1, <2>2, <2>3 DEF Gentle
    <2> QED
      BY <1>2, <1>5, <2>4, ReloadsKept DEF Continue
  (* What is due is a reload of an instance that exists, or a load. *)
  <1>6. ASSUME NEW s \in reloadAsked, Due(s)
        PROVE  \/ Action = Reload(s) /\ s \in scripts
               \/ Action = LoadFile(path[s]) /\ loaded[path[s]] = None
    BY <1>1, <1>3, <1>6 DEF Due, RealUnload, Vacant
  <1>7. CASE /\ QueueStep(<<>>)
             /\ Action.type # "load" /\ (Action.type = "reload" => Action.id \notin scripts)
    <2>1. Continue(<<q>>)
      BY <1>4, <1>7, Joined DEF QueueStep, q
    <2>2. <<q>> \in Seq(Frames) /\ Of(<<q>>) = {q}
      BY <1>4, ShortOps
    <2>3. DuesPaid
      BY <1>6, <1>7 DEF DuesPaid, Reload, LoadFile
    <2> QED
      BY <1>5, <2>1, <2>2, <2>3
  <1>8. CASE /\ QueueStep(<<Destroy(Action.id, "normal")>>)
             /\ Action.type = "unload" /\ Action.id \in scripts
    <2> DEFINE d == Destroy(Action.id, "normal")
    <2>1. d \in Frames /\ d \in Benign
      BY <1>8, OpsTypes, BenignOps, Typed
    <2> HIDE DEF d
    <2>2. Continue(<<d, q>>)
      BY <1>4, <1>8, <2>1, Joined DEF QueueStep, q, d
    <2>3. <<d, q>> \in Seq(Frames) /\ Of(<<d, q>>) = {d, q}
      BY <1>4, <2>1, ShortOps
    <2>4. DuesPaid
      BY <1>6, <1>8 DEF DuesPaid, Reload, LoadFile
    <2> QED
      BY <1>5, <2>1, <2>2, <2>3, <2>4
  <1>9. CASE QueueStep(<<Load(Action.path, TRUE)>>) /\ Action.type = "load"
    <2> DEFINE l == Load(Action.path, TRUE)
               ops == <<l, q>>
    <2>1. Action.path \in Paths
      BY <1>3, <1>9 DEF Actions
    <2>2. l \in Frames /\ l \in Benign /\ l.op = "load" /\ l.p = Action.path
      BY <2>1, OpsTypes, BenignOps DEF Load
    <2> HIDE DEF l
    <2>3. Continue(ops)
      BY <1>4, <1>9, <2>2, Joined DEF QueueStep, q, l
    <2>4. ops \in Seq(Frames) /\ Of(ops) = {l, q} /\ 1 \in DOMAIN ops /\ ops[1] = l
      BY <1>4, <2>2, ShortOps
    <2> HIDE DEF ops
    <2>5. 1 \in DOMAIN ctl' /\ ctl'[1] = l /\ ctl' \in Seq(Frames)
      BY <1>2, <2>3, <2>4, Lower, ReplacedOf DEF Continue, IInv
    <2>6. At("load")' /\ Top'.p = Action.path
      BY <2>2, <2>5 DEF At, Top
    <2>7. DuesPaid
      <3> SUFFICES ASSUME NEW s \in reloadAsked, Due(s) PROVE Loading(s)'
        BY DEF DuesPaid, OnItsWay
      <3>1. Action.path = path[s] /\ loaded[path[s]] = None
        BY <1>6, <1>9 DEF Reload, LoadFile
      <3>2. path' = path /\ loaded' = loaded
        BY <1>1 DEF registry
      <3> QED
        BY <2>6, <3>1, <3>2 DEF Loading
    <2> QED
      BY <1>5, <2>2, <2>3, <2>4, <2>7
  <1>10. CASE /\ QueueStep(ReloadOps(Action.id))
              /\ Action.type = "reload" /\ Action.id \in scripts
    <2> DEFINE d == Destroy(Action.id, "normal")
               l == [op |-> "pushload", p |-> path[Action.id]]
               ops == <<d, l, q>>
    <2>1. Action.id \in Ids /\ path[Action.id] \in Paths
      BY <1>10, Typed
    <2>2. /\ d \in Frames /\ d \in Benign /\ d.op = "destroy" /\ d.s = Action.id
          /\ l \in Frames /\ l.op = "pushload" /\ l.p = path[Action.id]
      BY <2>1, OpsTypes, BenignOps DEF Destroy
    <2>3. QueueStep(<<d, l>>)
      BY <1>10 DEF ReloadOps
    <2> HIDE DEF d, l
    <2>4. l \in Benign
      BY <2>2 DEF Benign
    <2>5. Continue(ops)
      BY <1>4, <2>2, <2>3, Joined DEF QueueStep, q
    <2>6. /\ ops \in Seq(Frames) /\ Of(ops) = {d, l, q}
          /\ 1 \in DOMAIN ops /\ ops[1] = d /\ 2 \in DOMAIN ops /\ ops[2] = l
      BY <1>4, <2>2, ShortOps
    <2> HIDE DEF ops
    <2>7. 1 \in DOMAIN ctl' /\ ctl'[1] = d /\ 2 \in DOMAIN ctl' /\ ctl'[2] = l
      BY <1>2, <2>5, <2>6, Lower DEF Continue
    <2>8. DuesPaid
      <3> SUFFICES ASSUME NEW s \in reloadAsked, Due(s) PROVE Stopping(s)'
        BY DEF DuesPaid, OnItsWay
      <3>1. Action.id = s
        BY <1>6, <1>10 DEF Reload, LoadFile
      <3>2. path' = path /\ scripts' = scripts
        BY <1>1 DEF registry
      <3>3. Ends(ctl'[1], s)
        BY <2>2, <2>7, <3>1 DEF Ends
      <3>4. 1 < 2
        OBVIOUS
      <3> QED
        BY <1>10, <2>2, <2>7, <3>1, <3>2, <3>3, <3>4 DEF Stopping, Ends
    <2> QED
      BY <1>5, <2>2, <2>4, <2>5, <2>6, <2>8
  <1> QED
    BY <1>7, <1>8, <1>9, <1>10 DEF RunAction

(* What stays on the stack when a walk ends, or goes on. *)
LEMMA WalkLeaves ==
  ASSUME IInv, At("queue"), NEW ops \in Seq(Frames), Continue(ops)
  PROVE  \A i \in DOMAIN ctl' : ctl'[i] \in Of(ops) \/ \E j \in DOMAIN ctl \ {1} : ctl'[i] = ctl[j]
  <1>1. ctl \in Seq(Frames) /\ ctl # <<>> /\ ctl' = ops \o Tail(ctl)
    BY TopFacts DEF IInv, Continue
  <1> DEFINE u == ops \o Tail(ctl)
  <1>2. \A i \in DOMAIN u : u[i] \in Of(ops) \/ \E j \in DOMAIN ctl \ {1} : u[i] = ctl[j]
    BY <1>1, ReplacedOf
  <1>3. ctl' = u
    BY <1>1
  <1> HIDE DEF u
  <1> QED
    BY <1>2, <1>3

(* The instance goes, and its path with it: the load behind has its turn.  *)
LEMMA PerformReloads == ASSUME RInv, PerformRealUnload PROVE Reloads'
  <1> DEFINE q == Queue(Top.i + 1)
             u == Action.id
  <1>1. /\ At("queue") /\ Top.op = "queue" /\ Action.type = "perform_real_unload"
        /\ Top.i <= Len(queue) /\ QueueStep(<<>>)
        /\ UNCHANGED <<nextScript, path, queue, phase, reloadAsked>>
    BY DEF PerformRealUnload, At
  <1>2. /\ Top.i \in Nat \ {0} /\ queue \in Seq(Actions) /\ Len(queue) \in Nat /\ ctl # <<>>
        /\ Alike(ctl) /\ 1 \in DOMAIN ctl /\ ctl[1] = Top
    BY <1>1, TopFacts, FrameFacts, AlikeItself DEF IInv
  <1>3. /\ Top.i \in DOMAIN queue /\ Action \in Actions /\ Action = queue[Top.i]
        /\ Action = RealUnload(u)
    <2>1. Top.i \in DOMAIN queue /\ Action \in Actions /\ Action = queue[Top.i]
      BY <1>1, <1>2 DEF Action
    <2> QED
      BY <1>1, <2>1 DEF Actions, RealUnload
  <1>r. /\ queue[Top.i] = RealUnload(u)
        /\ \A s : RealUnload(u) # Reload(s) /\ RealUnload(u) # LoadFile(s)
        /\ \A s : RealUnload(s) = RealUnload(u) => s = u
    <2>1. /\ RealUnload(u).type = "perform_real_unload" /\ \A s : RealUnload(s).id = s
          /\ \A s : Reload(s).type = "reload" /\ LoadFile(s).type = "load"
      BY DEF RealUnload, Reload, LoadFile
    <2>2. queue[Top.i] = RealUnload(u)
      BY <1>3
    <2> QED
      BY <2>1, <2>2
  <1>4. q \in Frames /\ q.op = "queue" /\ q.i = Top.i + 1
    BY <1>2, OpsTypes DEF Queue
  <1>n. nextScript \in Nat
    BY DEF IInv, TypeOK
  <1> HIDE DEF q, u
  <1>5. Continue(<<q>>) /\ <<q>> \in Seq(Frames) /\ Of(<<q>>) = {q}
    BY <1>1, <1>4, Joined, ShortOps DEF QueueStep, q
  <1>6. CASE u \notin scripts /\ UNCHANGED <<scripts, loaded, cmds, life>>
    <2>1. Grown /\ scripts' = scripts /\ loaded' = loaded /\ dead' = dead
      BY <1>1, <1>2, <1>6 DEF Grown, life
    <2>2. \A s : ~ Ends(Top, s)
      BY <1>1 DEF Ends
    <2>3. Gentle(<<q>>)
      BY <1>1, <1>4, <1>5, <1>n, <2>1, <2>2 DEF Gentle
    <2>4. DuesPaid
      <3>1. \A s : Due(s) => s = u /\ s \in scripts
        BY <1>1, <1>3 DEF Due, Reload, LoadFile, RealUnload
      <3> QED
        BY <1>6, <3>1 DEF DuesPaid
    <2> QED
      BY <1>2, <1>5, <2>3, <2>4, ReloadsKept DEF Continue
  <1>7. CASE u \in scripts /\ Free(u)
    <2>1. /\ scripts' = scripts \ {u} /\ dead' = dead \ {u}
          /\ loaded' = [loaded EXCEPT ![path[u]] = None]
          /\ nextScript' = nextScript /\ path' = path /\ queue' = queue /\ phase' = phase
          /\ reloadAsked' = reloadAsked
          /\ loaded \in [Paths -> Ids \cup {None}] /\ path \in [Ids -> Paths] /\ u \in Ids
      BY <1>1, <1>7, Typed DEF Free, IInv, TypeOK
    <2>2. \A i \in DOMAIN ctl' : ctl'[i] = q \/ \E j \in DOMAIN ctl \ {1} : ctl'[i] = ctl[j]
      BY <1>1, <1>5, WalkLeaves
    <2>3. /\ \A i \in DOMAIN ctl' : ctl'[i].op \notin {"started", "register"}
          /\ \A s : ~ Stopping(s) /\ ~ Loading(s)
      BY <1>1, <1>4, <2>2, UnderWalk
    <2>4. ASSUME NEW k \in DOMAIN queue, Ahead(k), k # Top.i PROVE Ahead(k)' /\ Top.i < k
      <3>1. Top.i <= k /\ k \in Nat
        BY <1>1, <1>2, <2>4 DEF Ahead
      <3>2. Top.i + 1 <= k
        BY <1>2, <2>4, <3>1
      <3> QED
        BY <1>2, <1>4, <2>2, <2>4, <3>1, <3>2 DEF Ahead
    <2>5. \A k \in DOMAIN queue : Ahead(k) => Top.i <= k
      BY <1>1, <1>2 DEF Ahead
    <2>6. ASSUME NEW s \in 1 .. nextScript - 1, OnItsWay(s) PROVE OnItsWay(s)'
      <3>0. path'[s] = path[s] /\ s \in Ids /\ path[s] \in Paths
        BY <2>1 DEF IInv, TypeOK, Ids
      <3>1. CASE Restarted(s)
        BY <2>1, <3>1 DEF OnItsWay, Restarted
      <3>2. CASE ReloadAhead(s)
        <4>1. PICK k \in DOMAIN queue :
                /\ queue[k] = Reload(s) /\ Ahead(k)
                /\ \A j \in DOMAIN queue : queue[j] = RealUnload(s) => k < j
          BY <3>2 DEF ReloadAhead
        <4>2. k # Top.i
          BY <1>r, <4>1
        <4>3. Ahead(k)' /\ Top.i < k
          BY <2>4, <4>1, <4>2
        <4>4. s # u
          BY <1>2, <1>3, <1>r, <4>1, <4>3
        <4>5. s \in scripts'
          BY <2>1, <3>2, <4>4 DEF ReloadAhead
        <4> QED
          BY <2>1, <4>1, <4>3, <4>5 DEF OnItsWay, ReloadAhead, Reload, RealUnload
      <3>3. CASE LoadAhead(s)
        <4>1. PICK k \in DOMAIN queue :
                /\ queue[k] = LoadFile(path[s]) /\ Ahead(k)
                /\ \/ Vacant(s)
                   \/ /\ s \in scripts
                      /\ \E j \in DOMAIN queue : j < k /\ queue[j] = RealUnload(s) /\ Ahead(j)
          BY <3>3 DEF LoadAhead
        <4>2. k # Top.i
          BY <1>r, <4>1
        <4>3. Ahead(k)'
          BY <2>4, <4>1, <4>2
        <4>4. CASE Vacant(s) \/ s = u
          <5>1. s \notin scripts' /\ loaded'[path'[s]] = None
            BY <2>1, <3>0, <4>4 DEF Vacant
          <5>2. Vacant(s)'
            BY <2>3, <5>1 DEF Vacant
          <5> QED
            BY <2>1, <4>1, <4>3, <5>2 DEF OnItsWay, LoadAhead, LoadFile
        <4>5. CASE s # u /\ s \in scripts
                   /\ \E j \in DOMAIN queue : j < k /\ queue[j] = RealUnload(s) /\ Ahead(j)
          <5>1. PICK j \in DOMAIN queue : j < k /\ queue[j] = RealUnload(s) /\ Ahead(j)
            BY <4>5
          <5>2. j # Top.i
            BY <1>r, <4>5, <5>1
          <5>3. Ahead(j)' /\ s \in scripts'
            BY <2>1, <2>4, <4>5, <5>1, <5>2
          <5> QED
            BY <2>1, <4>1, <4>3, <5>1, <5>3 DEF OnItsWay, LoadAhead, LoadFile, RealUnload
        <4> QED
          BY <4>1, <4>4, <4>5
      <3> QED
        BY <2>3, <2>6, <3>1, <3>2, <3>3 DEF OnItsWay
    <2>7. Buried'
      BY <2>1 DEF Reloads, Buried
    <2>8. Closing'
      <3>1. q.op \notin {"live", "clear"}
        BY <1>4
      <3> QED
        BY <2>1, <2>2, <3>1 DEF Reloads, Closing
    <2> QED
      BY <2>1, <2>6, <2>7, <2>8 DEF Reloads
  <1> QED
    BY <1>6, <1>7 DEF PerformRealUnload, u

(* The walk that ends has passed everything. *)
LEMMA QueueDoneReloads == ASSUME RInv, QueueDone PROVE Reloads'
  <1>1. /\ At("queue") /\ Top.op = "queue" /\ Top.i > Len(queue) /\ Continue(<<>>)
        /\ queue' = <<>> /\ UNCHANGED <<registry, phase, reloadAsked>>
    BY DEF QueueDone, At
  <1>2. /\ Top.i \in Nat \ {0} /\ Len(queue) \in Nat /\ DOMAIN queue = 1 .. Len(queue)
        /\ 1 \in DOMAIN ctl /\ ctl[1] = Top
    BY <1>1, TopFacts, FrameFacts DEF IInv
  <1>3. \A k \in DOMAIN queue : ~ Ahead(k)
    BY <1>1, <1>2 DEF Ahead
  <1>4. ASSUME NEW s, OnItsWay(s) PROVE OnItsWay(s)'
    <2>1. Restarted(s)
      BY <1>1, <1>3, <1>4, UnderWalk DEF OnItsWay, ReloadAhead, LoadAhead
    <2> QED
      BY <1>1, <2>1 DEF OnItsWay, Restarted, registry
  <1>5. Closing'
    <2>1. <<>> \in Seq(Frames) /\ Of(<<>>) = {}
      BY ShortOps
    <2>2. \A i \in DOMAIN ctl' : \E j \in DOMAIN ctl \ {1} : ctl'[i] = ctl[j]
      BY <1>1, <2>1, WalkLeaves
    <2> QED
      BY <1>1, <2>2 DEF Reloads, Closing
  <1>6. Buried'
    BY <1>1 DEF Buried
  <1>7. nextScript' = nextScript
    BY <1>1 DEF registry
  <1> QED
    BY <1>1, <1>4, <1>5, <1>6, <1>7 DEF Reloads

----------------------------------------------------------------------------
(* What begins on an empty stack: whatever is ahead is ahead of it too.    *)
LEMMA EmptyReloads ==
  ASSUME RInv, ctl = <<>>, UNCHANGED <<registry, life, queue, phase, reloadAsked>>, Closing',
         \A i \in DOMAIN ctl' : /\ ctl'[i].op \notin {"started", "register"}
                                /\ ctl'[i].op = "queue" => ctl'[i].i = 1
  PROVE  Reloads'
  <1>1. /\ nextScript' = nextScript /\ path' = path /\ scripts' = scripts /\ loaded' = loaded
        /\ dead' = dead /\ queue' = queue /\ phase' = phase /\ reloadAsked' = reloadAsked
    BY DEF registry, life
  <1>2. DOMAIN ctl = {} /\ \A k \in DOMAIN queue : k \in Nat /\ k >= 1
    BY DEF IInv
  <1>3. \A k \in DOMAIN queue : Ahead(k)'
    BY <1>2 DEF Ahead
  <1>4. ASSUME NEW s, OnItsWay(s) PROVE OnItsWay(s)'
    <2>1. ~ Stopping(s) /\ ~ Loading(s)
      BY <1>2 DEF Stopping, Loading, At
    <2>2. Restarted(s) => Restarted(s)'
      BY <1>1 DEF Restarted
    <2>3. ReloadAhead(s) => ReloadAhead(s)'
      BY <1>1, <1>3 DEF ReloadAhead, Reload, RealUnload
    <2>4. Vacant(s) => Vacant(s)'
      BY <1>1 DEF Vacant
    <2>5. LoadAhead(s) => LoadAhead(s)'
      BY <1>1, <1>3, <2>4 DEF LoadAhead, LoadFile, RealUnload
    <2> QED
      BY <1>4, <2>1, <2>2, <2>3, <2>5 DEF OnItsWay
  <1>5. Buried'
    BY <1>1 DEF Reloads, Buried
  <1> QED
    BY <1>1, <1>4, <1>5 DEF Reloads

LEMMA BeginningReloads ==
  ASSUME RInv,
         \/ InitManager \/ Frame \/ GameEvent \/ Shutdown
         \/ \E n \in Names : Command(n) /\ ctl = <<>>
  PROVE  Reloads'
  <1>0. ctl = <<>> /\ UNCHANGED <<registry, life, queue, phase, reloadAsked>>
    BY DEF InitManager, Frame, GameEvent, Shutdown, Command
  <1>1. /\ LoadAll(Paths \ Libraries).op = "loadall" /\ Fire.op = "fire"
        /\ Queue(1).op = "queue" /\ Queue(1).i = 1
        /\ \A what : Then(what).op = what
        /\ \A s : Lua(s).op = "lua" /\ \A n : CmdDone(n, s).op = "cmddone"
    BY DEF LoadAll, Fire, Queue, Then, Lua, CmdDone
  <1>2. CASE InitManager
    <2>1. ctl' = <<LoadAll(Paths \ Libraries), Fire, Queue(1), Then("startmains"), Then("live")>>
      BY <1>2 DEF InitManager
    <2>2. /\ DOMAIN ctl' = 1 .. 5
          /\ \A i \in 1 .. 5 : /\ ctl'[i].op \notin {"started", "register", "clear"}
                               /\ ctl'[i].op = "queue" => ctl'[i].i = 1
      BY <1>1, <2>1
    <2>3. Closing'
      BY <1>2, <2>2 DEF InitManager, Closing
    <2> QED
      BY <1>0, <2>2, <2>3, EmptyReloads
  <1>3. CASE Frame
    <2>1. ctl' = <<Queue(1), Then("frame"), Queue(1)>>
      BY <1>3 DEF Frame
    <2>2. /\ DOMAIN ctl' = 1 .. 3
          /\ \A i \in 1 .. 3 : /\ ctl'[i].op \notin {"started", "register", "live"}
                               /\ ctl'[i].op = "queue" => ctl'[i].i = 1
      BY <1>1, <2>1
    <2>3. Closing'
      BY <2>2 DEF Closing
    <2> QED
      BY <1>0, <2>2, <2>3, EmptyReloads
  <1>4. CASE GameEvent
    <2>1. ctl' = <<Fire>>
      BY <1>4 DEF GameEvent
    <2>2. /\ DOMAIN ctl' = 1 .. 1
          /\ \A i \in 1 .. 1 : ctl'[i].op \notin {"started", "register", "live", "queue"}
      BY <1>1, <2>1
    <2>3. Closing'
      BY <2>2 DEF Closing
    <2> QED
      BY <1>0, <2>2, <2>3, EmptyReloads
  <1>5. CASE Shutdown
    <2>1. ctl' = <<Fire, Queue(1), Then("quit"), Then("clear")>>
      BY <1>5 DEF Shutdown
    <2>2. /\ DOMAIN ctl' = 1 .. 4
          /\ \A i \in 1 .. 4 : /\ ctl'[i].op \notin {"started", "register", "live"}
                               /\ ctl'[i].op = "queue" => ctl'[i].i = 1
      BY <1>1, <2>1
    <2>3. Closing'
      BY <2>2 DEF Closing
    <2> QED
      BY <1>0, <2>2, <2>3, EmptyReloads
  <1>6. ASSUME NEW n \in Names, Command(n) PROVE Reloads'
    <2> DEFINE s == commands[n]
    <2>1. ctl' = <<Lua(s), CmdDone(n, s)>> \o ctl
      BY <1>6 DEF Command, Call
    <2> HIDE DEF s
    <2>2. ctl' = <<Lua(s), CmdDone(n, s)>>
      BY <1>0, <2>1
    <2>3. /\ DOMAIN ctl' = 1 .. 2
          /\ \A i \in 1 .. 2 : ctl'[i].op \notin {"started", "register", "live", "queue"}
      BY <1>1, <2>2
    <2>4. Closing'
      BY <2>3 DEF Closing
    <2> QED
      BY <1>0, <2>3, <2>4, EmptyReloads
  <1> QED
    BY <1>2, <1>3, <1>4, <1>5, <1>6

(* script:reload() itself, and what leaves the stack alone. *)
LEMMA AskedReloads ==
  ASSUME RInv,
         \/ \E a \in Requests : LuaRequest(a)
         \/ LuaReloadScripts \/ GameRestart \/ UNCHANGED vars
         \/ \E n \in Names : LuaRegister(n) \/ LuaUnregister(n)
  PROVE  Reloads'
  <1>1. ASSUME NEW a \in Requests, LuaRequest(a) PROVE Reloads'
    <2>1. /\ queue' = Append(queue, a) /\ UNCHANGED <<registry, life, ctl, phase>>
          /\ a.type \in {"unload", "reload"} => a.id \in scripts \ dead
          /\ reloadAsked' = IF a.type = "reload" THEN reloadAsked \cup {a.id} ELSE reloadAsked
      BY <1>1 DEF LuaRequest
    <2>2. /\ a \in Actions /\ a.type # "perform_real_unload"
          /\ a.type = "reload" => a = Reload(a.id)
      BY Typed DEF Requests, Actions, Unload, Reload, LoadFile
    <2>3. Grown /\ \A k \in DOMAIN queue' \ DOMAIN queue : queue'[k] = a
      <3>1. queue \in Seq(Actions)
        BY DEF IInv
      <3> QED
        BY <2>1, <2>2, <3>1 DEF Grown
    <2>4. \A s \in reloadAsked' \ reloadAsked :
            s \in scripts \ dead /\ queue' = Append(queue, Reload(s))
      BY <2>1, <2>2
    <2> QED
      BY <2>1, <2>2, <2>3, <2>4, ReloadsAsked
  <1>2. CASE \/ LuaReloadScripts \/ GameRestart \/ UNCHANGED vars
             \/ \E n \in Names : LuaRegister(n) \/ LuaUnregister(n)
    <2>1. UNCHANGED <<registry, life, ctl, phase, queue, reloadAsked>>
      BY <1>2 DEF LuaReloadScripts, GameRestart, LuaRegister, LuaUnregister, vars
    <2>2. Grown
      BY <2>1 DEF Grown, IInv
    <2> QED
      BY <2>1, <2>2, ReloadsAsked
  <1> QED
    BY <1>1, <1>2

LEMMA ClearReloads == ASSUME RInv, Clear PROVE Reloads'
  <1>1. /\ At("clear") /\ Continue(<<>>) /\ queue' = <<>> /\ phase' = "off"
        /\ nextScript' = nextScript /\ reloadAsked' = reloadAsked
    BY DEF Clear
  <1>2. /\ ctl \in Seq(Frames) /\ ctl # <<>> /\ 1 \in DOMAIN ctl /\ ctl[1].op = "clear"
        /\ ctl' = <<>> \o Tail(ctl)
    BY <1>1, TopFacts DEF IInv, Continue
  <1>3. \A i \in DOMAIN ctl : ctl[i].op # "live"
    BY <1>2 DEF Reloads, Closing
  <1>4. \A i \in DOMAIN ctl' : \E j \in DOMAIN ctl : ctl'[i] = ctl[j]
    <2> DEFINE t == <<>> \o Tail(ctl)
    <2>1. <<>> \in Seq(Frames) /\ Of(<<>>) = {}
      BY ShortOps
    <2>2. \A i \in DOMAIN t : t[i] \in Of(<<>>) \/ \E j \in DOMAIN ctl \ {1} : t[i] = ctl[j]
      BY <1>2, <2>1, ReplacedOf
    <2>3. ctl' = t
      BY <1>2
    <2> HIDE DEF t
    <2> QED
      BY <2>1, <2>2, <2>3
  <1>5. Closing' /\ Buried'
    BY <1>1, <1>3, <1>4 DEF Closing, Buried
  <1> QED
    BY <1>1, <1>5 DEF Reloads

LEMMA ReloadsStay == RInv /\ IInv' /\ [Next]_vars => Reloads'
  <1> SUFFICES ASSUME RInv, IInv', [Next]_vars PROVE Reloads'
    OBVIOUS
  <1>1. CASE \/ LuaReturn \/ LuaFail \/ LuaPrint
             \/ \E p \in Paths : LuaImport(p)
             \/ \E n \in Names : Command(n) /\ ctl # <<>>
    BY <1>1, LuaReloads
  <1>2. CASE \/ CommandDone \/ FireEvent \/ EachDone \/ HandlerDone
             \/ \E s \in Ids : CallHandler(s)
    BY <1>2, EventReloads
  <1>3. CASE \/ StartMain \/ MainReturned \/ StartMains \/ NextMain \/ LoadNext
             \/ ExitHandlers \/ ExitDone
    BY <1>3, MainReloads
  <1>4. CASE \/ InitDone \/ FrameBody \/ RunScriptsDone \/ ScriptRan \/ ReloadStep \/ ReloadDone
             \/ QuitScripts \/ \E s \in Ids : RunScript(s)
    BY <1>4, LoopReloads
  <1>5. CASE ScriptStarted \/ RegisterScript
    BY <1>5, StartedReloads
  <1>6. CASE LoadScript \/ CreateBeyondBound \/ CreateScript
    BY <1>6, LoadReloads, CreateReloads
  <1>7. CASE DestroyScript \/ BuryScript \/ PushLoad
    BY <1>7, DestroyReloads, PushReloads
  <1>8. CASE RunAction \/ PerformRealUnload \/ QueueDone
    BY <1>8, RunActionReloads, PerformReloads, QueueDoneReloads
  <1>9. CASE \/ InitManager \/ Frame \/ GameEvent \/ Shutdown
             \/ \E n \in Names : Command(n) /\ ctl = <<>>
    BY <1>9, BeginningReloads
  <1>10. CASE \/ \E a \in Requests : LuaRequest(a)
              \/ LuaReloadScripts \/ GameRestart \/ UNCHANGED vars
              \/ \E n \in Names : LuaRegister(n) \/ LuaUnregister(n)
    BY <1>10, AskedReloads
  <1>11. CASE Clear
    BY <1>11, ClearReloads
  <1>12. CASE Off
    BY <1>10, <1>12 DEF Off
  <1> QED
    BY <1>1, <1>2, <1>3, <1>4, <1>5, <1>6, <1>7, <1>8, <1>9, <1>10, <1>11, <1>12 DEF Next

(* script:reload() starts the file again: when the manager is idle, every  *)
(* instance a reload was asked for has a later instance of its file, in    *)
(* whatever order unloads, reloads, loads and failures were queued.        *)
THEOREM ReloadAlwaysStartsAgain == Spec => []ReloadStartsAgain
  <1>1. Init => RInv
    <2> SUFFICES ASSUME Init PROVE RInv
      OBVIOUS
    <2>1. DOMAIN queue = {} /\ DOMAIN ctl = {} /\ reloadAsked = {}
      BY DEF Init
    <2> QED
      BY <2>1, Initially DEF Reloads, Buried, Closing
  <1>2. RInv /\ [Next]_vars => RInv'
    BY Stays, ReloadsStay
  <1>3. RInv => ReloadStartsAgain
    <2> SUFFICES ASSUME RInv, ctl = <<>>, queue = <<>>, phase = "live", nextScript <= MaxScripts,
                        NEW s \in reloadAsked
                 PROVE  Restarted(s)
      BY DEF ReloadStartsAgain, Restarted
    <2>1. DOMAIN queue = {} /\ DOMAIN ctl = {}
      OBVIOUS
    <2>2. OnItsWay(s)
      BY DEF Reloads
    <2> QED
      BY <2>1, <2>2 DEF OnItsWay, ReloadAhead, Stopping, LoadAhead, Loading, At
  <1> HIDE DEF RInv
  <1> QED
    BY <1>1, <1>2, <1>3, PTL DEF Spec

----------------------------------------------------------------------------
(* What became of a main function that has been entered: it returned and   *)
(* is known, or its instance is dying, or its first slice is on the stack. *)
Known ==
  \A s \in begun \cap scripts :
    s \in mains \cup dying \/ \E i \in DOMAIN ctl : ctl[i].op = "maindone" /\ ctl[i].s = s

(* What leads to a main function is called where nothing is being          *)
(* destroyed: from the queue, or from start_main_all().                    *)
Direct(c)  == c.op = "main" \/ (c.op \in {"load", "create", "started", "register"} /\ c.once)
Buries(c)  == c.op \in {"destroy", "bury"}
Calm ==
  \A i, j \in DOMAIN ctl : i < j /\ Direct(ctl[i]) => ~ Buries(ctl[j])

BInv == IInv /\ Known /\ Calm

(* A call that may be made from the top, as far as Calm goes. *)
Allowed(c) == Direct(c) => Direct(Top) \/ Top.op \in Base

LEMMA CalmKept ==
  ASSUME IInv, Calm, ctl # <<>>, NEW st, Alike(st), NEW ops, ops \in Seq(Of(ops)),
         ctl' = ops \o Tail(st),
         \A i \in DOMAIN ops : Allowed(ops[i]),
         \A i, j \in DOMAIN ops : i < j /\ Direct(ops[i]) => ~ Buries(ops[j])
  PROVE  /\ Calm'
         /\ \A i \in DOMAIN ops : i \in DOMAIN ctl' /\ ctl'[i] = ops[i]
         /\ \A j \in DOMAIN ctl \ {1} : ctl[j].op = "maindone" =>
              \E i \in DOMAIN ctl' : ctl'[i] = ctl[j]
  <1> DEFINE S == Frames \cup Of(ops)
  <1>1. /\ ctl \in Seq(Frames) /\ 1 \in DOMAIN ctl /\ Top = ctl[1]
        /\ st \in Seq(Frames) /\ st # <<>> /\ DOMAIN st = DOMAIN ctl
        /\ DOMAIN ctl = 1 .. Len(ctl) /\ Len(ctl) \in Nat
    BY DEF IInv, Top, Alike
  <1>2. st \in Seq(S) /\ ops \in Seq(S)
    <2>1. ASSUME NEW R, NEW T, R \subseteq T, NEW q \in Seq(R) PROVE q \in Seq(T)
      <3>1. q = [i \in 1 .. Len(q) |-> q[i]] /\ \A i \in 1 .. Len(q) : q[i] \in T
        BY <2>1
      <3> QED
        BY <3>1
    <2>2. Frames \subseteq S /\ Of(ops) \subseteq S
      OBVIOUS
    <2> HIDE DEF S
    <2> QED
      BY <1>1, <2>1, <2>2
  <1> HIDE DEF S
  <1>3. /\ \A k \in DOMAIN ops : k \in DOMAIN ctl' /\ ctl'[k] = ops[k]
        /\ \A k \in DOMAIN st \ {1} : /\ k + Len(ops) - 1 \in DOMAIN ctl'
                                      /\ ctl'[k + Len(ops) - 1] = st[k]
        /\ \A k \in DOMAIN ctl' \ DOMAIN ops : /\ k - Len(ops) + 1 \in DOMAIN st \ {1}
                                               /\ ctl'[k] = st[k - Len(ops) + 1]
        /\ ctl' \in Seq(S)
    BY <1>1, <1>2, Spliced
  <1>4. /\ DOMAIN ops = 1 .. Len(ops) /\ Len(ops) \in Nat
        /\ DOMAIN ctl' = 1 .. Len(ctl') /\ Len(ctl') \in Nat
    BY <1>2, <1>3
  <1>5. ASSUME NEW i \in DOMAIN ctl, Direct(st[i]) \/ st[i].op = "maindone" \/ ctl[i].op = "maindone"
        PROVE  st[i] = ctl[i]
    BY <1>5 DEF Alike, Direct, Loops
  <1>6. ASSUME NEW i \in DOMAIN ctl PROVE Buries(st[i]) <=> Buries(ctl[i])
    BY DEF Alike, Buries
  <1>7. ASSUME NEW i \in DOMAIN ctl', NEW j \in DOMAIN ctl', i < j,
               Direct(ctl'[i]), Buries(ctl'[j])
        PROVE  FALSE
    <2> DEFINE a == i - Len(ops) + 1
               b == j - Len(ops) + 1
    <2>1. j \notin DOMAIN ops
      <3>1. j \in DOMAIN ops => i \in DOMAIN ops
        BY <1>4, <1>7
      <3> QED
        BY <1>3, <1>7, <3>1
    <2>2. b \in DOMAIN ctl \ {1} /\ ctl'[j] = st[b] /\ Buries(ctl[b])
      BY <1>1, <1>3, <1>6, <1>7, <2>1
    <2>3. CASE i \in DOMAIN ops
      <3>1. Direct(Top) \/ Top.op \in Base
        BY <1>3, <1>7, <2>3 DEF Allowed
      <3>2. 1 < b
        BY <1>1, <2>2
      <3>3. CASE Direct(Top)
        BY <1>1, <2>2, <3>2, <3>3 DEF Calm
      <3>4. CASE Top.op \in Base
        <4>1. Outer(ctl[b])
          BY <1>1, <2>2, <3>2, <3>4 DEF IInv, Sound, Outside
        <4> QED
          BY <2>2, <4>1 DEF Outer, Buries
      <3> QED
        BY <3>1, <3>3, <3>4
    <2>4. CASE i \notin DOMAIN ops
      <3>1. a \in DOMAIN ctl /\ ctl'[i] = st[a]
        BY <1>1, <1>3, <2>4
      <3>2. Direct(ctl[a])
        BY <1>5, <1>7, <3>1
      <3>3. a < b
        BY <1>4, <1>7
      <3> QED
        BY <2>2, <3>1, <3>2, <3>3 DEF Calm
    <2> QED
      BY <2>3, <2>4
  <1>8. Calm'
    BY <1>7 DEF Calm, Direct, Buries
  <1>9. ASSUME NEW j \in DOMAIN ctl \ {1}, ctl[j].op = "maindone"
        PROVE  \E i \in DOMAIN ctl' : ctl'[i] = ctl[j]
    BY <1>1, <1>3, <1>5, <1>9
  <1> QED
    BY <1>3, <1>8, <1>9

(* A step that goes on with ops and loses sight of no main function. *)
LEMMA KnownKept ==
  ASSUME BInv, ctl # <<>>, NEW st, Alike(st), NEW ops, ops \in Seq(Of(ops)),
         ctl' = ops \o Tail(st),
         \A i \in DOMAIN ops : Allowed(ops[i]),
         \A i, j \in DOMAIN ops : i < j /\ Direct(ops[i]) => ~ Buries(ops[j]),
         \A s \in begun' \cap scripts' :
           \/ s \in mains' \cup dying'
           \/ \E i \in DOMAIN ops : ops[i].op = "maindone" /\ ops[i].s = s
           \/ /\ s \in (begun \cap scripts) \ (mains \cup dying)
              /\ ~ (Top.op = "maindone" /\ Top.s = s)
  PROVE  Known' /\ Calm'
  <1>1. /\ Calm'
        /\ \A i \in DOMAIN ops : i \in DOMAIN ctl' /\ ctl'[i] = ops[i]
        /\ \A j \in DOMAIN ctl \ {1} : ctl[j].op = "maindone" =>
             \E i \in DOMAIN ctl' : ctl'[i] = ctl[j]
    BY CalmKept DEF BInv
  <1>2. Top = ctl[1]
    BY DEF BInv, IInv, Top
  <1>3. ASSUME NEW s \in begun' \cap scripts', s \notin mains' \cup dying'
        PROVE  \E i \in DOMAIN ctl' : ctl'[i].op = "maindone" /\ ctl'[i].s = s
    <2>1. CASE \E i \in DOMAIN ops : ops[i].op = "maindone" /\ ops[i].s = s
      BY <1>1, <2>1
    <2>2. CASE /\ s \in (begun \cap scripts) \ (mains \cup dying)
               /\ ~ (Top.op = "maindone" /\ Top.s = s)
      <3>1. PICK j \in DOMAIN ctl : ctl[j].op = "maindone" /\ ctl[j].s = s
        BY <2>2 DEF BInv, Known
      <3>2. j # 1
        BY <1>2, <2>2, <3>1
      <3> QED
        BY <1>1, <3>1, <3>2
    <2> QED
      BY <1>3, <2>1, <2>2
  <1> QED
    BY <1>1, <1>3 DEF Known

(* A step that enters no main function and ends none.                      *)
Same ==
  \A s \in begun' \cap scripts' :
    s \in begun \cap scripts /\ (s \in mains \cup dying => s \in mains' \cup dying')

LEMMA Passing ==
  ASSUME BInv, Same, ctl # <<>>, Top.op # "maindone"
  PROVE  /\ Continue(<<>>) => Known' /\ Calm'
         /\ \A a : Allowed(a) /\ Continue(<<a>>) => Known' /\ Calm'
         /\ \A a, b : Allowed(a) /\ Allowed(b) /\ (Direct(a) => ~ Buries(b))
                        /\ Continue(<<a, b>>) => Known' /\ Calm'
         /\ \A a, b, c : ~ Direct(a) /\ ~ Direct(b) /\ ~ Direct(c)
                        /\ Continue(<<a, b, c>>) => Known' /\ Calm'
  <1>0. Alike(ctl)
    BY AlikeItself DEF BInv
  <1>1. ASSUME NEW ops, ops \in Seq(Of(ops)), Continue(ops),
               \A i \in DOMAIN ops : Allowed(ops[i]),
               \A i, j \in DOMAIN ops : i < j /\ Direct(ops[i]) => ~ Buries(ops[j])
        PROVE  Known' /\ Calm'
    <2>1. ctl' = ops \o Tail(ctl)
      BY <1>1 DEF Continue
    <2> QED
      BY <1>0, <1>1, <2>1, KnownKept DEF Same
  <1>2. ASSUME Continue(<<>>) PROVE Known' /\ Calm'
    <2>1. <<>> \in Seq(Of(<<>>)) /\ DOMAIN <<>> = {}
      OBVIOUS
    <2> QED
      BY <1>1, <1>2, <2>1
  <1>3. ASSUME NEW a, Allowed(a), Continue(<<a>>) PROVE Known' /\ Calm'
    <2> DEFINE ops == <<a>>
    <2>1. DOMAIN ops = {1} /\ ops[1] = a /\ ops \in Seq({a}) /\ Continue(ops)
      BY <1>3
    <2> HIDE DEF ops
    <2>2. Of(ops) = {a}
      BY <2>1 DEF Of
    <2> QED
      BY <1>1, <1>3, <2>1, <2>2
  <1>4. ASSUME NEW a, NEW b, Allowed(a), Allowed(b), Direct(a) => ~ Buries(b), Continue(<<a, b>>)
        PROVE  Known' /\ Calm'
    <2> DEFINE ops == <<a, b>>
    <2>1. /\ DOMAIN ops = {1, 2} /\ ops[1] = a /\ ops[2] = b /\ ops \in Seq({a, b})
          /\ Continue(ops)
      BY <1>4
    <2> HIDE DEF ops
    <2>2. Of(ops) = {a, b}
      BY <2>1 DEF Of
    <2> QED
      BY <1>1, <1>4, <2>1, <2>2
  <1>5. ASSUME NEW a, NEW b, NEW c, ~ Direct(a), ~ Direct(b), ~ Direct(c), Continue(<<a, b, c>>)
        PROVE  Known' /\ Calm'
    <2> DEFINE ops == <<a, b, c>>
    <2>1. /\ DOMAIN ops = {1, 2, 3} /\ ops[1] = a /\ ops[2] = b /\ ops[3] = c
          /\ ops \in Seq({a, b, c}) /\ Continue(ops)
      BY <1>5
    <2> HIDE DEF ops
    <2>2. Of(ops) = {a, b, c}
      BY <2>1 DEF Of
    <2> QED
      BY <1>1, <1>5, <2>1, <2>2 DEF Allowed
  <1> QED
    BY <1>2, <1>3, <1>4, <1>5

LEMMA Indirect ==
  /\ \A s : /\ ~ Direct(Lua(s)) /\ ~ Direct(Handled(s)) /\ ~ Direct(MainDone(s))
            /\ ~ Direct(Exited(s)) /\ ~ Direct(Bury(s)) /\ ~ Direct(Ran(s))
  /\ \A s, how : ~ Direct(Destroy(s, how)) /\ ~ Direct(Exit(s, how))
  /\ \A s, n : ~ Direct(CmdDone(n, s))
  /\ \A todo : /\ ~ Direct(Each(todo)) /\ ~ Direct(Mains(todo)) /\ ~ Direct(RunScripts(todo))
               /\ ~ Direct(ReloadRun(todo)) /\ ~ Direct(QuitAll(todo))
  /\ \A p : ~ Direct(Load(p, FALSE)) /\ ~ Direct([op |-> "pushload", p |-> p])
  /\ \A i : ~ Direct(Queue(i))
  /\ \A ps : ~ Direct(LoadAll(ps))
  /\ ~ Direct(Fire)
  /\ \A what \in {"startmains", "live", "frame", "reloaded", "quit", "clear"} :
       ~ Direct(Then(what))
  BY DEF Direct, Lua, Handled, MainDone, Exited, Bury, Ran, Destroy, Exit, CmdDone, Each,
         Mains, RunScripts, ReloadRun, QuitAll, Load, Queue, LoadAll, Fire, Then

LEMMA IndirectAllowed == \A c : ~ Direct(c) => Allowed(c)
  BY DEF Allowed

(* Steps that leave the call stack alone. *)
LEMMA StandingKnown ==
  ASSUME BInv, Same, ctl' = ctl PROVE Known' /\ Calm'
  BY DEF BInv, Known, Calm, Same

(* Lua code of a script and handle_command(). *)
LEMMA LuaKnown ==
  ASSUME BInv,
         \/ LuaReturn \/ LuaFail \/ LuaPrint
         \/ \E p \in Paths : LuaImport(p)
         \/ \E n \in Names : Command(n) /\ ctl # <<>>
  PROVE  Known' /\ Calm'
  <1>1. Same /\ At("lua") /\ ctl # <<>> /\ Top.op = "lua" /\ IInv
    BY DEF LuaReturn, LuaFail, LuaPrint, LuaImport, Command, Same, life, registry, At, BInv
  <1>2. CASE LuaReturn \/ LuaFail
    BY <1>1, <1>2, Passing DEF LuaReturn, LuaFail
  <1>3. Top \in Frames /\ ~ Direct(Top)
    BY <1>1, TopFacts DEF Direct
  <1>4. CASE LuaPrint
    <2>1. Fire \in Frames
      BY OpsTypes
    <2>2. Continue(<<Fire, Top>>)
      BY <1>1, <1>4, <2>1, Calling DEF LuaPrint, Call, Continue
    <2> QED
      BY <1>1, <1>3, <2>2, Passing, Indirect, IndirectAllowed
  <1>5. ASSUME NEW p \in Paths, LuaImport(p) PROVE Known' /\ Calm'
    <2>1. Load(p, FALSE) \in Frames
      BY OpsTypes
    <2>2. Continue(<<Load(p, FALSE), Top>>)
      BY <1>1, <1>5, <2>1, Calling DEF LuaImport, Call, Continue
    <2> QED
      BY <1>1, <1>3, <2>2, Passing, Indirect, IndirectAllowed
  <1>6. ASSUME NEW n \in Names, Command(n) PROVE Known' /\ Calm'
    <2> DEFINE s == commands[n]
    <2>1. s \in Ids
      BY <1>1, <1>6, Typed DEF Command, IInv, TablesNameLive, CommandsOwned
    <2>2. ctl' = <<Lua(s), CmdDone(n, s)>> \o ctl
      BY <1>6 DEF Command, Call
    <2> HIDE DEF s
    <2>3. Lua(s) \in Frames /\ CmdDone(n, s) \in Frames
      BY <2>1, OpsTypes
    <2>4. Continue(<<Lua(s), CmdDone(n, s), Top>>)
      BY <1>1, <2>2, <2>3, Calling DEF Continue
    <2> QED
      BY <1>1, <1>3, <2>4, Passing, Indirect
  <1> QED
    BY <1>2, <1>4, <1>5, <1>6

(* Handlers, commands, schedulers and exits: what runs Lua code of scripts *)
(* and looks at how it ended.                                              *)
LEMMA EventKnown ==
  ASSUME BInv,
         \/ CommandDone \/ FireEvent \/ EachDone \/ HandlerDone
         \/ \E s \in Ids : CallHandler(s)
         \/ \E s \in Ids : RunScript(s)
         \/ RunScriptsDone \/ ScriptRan \/ ExitHandlers \/ ExitDone \/ DestroyScript
  PROVE  Known' /\ Calm'
  <1> USE Indirect, IndirectAllowed
  <1>1. Same
    BY DEF CommandDone, FireEvent, EachDone, HandlerDone, CallHandler, RunScript, RunScriptsDone,
           ScriptRan, ExitHandlers, ExitDone, DestroyScript, Same, life, registry
  <1>2. ctl # <<>> /\ Top.op # "maindone"
    BY DEF CommandDone, FireEvent, EachDone, HandlerDone, CallHandler, RunScript, RunScriptsDone,
           ScriptRan, ExitHandlers, ExitDone, DestroyScript, At
  <1>3. CASE CommandDone \/ HandlerDone \/ ScriptRan
    <2>1. \/ Continue(<<>>) \/ Continue(<<Fire, Destroy(Top.s, "error")>>)
          \/ Continue(<<Destroy(Top.s, "normal")>>)
      BY <1>3 DEF CommandDone, HandlerDone, ScriptRan
    <2> QED
      BY <1>1, <1>2, <2>1, Passing
  <1>4. CASE FireEvent \/ EachDone \/ RunScriptsDone
    <2>1. Continue(<<>>) \/ Continue(<<Each(scripts)>>)
      BY <1>4 DEF FireEvent, EachDone, RunScriptsDone
    <2> QED
      BY <1>1, <1>2, <2>1, Passing
  <1>5. ASSUME NEW s \in Ids, CallHandler(s) \/ RunScript(s) PROVE Known' /\ Calm'
    <2>1. \/ Continue(<<Lua(s), Handled(s), Each(Top.todo \ {s})>>)
          \/ Continue(<<Lua(s), Ran(s), RunScripts(Top.todo \ {s})>>)
      BY <1>5 DEF CallHandler, RunScript
    <2> QED
      BY <1>1, <1>2, <2>1, Passing
  <1>6. CASE ExitHandlers \/ ExitDone \/ DestroyScript
    <2>1. \/ Continue(<<>>) \/ Continue(<<Fire>>) \/ Continue(<<Lua(Top.s), Exited(Top.s)>>)
          \/ Continue(<<Fire, Exit(Top.s, Top.how), Bury(Top.s)>>)
      BY <1>6 DEF ExitHandlers, ExitDone, DestroyScript
    <2> QED
      BY <1>1, <1>2, <2>1, Passing
  <1> QED
    BY <1>3, <1>4, <1>5, <1>6

(* load(), start() and start_main(). *)
LEMMA StartKnown ==
  ASSUME BInv,
         LoadScript \/ CreateBeyondBound \/ ScriptStarted \/ RegisterScript
  PROVE  Known' /\ Calm'
  <1> USE Indirect, IndirectAllowed
  <1>1. Same
    BY DEF LoadScript, CreateBeyondBound, ScriptStarted, RegisterScript, Same, life, registry
  <1>2. ctl # <<>> /\ Top.op # "maindone"
    BY DEF LoadScript, CreateBeyondBound, ScriptStarted, RegisterScript, At
  <1>3. CASE LoadScript \/ CreateBeyondBound
    <2>1. Allowed(Create(Top.p, Top.once))
      BY <1>3 DEF LoadScript, CreateBeyondBound, At, Allowed, Direct, Create
    <2>2. Continue(<<>>) \/ Continue(<<Fire, Create(Top.p, Top.once)>>)
      BY <1>3 DEF LoadScript, CreateBeyondBound
    <2> QED
      BY <1>1, <1>2, <2>1, <2>2, Passing
  <1>4. CASE ScriptStarted
    <2>1. Allowed(Register(Top.s, Top.once))
      BY <1>4 DEF ScriptStarted, At, Allowed, Direct, Register
    <2>2. Continue(<<Fire, Bury(Top.s)>>) \/ Continue(<<Fire, Register(Top.s, Top.once)>>)
      BY <1>4 DEF ScriptStarted
    <2> QED
      BY <1>1, <1>2, <2>1, <2>2, Passing
  <1>5. CASE RegisterScript
    <2>1. Top.once => Allowed(Main(Top.s))
      BY <1>5 DEF RegisterScript, At, Allowed, Direct, Main
    <2>2. Continue(<<Fire>>) \/ (Top.once /\ Continue(<<Fire, Main(Top.s)>>))
      <3>1. <<Fire>> \o <<>> = <<Fire>> /\ <<Fire>> \o <<Main(Top.s)>> = <<Fire, Main(Top.s)>>
        BY Joined
      <3> QED
        BY <1>5, <3>1 DEF RegisterScript
    <2> QED
      BY <1>1, <1>2, <2>1, <2>2, Passing
  <1> QED
    BY <1>3, <1>4, <1>5

(* A new instance has begun nothing. *)
LEMMA CreateKnown == ASSUME BInv, CreateScript PROVE Known' /\ Calm'
  <1> DEFINE ops == <<Lua(nextScript), Started(nextScript, Top.once)>>
  <1>1. /\ IInv /\ At("create") /\ ctl # <<>> /\ Top.op = "create"
        /\ scripts' = scripts \cup {nextScript} /\ UNCHANGED life
    BY DEF CreateScript, At, BInv
  <1>2. nextScript \notin begun
    BY <1>1 DEF IInv, TypeOK
  <1>3. PICK st : Alike(st) /\ ctl' = ops \o Tail(st)
    <2>1. CASE Continue(ops)
      BY <1>1, <2>1, AlikeItself DEF Continue
    <2>2. ASSUME NEW todo \in SUBSET scripts', ctl' = ops \o Tail(Rehash(todo))
          PROVE  \E st : Alike(st) /\ ctl' = ops \o Tail(st)
      <3>1. todo \in SUBSET Ids
        BY <1>1, Typed DEF CreateScript, Ids, IInv, TypeOK
      <3> QED
        BY <1>1, <2>2, <3>1, RehashAlike
    <2> QED
      BY <2>1, <2>2 DEF CreateScript
  <1>4. /\ DOMAIN ops = {1, 2} /\ ops[1] = Lua(nextScript)
        /\ ops[2] = Started(nextScript, Top.once) /\ ops \in Seq({ops[1], ops[2]})
    OBVIOUS
  <1> HIDE DEF ops
  <1>5. ops \in Seq(Of(ops))
    <2>1. Of(ops) = {ops[1], ops[2]}
      BY <1>4 DEF Of
    <2> QED
      BY <1>4, <2>1
  <1>6. ~ Direct(ops[1]) /\ Allowed(ops[1]) /\ Allowed(ops[2])
    <2>1. Allowed(Started(nextScript, Top.once))
      BY <1>1 DEF Allowed, Direct, Started
    <2> QED
      BY <1>4, <2>1, Indirect, IndirectAllowed
  <1>7. \A i, j \in DOMAIN ops : i < j /\ Direct(ops[i]) => ~ Buries(ops[j])
    BY <1>4, <1>6
  <1>8. \A s \in begun' \cap scripts' :
          \/ s \in mains' \cup dying'
          \/ /\ s \in (begun \cap scripts) \ (mains \cup dying)
             /\ ~ (Top.op = "maindone" /\ Top.s = s)
    BY <1>1, <1>2 DEF life
  <1> QED
    BY <1>1, <1>3, <1>4, <1>5, <1>6, <1>7, <1>8, KnownKept

(* A main function is entered, and its first slice leaves. *)
LEMMA MainKnown == ASSUME BInv, StartMain \/ MainReturned PROVE Known' /\ Calm'
  <1>0. IInv /\ Alike(ctl) /\ ctl # <<>>
    BY AlikeItself DEF BInv, StartMain, MainReturned, At
  <1>1. CASE StartMain /\ Continue(<<Lua(Top.s), MainDone(Top.s)>>)
    <2> DEFINE ops == <<Lua(Top.s), MainDone(Top.s)>>
    <2>1. /\ DOMAIN ops = {1, 2} /\ ops[1] = Lua(Top.s) /\ ops[2] = MainDone(Top.s)
          /\ ops \in Seq({ops[1], ops[2]}) /\ ctl' = ops \o Tail(ctl)
      BY <1>1 DEF Continue
    <2> HIDE DEF ops
    <2>2. ops \in Seq(Of(ops))
      <3>1. Of(ops) = {ops[1], ops[2]}
        BY <2>1 DEF Of
      <3> QED
        BY <2>1, <3>1
    <2>3. \A i \in DOMAIN ops : ~ Direct(ops[i]) /\ Allowed(ops[i])
      BY <2>1, Indirect, IndirectAllowed
    <2>4. ops[2].op = "maindone" /\ ops[2].s = Top.s
      BY <2>1 DEF MainDone
    <2>5. /\ begun' \subseteq begun \cup {Top.s} /\ UNCHANGED <<scripts, mains, dying>>
          /\ Top.op # "maindone"
      BY <1>1 DEF StartMain, At, registry
    <2>6. \A s \in begun' \cap scripts' :
            \/ s \in mains' \cup dying'
            \/ \E i \in DOMAIN ops : ops[i].op = "maindone" /\ ops[i].s = s
            \/ /\ s \in (begun \cap scripts) \ (mains \cup dying)
               /\ ~ (Top.op = "maindone" /\ Top.s = s)
      BY <2>1, <2>4, <2>5
    <2> QED
      BY <1>0, <2>1, <2>2, <2>3, <2>6, KnownKept
  <1>2. CASE StartMain /\ Continue(<<>>) /\ UNCHANGED begun
    <2>1. Same /\ Top.op # "maindone"
      BY <1>2 DEF StartMain, Same, At, registry
    <2> QED
      BY <1>0, <1>2, <2>1, Passing
  <1>3. CASE MainReturned
    <2>1. /\ At("maindone") /\ UNCHANGED <<scripts, begun>>
          /\ mains \cup dying \subseteq mains' \cup dying' /\ Top.s \in mains' \cup dying'
          /\ Continue(<<>>) \/ Continue(<<Fire, Destroy(Top.s, "error")>>)
      BY <1>3 DEF MainReturned, registry
    <2>2. \A s \in begun' \cap scripts' :
            \/ s \in mains' \cup dying'
            \/ /\ s \in (begun \cap scripts) \ (mains \cup dying)
               /\ ~ (Top.op = "maindone" /\ Top.s = s)
      BY <2>1
    <2>3. ASSUME NEW ops, ops \in Seq(Of(ops)), Continue(ops),
                 \A i \in DOMAIN ops : ~ Direct(ops[i])
          PROVE  Known' /\ Calm'
      <3>1. ctl' = ops \o Tail(ctl) /\ \A i \in DOMAIN ops : Allowed(ops[i])
        BY <2>3, IndirectAllowed DEF Continue
      <3> QED
        BY <1>0, <2>2, <2>3, <3>1, KnownKept
    <2>4. CASE Continue(<<>>)
      <3>1. <<>> \in Seq(Of(<<>>)) /\ DOMAIN <<>> = {}
        OBVIOUS
      <3> QED
        BY <2>3, <2>4, <3>1
    <2>5. CASE Continue(<<Fire, Destroy(Top.s, "error")>>)
      <3> DEFINE ops == <<Fire, Destroy(Top.s, "error")>>
      <3>1. /\ DOMAIN ops = {1, 2} /\ ops[1] = Fire /\ ops[2] = Destroy(Top.s, "error")
            /\ ops \in Seq({ops[1], ops[2]}) /\ Continue(ops)
        BY <2>5
      <3> HIDE DEF ops
      <3>2. Of(ops) = {ops[1], ops[2]}
        BY <3>1 DEF Of
      <3>3. \A i \in DOMAIN ops : ~ Direct(ops[i])
        BY <3>1, Indirect
      <3> QED
        BY <2>3, <3>1, <3>2, <3>3
    <2> QED
      BY <2>1, <2>4, <2>5
  <1> QED
    BY <1>1, <1>2, <1>3 DEF StartMain

(* The queue, and what else runs after exiting all lua contexts. *)
LEMMA QueueKnown ==
  ASSUME BInv,
         RunAction \/ PushLoad \/ PerformRealUnload \/ QueueDone \/ BuryScript \/ Clear
  PROVE  Known' /\ Calm'
  <1> USE Indirect, IndirectAllowed
  <1>1. Same
    <2>1. CASE RunAction \/ PushLoad \/ QueueDone \/ BuryScript
      BY <2>1 DEF RunAction, PushLoad, QueueDone, BuryScript, Same, life, registry
    <2>2. CASE PerformRealUnload
      BY <2>2 DEF PerformRealUnload, Free, Same, life
    <2>3. CASE Clear
      BY <2>3 DEF Clear, Same
    <2> QED
      BY <2>1, <2>2, <2>3
  <1>2. ctl # <<>> /\ Top.op # "maindone"
    BY DEF RunAction, PushLoad, PerformRealUnload, QueueDone, BuryScript, Clear, At
  <1>3. CASE PushLoad \/ QueueDone \/ BuryScript \/ Clear
    <2>1. Continue(<<>>)
      BY <1>3 DEF PushLoad, QueueDone, BuryScript, Clear
    <2> QED
      BY <1>1, <1>2, <2>1, Passing
  <1>4. CASE RunAction \/ PerformRealUnload
    <2> DEFINE q == Queue(Top.i + 1)
               d == Destroy(Action.id, "normal")
               l == Load(Action.path, TRUE)
               p == [op |-> "pushload", p |-> path[Action.id]]
    <2>1. QueueStep(<<>>) \/ QueueStep(<<l>>) \/ QueueStep(<<d>>) \/ QueueStep(<<d, p>>)
      <3>1. CASE RunAction
        BY <3>1 DEF RunAction, ReloadOps
      <3>2. CASE PerformRealUnload
        BY <3>2 DEF PerformRealUnload
      <3> QED
        BY <1>4, <3>1, <3>2
    <2>2. Continue(<<q>>) \/ Continue(<<l, q>>) \/ Continue(<<d, q>>) \/ Continue(<<d, p, q>>)
      <3>1. /\ <<>> \o <<q>> = <<q>> /\ <<l>> \o <<q>> = <<l, q>> /\ <<d>> \o <<q>> = <<d, q>>
            /\ <<d, p>> \o <<q>> = <<d, p, q>>
        BY Joined
      <3> QED
        BY <2>1, <3>1 DEF QueueStep
    <2>3. ~ Direct(q) /\ ~ Direct(d) /\ ~ Direct(p) /\ Allowed(l) /\ ~ Buries(q)
      <3>1. Top.op \in Base
        BY <1>4 DEF RunAction, PerformRealUnload, At, Base
      <3> QED
        BY <3>1 DEF Allowed, Buries, Queue
    <2> HIDE DEF q, d, l, p
    <2> QED
      BY <1>1, <1>2, <2>2, <2>3, Passing
  <1> QED
    BY <1>3, <1>4

(* The loops over files and scripts, the frame and what follows init(). *)
LEMMA LoopKnown ==
  ASSUME BInv,
         \/ StartMains \/ NextMain \/ LoadNext \/ InitDone \/ ReloadStep \/ ReloadDone
         \/ QuitScripts
  PROVE  Known' /\ Calm'
  <1> USE Indirect, IndirectAllowed
  <1>1. Same
    BY DEF StartMains, NextMain, LoadNext, InitDone, ReloadStep, ReloadDone, QuitScripts, Same,
           life, registry
  <1>2. ctl # <<>> /\ Top.op # "maindone"
    BY DEF StartMains, NextMain, LoadNext, InitDone, ReloadStep, ReloadDone, QuitScripts, At
  <1>3. CASE StartMains \/ InitDone \/ ReloadDone
    <2>1. Continue(<<>>) \/ Continue(<<Mains(scripts)>>)
      BY <1>3 DEF StartMains, InitDone, ReloadDone
    <2> QED
      BY <1>1, <1>2, <2>1, Passing
  <1>4. CASE NextMain
    <2>1. ASSUME NEW s, NEW todo, Continue(<<Main(s), Mains(todo)>>) PROVE Known' /\ Calm'
      <3> DEFINE a == Main(s)
                 b == Mains(todo)
      <3>1. Allowed(a) /\ Allowed(b) /\ ~ Buries(b) /\ Continue(<<a, b>>)
        BY <1>4, <2>1 DEF NextMain, At, Allowed, Base, Buries, Mains
      <3> HIDE DEF a, b
      <3> QED
        BY <1>1, <1>2, <3>1, Passing
    <2>2. CASE Continue(<<Queue(1)>>)
      BY <1>1, <1>2, <2>2, Passing
    <2> QED
      BY <1>4, <2>1, <2>2 DEF NextMain
  <1>5. CASE LoadNext
    <2>1. \/ \E p \in Top.ps : Continue(<<Load(p, FALSE), LoadAll(Top.ps \ {p})>>)
          \/ Continue(<<Queue(1)>>)
      BY <1>5 DEF LoadNext
    <2> QED
      BY <1>1, <1>2, <2>1, Passing
  <1>6. CASE ReloadStep
    <2>1. \/ \E s, todo : \/ Continue(<<Lua(s), ReloadRun(todo)>>)
                          \/ Continue(<<Destroy(s, "normal"), ReloadRun(todo)>>)
          \/ Continue(<<>>)
      BY <1>6 DEF ReloadStep
    <2> QED
      BY <1>1, <1>2, <2>1, Passing
  <1>7. CASE QuitScripts
    <2>1. \/ Continue(<<QuitAll(scripts)>>)
          \/ \E s, todo : Continue(<<Destroy(s, "quit"), QuitAll(todo)>>)
          \/ Continue(<<>>)
      BY <1>7 DEF QuitScripts
    <2> QED
      BY <1>1, <1>2, <2>1, Passing
  <1> QED
    BY <1>3, <1>4, <1>5, <1>6, <1>7

LEMMA FrameKnown == ASSUME BInv, FrameBody PROVE Known' /\ Calm'
  <1>1. Same /\ ctl # <<>> /\ Top.op # "maindone"
    BY DEF FrameBody, Same, life, registry, At
  <1>2. CASE Continue(<<RunScripts(scripts)>>)
    BY <1>1, <1>2, Passing, Indirect, IndirectAllowed
  <1>3. ASSUME Continue(<<ReloadRun(scripts), Queue(1), LoadAll(Paths \ Libraries),
                          Then("startmains"), Then("reloaded")>>)
        PROVE  Known' /\ Calm'
    <2> DEFINE ops == <<ReloadRun(scripts), Queue(1), LoadAll(Paths \ Libraries),
                        Then("startmains"), Then("reloaded")>>
    <2>1. /\ DOMAIN ops = 1 .. 5
          /\ ops[1] = ReloadRun(scripts) /\ ops[2] = Queue(1) /\ ops[3] = LoadAll(Paths \ Libraries)
          /\ ops[4] = Then("startmains") /\ ops[5] = Then("reloaded")
          /\ ops \in Seq({ops[1], ops[2], ops[3], ops[4], ops[5]}) /\ ctl' = ops \o Tail(ctl)
      BY <1>3 DEF Continue
    <2> HIDE DEF ops
    <2>2. Of(ops) = {ops[1], ops[2], ops[3], ops[4], ops[5]}
      BY <2>1 DEF Of
    <2>3. \A i \in DOMAIN ops : ~ Direct(ops[i]) /\ Allowed(ops[i])
      BY <2>1, Indirect, IndirectAllowed
    <2>4. Alike(ctl)
      BY AlikeItself DEF BInv
    <2> QED
      BY <1>1, <2>1, <2>2, <2>3, <2>4, KnownKept DEF Same
  <1> QED
    BY <1>2, <1>3 DEF FrameBody

(* What is called from outside of the manager: nothing is in its first     *)
(* slice.                                                                  *)
LEMMA BeginningKnown ==
  ASSUME BInv, ctl = <<>>,
         InitManager \/ Frame \/ GameEvent \/ Shutdown \/ \E n \in Names : Command(n)
  PROVE  Known' /\ Calm'
  <1>1. Same
    BY DEF InitManager, Frame, GameEvent, Shutdown, Command, Same, life, registry
  <1>2. Known'
    <2>1. DOMAIN ctl = {}
      OBVIOUS
    <2> QED
      BY <1>1, <2>1 DEF BInv, Known, Same
  <1>3. \A i \in DOMAIN ctl' : ~ Direct(ctl'[i])
    <2> DEFINE L == LoadAll(Paths \ Libraries)
    <2>1. CASE InitManager
      <3>1. ctl' = <<L, Fire, Queue(1), Then("startmains"), Then("live")>>
        BY <2>1 DEF InitManager
      <3> HIDE DEF L
      <3>2. ~ Direct(L)
        BY Indirect DEF L
      <3> QED
        BY <3>1, <3>2, Indirect
    <2>2. CASE Frame
      BY <2>2, Indirect DEF Frame
    <2>3. CASE GameEvent
      BY <2>3, Indirect DEF GameEvent
    <2>4. CASE Shutdown
      BY <2>4, Indirect DEF Shutdown
    <2>5. ASSUME NEW n \in Names, Command(n) PROVE \A i \in DOMAIN ctl' : ~ Direct(ctl'[i])
      <3> DEFINE s == commands[n]
      <3>1. ctl' = <<Lua(s), CmdDone(n, s)>> \o <<>>
        BY <2>5 DEF Command, Call
      <3> HIDE DEF s
      <3>2. <<Lua(s), CmdDone(n, s)>> \o <<>> = <<Lua(s), CmdDone(n, s)>>
        OBVIOUS
      <3> QED
        BY <3>1, <3>2, Indirect
    <2> QED
      BY <2>1, <2>2, <2>3, <2>4, <2>5
  <1>4. Calm'
    BY <1>3 DEF Calm, Direct, Buries
  <1> QED
    BY <1>2, <1>4

LEMMA KnownStays == BInv /\ [Next]_vars => Known' /\ Calm'
  <1> SUFFICES ASSUME BInv, [Next]_vars PROVE Known' /\ Calm'
    OBVIOUS
  <1>1. CASE \/ LuaReturn \/ LuaFail \/ LuaPrint
             \/ \E p \in Paths : LuaImport(p)
             \/ \E n \in Names : Command(n)
    BY <1>1, LuaKnown, BeginningKnown
  <1>2. CASE \/ CommandDone \/ FireEvent \/ EachDone \/ HandlerDone
             \/ \E s \in Ids : CallHandler(s)
             \/ \E s \in Ids : RunScript(s)
             \/ RunScriptsDone \/ ScriptRan \/ ExitHandlers \/ ExitDone \/ DestroyScript
    BY <1>2, EventKnown
  <1>3. CASE LoadScript \/ CreateBeyondBound \/ ScriptStarted \/ RegisterScript \/ CreateScript
    BY <1>3, StartKnown, CreateKnown
  <1>4. CASE StartMain \/ MainReturned
    BY <1>4, MainKnown
  <1>5. CASE RunAction \/ PushLoad \/ PerformRealUnload \/ QueueDone \/ BuryScript \/ Clear
    BY <1>5, QueueKnown
  <1>6. CASE \/ StartMains \/ NextMain \/ LoadNext \/ InitDone \/ ReloadStep \/ ReloadDone
             \/ QuitScripts \/ FrameBody
    BY <1>6, LoopKnown, FrameKnown
  <1>7. CASE InitManager \/ Frame \/ GameEvent \/ Shutdown
    BY <1>7, BeginningKnown DEF InitManager, Frame, GameEvent, Shutdown
  <1>8. CASE \/ \E a \in Requests : LuaRequest(a)
             \/ LuaReloadScripts \/ GameRestart \/ Off \/ UNCHANGED vars
             \/ \E n \in Names : LuaRegister(n) \/ LuaUnregister(n)
    <2>1. Same /\ ctl' = ctl
      BY <1>8 DEF LuaRequest, LuaReloadScripts, GameRestart, Off, LuaRegister, LuaUnregister, vars,
                  Same, life, registry
    <2> QED
      BY <2>1, StandingKnown
  <1> QED
    BY <1>1, <1>2, <1>3, <1>4, <1>5, <1>6, <1>7, <1>8 DEF Next

(* A main function is entered again only after it failed, when its         *)
(* instance is dead: known ones are not, the first slice of one that is    *)
(* not known is on the stack only once, and below start_main() nothing is  *)
(* being destroyed, so that a dying instance is dead.                      *)
LEMMA EnteredOnce ==
  ASSUME BInv, StartMain, NEW s \in begun, MainEntered(s) PROVE s \in dead \ mains
  <1>1. /\ At("main") /\ IInv /\ ctl \in Seq(Frames) /\ ctl # <<>> /\ Top.op = "main"
        /\ 1 \in DOMAIN ctl /\ Top = ctl[1] /\ Top.s \in scripts
    BY TopFacts DEF MainEntered, BInv, IInv, ScriptOps
  <1>2. s = Top.s /\ s \notin mains
    <2>1. Tail(ctl) \in Seq(Frames)
      BY <1>1
    <2> DEFINE t == <<Lua(s), MainDone(s)>> \o Tail(ctl)
    <2>2. Len(t) = Len(Tail(ctl)) + 2 /\ t[1] = Lua(s)
      BY <2>1
    <2>3. ctl' = t
      BY DEF MainEntered
    <2>4. ~ Continue(<<>>)
      <3>1. <<>> \o Tail(ctl) = Tail(ctl)
        BY <2>1
      <3> QED
        BY <2>1, <2>2, <2>3, <3>1 DEF Continue
    <2>5. Top.s \notin mains /\ Continue(<<Lua(Top.s), MainDone(Top.s)>>)
      BY <2>4 DEF StartMain
    <2>6. t[1] = Lua(Top.s)
      <3> DEFINE u == <<Lua(Top.s), MainDone(Top.s)>> \o Tail(ctl)
      <3>1. u[1] = Lua(Top.s)
        BY <2>1
      <3>2. t = u
        BY <2>3, <2>5 DEF Continue
      <3> QED
        BY <3>1, <3>2
    <2> QED
      BY <2>2, <2>5, <2>6 DEF Lua
  <1>3. s \in dying
    <2>1. CASE \E i \in DOMAIN ctl : ctl[i].op = "maindone" /\ ctl[i].s = s
      <3>1. PICK i \in DOMAIN ctl : ctl[i].op = "maindone" /\ ctl[i].s = s
        BY <2>1
      <3>2. i = 1
        BY <1>1, <1>2, <3>1 DEF IInv, Sound, OnceEach, MainOps
      <3> QED
        BY <1>1, <3>1, <3>2
    <2> QED
      BY <1>1, <1>2, <2>1 DEF BInv, Known
  <1>4. s \in dead
    <2> SUFFICES ASSUME s \notin dead PROVE FALSE
      OBVIOUS
    <2>1. PICK i \in DOMAIN ctl : Buries(ctl[i])
      BY <1>1, <1>3 DEF IInv, FailedIsUnloaded, DyingIsDestroyed, Buries
    <2>2. i # 1 /\ ~ Buries(ctl[1]) /\ Direct(ctl[1])
      BY <1>1, <2>1 DEF Buries, Direct
    <2>3. 1 < i
      BY <1>1, <2>2
    <2> QED
      BY <1>1, <2>1, <2>2, <2>3 DEF BInv, Calm
  <1> QED
    BY <1>2, <1>4

(* Nothing but start_main() enters a main function. *)
LEMMA OnlyStartMain ==
  ASSUME IInv, [Next]_vars, NEW s, MainEntered(s) PROVE StartMain
  <1>1. At("main") /\ ctl # <<>> /\ Top.op = "main" /\ ctl \in Seq(Frames)
    BY TopFacts DEF MainEntered, IInv, At
  <1>2. ctl' # ctl
    <2> DEFINE tail == Tail(ctl)
               entered == <<Lua(s), MainDone(s)>> \o tail
    <2>1. tail \in Seq(Frames) /\ Len(ctl) = Len(tail) + 1
      BY <1>1
    <2>2. ctl' = entered
      BY DEF MainEntered
    <2> HIDE DEF tail
    <2>3. Len(entered) = Len(tail) + 2
      BY <2>1
    <2> QED
      BY <2>1, <2>2, <2>3
  <1>3. ~ At("lua") /\ \A op : At(op) => op = "main"
    BY <1>1 DEF At
  <1>4. ~ UNCHANGED vars
    BY <1>2 DEF vars
  <1>5. ~ ( \/ LuaReturn \/ LuaFail \/ LuaPrint \/ LuaReloadScripts
            \/ \E p \in Paths : LuaImport(p)
            \/ \E a \in Requests : LuaRequest(a)
            \/ \E n \in Names : LuaRegister(n) \/ LuaUnregister(n) \/ Command(n) )
    BY <1>1, <1>3 DEF LuaReturn, LuaFail, LuaPrint, LuaReloadScripts, LuaImport, LuaRequest,
                      LuaRegister, LuaUnregister, Command
  <1>6. ~ ( \/ CommandDone \/ FireEvent \/ EachDone \/ HandlerDone \/ RunScriptsDone
            \/ ScriptRan \/ ExitHandlers \/ ExitDone \/ DestroyScript
            \/ \E id \in Ids : CallHandler(id) \/ RunScript(id) )
    BY <1>3 DEF CommandDone, FireEvent, EachDone, HandlerDone, CallHandler, RunScript,
                RunScriptsDone, ScriptRan, ExitHandlers, ExitDone, DestroyScript
  <1>7. ~ ( \/ LoadScript \/ CreateScript \/ CreateBeyondBound \/ ScriptStarted
            \/ RegisterScript \/ MainReturned \/ StartMains \/ NextMain )
    BY <1>3 DEF LoadScript, CreateScript, CreateBeyondBound, ScriptStarted, RegisterScript,
                MainReturned, StartMains, NextMain
  <1>8. ~ ( \/ RunAction \/ PushLoad \/ PerformRealUnload \/ QueueDone \/ BuryScript
            \/ Clear \/ LoadNext \/ InitDone \/ FrameBody \/ ReloadStep \/ ReloadDone
            \/ QuitScripts )
    BY <1>3 DEF RunAction, PushLoad, PerformRealUnload, QueueDone, BuryScript, Clear, LoadNext,
                InitDone, FrameBody, ReloadStep, ReloadDone, QuitScripts
  <1>9. ~ (InitManager \/ Frame \/ GameEvent \/ GameRestart \/ Shutdown \/ Off)
    BY <1>1, <1>4 DEF InitManager, Frame, GameEvent, GameRestart, Shutdown, Off
  <1> QED
    BY <1>4, <1>5, <1>6, <1>7, <1>8, <1>9 DEF Next

(* start_main() enters the main function of an instance that lives at most *)
(* once, whatever failed, was unloaded or was started by the handlers that *)
(* ran meanwhile: only a main function that failed, so that no id of it    *)
(* was kept, can be entered again, and its instance is dead by then.       *)
THEOREM MainAlwaysStartsOnce == Spec => MainStartsOnce
  <1>1. Init => BInv
    <2> SUFFICES ASSUME Init PROVE BInv
      OBVIOUS
    <2>1. IInv
      BY Initially
    <2>2. ctl = <<>> /\ DOMAIN ctl = {} /\ begun = {}
      BY DEF Init
    <2> QED
      BY <2>1, <2>2 DEF BInv, Known, Calm
  <1>2. BInv /\ [Next]_vars => BInv'
    <2> SUFFICES ASSUME BInv, [Next]_vars PROVE BInv'
      OBVIOUS
    <2>1. IInv'
      BY Stays DEF BInv
    <2> QED
      BY <2>1, KnownStays DEF BInv
  <1>3. BInv /\ [Next]_vars => [\A s \in begun : MainEntered(s) => s \in dead \ mains]_vars
    <2> SUFFICES ASSUME BInv, [Next]_vars, NEW s \in begun, MainEntered(s)
                 PROVE  s \in dead \ mains
      OBVIOUS
    <2>1. StartMain
      BY OnlyStartMain DEF BInv
    <2> QED
      BY <2>1, EnteredOnce
  <1> HIDE DEF BInv
  <1> QED
    BY <1>1, <1>2, <1>3, PTL DEF Spec, MainStartsOnce

=============================================================================
