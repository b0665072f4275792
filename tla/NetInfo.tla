------------------------------ MODULE NetInfo ------------------------------
(***************************************************************************)
(* game::netinfo (cpp/game/netinfo.h, netinfo.cpp): what the loader knows  *)
(* of the players, vehicles and objects of the server, and which entity of *)
(* the game is which of them.                                              *)
(*                                                                         *)
(* The loader never sees an entity being created for an id.  It reads the  *)
(* message that announces one, remembers it in _current_entity_*, and      *)
(* takes the next entity of that kind that the game adds to the world for  *)
(* it ("If entity is added after player or vehicle RPC add, it is them",   *)
(* main.cpp:47).  A player's ped is added, removed and added again before  *)
(* it is taken.                                                            *)
(*                                                                         *)
(* The server and the game are the environment: the server announces the   *)
(* players that join and quit and what comes into view, the game acts on a *)
(* message before it asks for the next one, and has entities of its own.   *)
(***************************************************************************)
EXTENDS Integers, Sequences, FiniteSets, FiniteSetsExt

CONSTANTS
  Players,                \* ids the server gives to players
  Things,                 \* ids the server gives to vehicles and objects
  Peds, Vehicles, Objects,\* addresses of the entities in the game's pools
  QuitRpc,                \* the number of RPC_ScrServerQuit
  Nil                     \* the null pointer

Entities == Peds \cup Vehicles \cup Objects
Ids      == Players \cup Things \cup {QuitRpc}
Kinds    == {"ped", "vehicle", "object"}
NoId     == 65535         \* static_cast<std::uint16_t>(-1)

ASSUME NetInfoAssumption ==
  /\ Players \subseteq 0 .. NoId - 1 /\ 0 \in Players
  /\ Things \subseteq 0 .. NoId - 1
  /\ QuitRpc \in 0 .. 255
  /\ IsFiniteSet(Players)
  /\ Nil \notin Entities
  /\ Peds \cap Vehicles = {} /\ Peds \cap Objects = {} /\ Vehicles \cap Objects = {}

KindOf(e) == IF e \in Peds THEN "ped" ELSE IF e \in Vehicles THEN "vehicle" ELSE "object"

VARIABLES
  local,      (* local_player_id                                           *)
  players,    (* the keys of remote_players                                *)
  ghosts,     (* those whose record operator[] made: its member id is 0    *)
  streamed,   (* those with streamed_in                                    *)
  online,     (* online                                                    *)
  maxId,      (* max_id                                                    *)
  found,      (* _id_to_ped, _id_to_car, _id_to_object                     *)
  idOf,       (* _ped_to_id, _car_to_id, _object_to_id                     *)
  expect,     (* _current_entity_type, _id, _expected_remove, _ped_step    *)
  (* The server and the game:                                              *)
  session,    (* the client is connected to a server                       *)
  connected,  (* players the server has announced                          *)
  shown,      (* per kind and id the entity that the game made for it      *)
  world,      (* entities in the world                                     *)
  job,        (* what the game has still to do for the last message        *)
  idle        (* the game has asked for a message and there was none       *)

roster == <<local, players, ghosts, online, maxId>>
maps   == <<streamed, found, idOf>>
game   == <<shown, world, job>>
vars   == <<roster, maps, expect, session, connected, game, idle>>

NoneMapped == [k \in Kinds |-> [i \in Ids |-> Nil]]

Init ==
  /\ local = 0 /\ players = {} /\ ghosts = {}
  /\ online = 1 /\ maxId = 0
  /\ streamed = {} /\ found = NoneMapped /\ idOf = [e \in Entities |-> NoId]
  /\ expect = [kind |-> "none", id |-> 0, removing |-> FALSE, step |-> 0]
  /\ session = FALSE /\ connected = {}
  /\ shown = NoneMapped /\ world = {} /\ job = <<>>
  /\ idle = TRUE

----------------------------------------------------------------------------
(* player_stream_in, car_stream_in, object_stream_in *)
StreamIn(k, id, e) ==
  /\ found' = [found EXCEPT ![k][id] = e]
  /\ idOf' = [idOf EXCEPT ![e] = id]
  /\ \/ /\ k = "ped"
        /\ streamed' = streamed \cup {id}
        /\ players' = players \cup {id}
        /\ ghosts' = IF id \in players THEN ghosts ELSE ghosts \cup {id}
     \/ k # "ped" /\ UNCHANGED <<streamed, players, ghosts>>

(* The two maps in player_stream_out, car_stream_out, object_stream_out:   *)
(* the entry of the entity, then that of the id.                           *)
Unmap(k, id) ==
  /\ idOf' = [e \in Entities |-> IF e = found[k][id] THEN NoId ELSE idOf[e]]
  /\ found' = [found EXCEPT ![k][id] = Nil]

StreamOut(k, id) ==
  /\ Unmap(k, id)
  /\ \/ /\ k = "ped"
        /\ streamed' = streamed \ {id}
        /\ players' = players \cup {id}
        /\ ghosts' = IF id \in players THEN ghosts ELSE ghosts \cup {id}
     \/ k # "ped" /\ UNCHANGED <<streamed, players, ghosts>>

Nothing == expect' = [expect EXCEPT !.kind = "none"]    \* reset_add_remove()
NextStep == expect' = [expect EXCEPT !.step = @ + 1]

(* add(), called after CWorld::Add *)
Add(e) ==
  LET mine == expect.kind = KindOf(e) /\ ~expect.removing
      ped  == expect.kind = "ped"
  IN /\ \/ ~mine /\ UNCHANGED <<expect, maps, players, ghosts>>
        \/ mine /\ ped /\ expect.step = 1 /\ Nothing /\ UNCHANGED <<maps, players, ghosts>>
        \/ mine /\ ped /\ expect.step = 0 /\ NextStep /\ UNCHANGED <<maps, players, ghosts>>
        \/ mine /\ (ped => expect.step = 2) /\ StreamIn(expect.kind, expect.id, e) /\ Nothing
     /\ UNCHANGED <<local, online, maxId>>

(* remove(), called before CWorld::Remove *)
Remove(e) ==
  LET mine == expect.kind = KindOf(e)
      made == mine /\ ~expect.removing
  IN /\ \/ mine /\ expect.removing /\ StreamOut(expect.kind, expect.id) /\ Nothing
        \/ /\ made /\ expect.kind = "ped"
           /\ IF expect.step = 1 THEN NextStep ELSE Nothing
           /\ UNCHANGED <<maps, players, ghosts>>
        \/ /\ ~mine \/ (made /\ expect.kind # "ped")
           /\ UNCHANGED <<expect, maps, players, ghosts>>
     /\ UNCHANGED <<local, online, maxId>>

----------------------------------------------------------------------------
(* The game acts on a message: what it does to the world reaches add() and *)
(* remove() before the next message is read.                               *)
Adding(e)   == [op |-> "add", e |-> e]
Removing(e) == [op |-> "remove", e |-> e]

GameStep ==
  /\ job # <<>>
  /\ job' = Tail(job)
  /\ LET step == Head(job) IN
       \/ step.op = "add" /\ Add(step.e) /\ world' = world \cup {step.e}
       \/ step.op = "remove" /\ Remove(step.e) /\ world' = world \ {step.e}
  /\ UNCHANGED <<session, connected, shown, idle>>

(* Entities of the game's own, between two rounds of messages. *)
Ambient(e) ==
  /\ job = <<>> /\ idle
  /\ \A k \in Kinds, i \in Ids : shown[k][i] # e
  /\ \/ e \notin world /\ Add(e) /\ world' = world \cup {e}
     \/ e \in world /\ Remove(e) /\ world' = world \ {e}
  /\ UNCHANGED <<session, connected, shown, job, idle>>

ReceiveKeepsExpecting ==       \* mutant: reset_add_remove() is not called
  /\ job = <<>> /\ ~idle
  /\ idle' = TRUE
  /\ UNCHANGED <<roster, maps, expect, session, connected, game>>

(* The hook of ReceiveIgnoreRPC when there is no message left. *)
ReceiveNothing ==
  /\ job = <<>> /\ ~idle
  /\ idle' = TRUE
  /\ Nothing
  /\ UNCHANGED <<roster, maps, session, connected, game>>

(* A message is read: the last one has been dealt with. *)
Message == session /\ job = <<>> /\ idle' = FALSE

----------------------------------------------------------------------------
ResetKeepsOnline ==            \* mutant: online = 1 is forgotten
  /\ maxId' = local'
  /\ players' = {} /\ ghosts' = {} /\ streamed' = {}
  /\ found' = NoneMapped /\ idOf' = [e \in Entities |-> NoId]
  /\ UNCHANGED online

(* reset() *)
Reset ==
  /\ maxId' = local'
  /\ online' = 1
  /\ players' = {} /\ ghosts' = {} /\ streamed' = {}
  /\ found' = NoneMapped /\ idOf' = [e \in Entities |-> NoId]

(* The game forgets the players and what it made for the server. *)
Forget ==
  /\ connected' = {}
  /\ shown' = NoneMapped
  /\ world' = world \ {shown[k][i] : k \in Kinds, i \in Ids}

ConnectionAccepted(id) ==
  /\ ~session /\ job = <<>>
  /\ session' = TRUE /\ idle' = FALSE
  /\ Nothing
  /\ local' = id
  /\ Reset
  /\ Forget
  /\ UNCHANGED job

ConnectionLost ==
  /\ Message
  /\ session' = FALSE
  /\ Nothing
  /\ UNCHANGED local
  /\ Reset
  /\ Forget
  /\ UNCHANGED job

GameModeRestart ==
  /\ Message
  /\ Nothing
  /\ UNCHANGED local
  /\ Reset
  /\ Forget
  /\ UNCHANGED <<session, job>>

(* Any other message: sync data, scores, text labels ... *)
OtherMessage ==
  /\ Message
  /\ Nothing
  /\ UNCHANGED <<roster, maps, session, connected, game>>

ServerJoin(p) ==
  /\ Message
  /\ p \notin connected /\ p # local
  /\ connected' = connected \cup {p}
  /\ Nothing
  /\ players' = players \cup {p}
  /\ ghosts' = ghosts \ {p}
  /\ streamed' = streamed \ {p}
  /\ online' = (online + 1) % 65536
  /\ maxId' = IF p > maxId THEN p ELSE maxId
  /\ UNCHANGED <<local, found, idOf, session, game>>

(* The largest member id of the records, and the local player's. *)
Recount(known, unnumbered) ==
  Max({local} \cup (known \ unnumbered) \cup (IF unnumbered = {} THEN {} ELSE {0}))

QuitErasesRpc(p) ==            \* mutant: the record is erased under the same wrong id
  /\ players' = players \ {QuitRpc}
  /\ ghosts' = ghosts \ {QuitRpc}
  /\ streamed' = streamed \ {QuitRpc}

(* player_stream_out(id) is given the number of the message, not the id    *)
(* of the player; the record that is erased is the player's.               *)
Forgotten(p) ==
  /\ players' = (players \cup {QuitRpc}) \ {p}
  /\ ghosts' = (IF QuitRpc \in players THEN ghosts ELSE ghosts \cup {QuitRpc}) \ {p}
  /\ streamed' = streamed \ {QuitRpc, p}

ServerQuit(p) ==
  /\ Message
  /\ p \in connected
  /\ Nothing
  /\ online' = (online - 1) % 65536
  /\ Unmap("ped", QuitRpc)
  /\ Forgotten(p)
  /\ maxId' = IF p = maxId THEN Recount(players', ghosts') ELSE maxId
  /\ connected' = connected \ {p}
  /\ shown' = [shown EXCEPT !["ped"][p] = Nil]
  /\ job' = IF shown["ped"][p] = Nil THEN <<>> ELSE <<Removing(shown["ped"][p])>>
  /\ UNCHANGED <<local, session, world>>

----------------------------------------------------------------------------
(* What comes into view and goes out of it.  The game makes the entity, or *)
(* has no room for it; it removes the one it has.                          *)
Work(e) ==
  IF e \in Peds THEN <<Adding(e), Removing(e), Adding(e)>> ELSE <<Adding(e)>>

Make(k, id) ==
  \/ \E e \in Entities \ world :
       /\ KindOf(e) = k
       /\ job' = Work(e)
       /\ shown' = [shown EXCEPT ![k][id] = e]
  \/ UNCHANGED <<job, shown>>

Drop(k, id) ==
  /\ job' = IF shown[k][id] = Nil THEN <<>> ELSE <<Removing(shown[k][id])>>
  /\ shown' = [shown EXCEPT ![k][id] = Nil]

AnnounceRemoving(p) ==         \* mutant: _current_expected_remove is not cleared
  expect' = [expect EXCEPT !.kind = "ped", !.id = p, !.step = 0]
Announce(p) ==
  expect' = [kind |-> "ped", id |-> p, removing |-> FALSE, step |-> 0]

WorldPlayerAdd(p) ==
  /\ Message
  /\ p \in connected /\ shown["ped"][p] = Nil
  /\ IF p \in players THEN Announce(p) ELSE Nothing
  /\ Make("ped", p)
  /\ UNCHANGED <<roster, maps, session, connected, world>>

WorldPlayerRemove(p) ==
  /\ Message
  /\ p \in connected
  /\ IF p \in players
     THEN expect' = [expect EXCEPT !.kind = "ped", !.id = p, !.removing = TRUE]
     ELSE Nothing
  /\ Drop("ped", p)
  /\ UNCHANGED <<roster, maps, session, connected, world>>

(* RPC_ScrWorldVehicleAdd, RPC_ScrCreateObject and their opposites *)
WorldThingAdd(k, id) ==
  /\ Message
  /\ shown[k][id] = Nil
  /\ expect' = [expect EXCEPT !.kind = k, !.id = id, !.removing = FALSE]
  /\ Make(k, id)
  /\ UNCHANGED <<roster, maps, session, connected, world>>

WorldThingRemove(k, id) ==
  /\ Message
  /\ expect' = [expect EXCEPT !.kind = k, !.id = id, !.removing = TRUE]
  /\ Drop(k, id)
  /\ UNCHANGED <<roster, maps, session, connected, world>>

Next ==
  \/ GameStep
  \/ \E e \in Entities : Ambient(e)
  \/ ReceiveNothing
  \/ \E id \in Players : ConnectionAccepted(id)
  \/ ConnectionLost
  \/ GameModeRestart
  \/ OtherMessage
  \/ \E p \in Players :
       ServerJoin(p) \/ ServerQuit(p) \/ WorldPlayerAdd(p) \/ WorldPlayerRemove(p)
  \/ \E k \in Kinds \ {"ped"}, id \in Things :
       WorldThingAdd(k, id) \/ WorldThingRemove(k, id)

Spec == Init /\ [][Next]_vars

----------------------------------------------------------------------------
(* Every variable keeps the shape of the member it stands for; online      *)
(* counts the local player and never more than the server has ids.         *)
TypeOK ==
  /\ local \in Players
  /\ players \subseteq Players \cup {QuitRpc}
  /\ ghosts \subseteq players /\ streamed \subseteq players
  /\ online \in 1 .. Cardinality(Players)
  /\ maxId \in Players
  /\ found \in [Kinds -> [Ids -> Entities \cup {Nil}]]
  /\ idOf \in [Entities -> Ids \cup {NoId}]
  /\ expect.kind \in Kinds \cup {"none"} /\ expect.id \in Ids \cup {0}
  /\ expect.removing \in BOOLEAN /\ expect.step \in 0 .. 2

(* remote_players and online follow the joins and quits across lost        *)
(* connections and restarts of the game mode: a record with an id is a     *)
(* player on the server, the count is theirs and the local player's, and   *)
(* sampGetMaxPlayerId, up to which scripts loop over the players, is the   *)
(* largest id in use, whoever quit.                                        *)
RosterAgrees ==
  /\ players \ ghosts = connected
  /\ online = 1 + Cardinality(connected)
  /\ maxId = Max({local} \cup connected)

(* Once the game has acted on a message, every entity it shows for an id   *)
(* is found by the id, and the id by the entity, although entities of      *)
(* players that quit stay in the maps and their addresses are used again.  *)
ShownAreFound ==
  job = <<>> => \A k \in Kinds, i \in Ids :
    shown[k][i] # Nil => found[k][i] = shown[k][i] /\ idOf[shown[k][i]] = i

(* streamed_in is "spawned in local player" (netinfo.h:26): it is set for  *)
(* the players that have a ped in the game, and only for them.             *)
StreamedInIsSpawned ==
  job = <<>> => \A p \in players : p \in streamed <=> shown["ped"][p] # Nil
============================================================================
