--------------------------- MODULE NetInfoProofs ---------------------------
(***************************************************************************)
(* The roster of game::netinfo agrees with the server's for any set of     *)
(* players and any order of messages, and its maps with what the game      *)
(* shows, when no player has the number of the RPC of a quit.              *)
(***************************************************************************)
EXTENDS NetInfo, FiniteSetTheorems, WellFoundedInduction, TLAPS

(* The largest element of a finite set of numbers: the one with the fewest *)
(* larger ones.                                                            *)
LEMMA MaxExists ==
  ASSUME NEW S \in SUBSET Int, IsFiniteSet(S), S # {}
  PROVE  Max(S) \in S /\ \A y \in S : y <= Max(S)
  <1> DEFINE Above(x) == {y \in S : x < y}
             T == {Above(x) : x \in S}
             R == StrictSubsetOrdering(S)
  <1>1. T \subseteq SUBSET S /\ T # {}
    OBVIOUS
  <1>2. PICK m \in T : \A u \in T : ~ (<<u, m>> \in R)
    <2>1. IsWellFoundedOn(R, SUBSET S)
      <3>1. IsWellFoundedOn(R, FiniteSubsetsOf(S))
        BY FS_StrictSubsetOrderingWellFounded
      <3>2. FiniteSubsetsOf(S) = SUBSET S
        BY FS_FiniteSubsetsOfFinite
      <3> QED
        BY <3>1, <3>2
    <2> HIDE DEF R, T
    <2> QED
      BY <1>1, <2>1, WFMin
  <1>3. PICK x \in S : m = Above(x)
    BY <1>2
  <1>4. \A y \in S : y <= x
    <2> SUFFICES ASSUME NEW y \in S, x < y PROVE FALSE
      OBVIOUS
    <2>1. \A z \in S : y < z => x < z
      OBVIOUS
    <2>2. ~ (y < y)
      OBVIOUS
    <2>3. Above(y) \subseteq Above(x) /\ Above(y) # Above(x)
      BY <2>1, <2>2
    <2>4. <<Above(y), m>> \in R
      BY <1>3, <2>3 DEF StrictSubsetOrdering
    <2> QED
      BY <1>2, <2>4
  <1> QED
    BY <1>4 DEF Max

LEMMA MaxIs ==
  ASSUME NEW S \in SUBSET Int, NEW x \in S, \A y \in S : y <= x
  PROVE  Max(S) = x
  <1>1. \E z \in S : \A y \in S : z >= y
    OBVIOUS
  <1>2. Max(S) \in S /\ Max(S) >= x
    BY <1>1 DEF Max
  <1>3. Max(S) \in Int /\ x \in Int /\ Max(S) <= x
    BY <1>2
  <1> QED
    BY <1>2, <1>3

----------------------------------------------------------------------------
(* The players the server has announced are some of those it has ids for.  *)
Announced ==
  /\ local \in Players
  /\ connected \subseteq Players \ {local}
  /\ ghosts \subseteq players

IInv == Announced /\ RosterAgrees

LEMMA Numbers == Players \subseteq Int /\ \A p \in Players : 0 <= p /\ p < NoId
  <1>1. Players \subseteq 0 .. NoId - 1
    BY NetInfoAssumption
  <1>2. NoId \in Int
    BY DEF NoId
  <1>3. \A p \in Players : p \in 0 .. NoId - 1
    BY <1>1
  <1>4. \A q \in 0 .. NoId - 1 : q \in Int /\ 0 <= q /\ q < NoId
    BY <1>2
  <1> QED
    BY <1>3, <1>4

(* Fewer than NoId players besides the local one: the counter of 16 bits   *)
(* does not run over.                                                      *)
LEMMA FewPlayers ==
  ASSUME NEW l \in Players, NEW C \in SUBSET (Players \ {l})
  PROVE  IsFiniteSet(C) /\ Cardinality(C) \in Nat /\ Cardinality(C) < NoId
  <1>1. IsFiniteSet(C) /\ Cardinality(C) \in Nat
    BY NetInfoAssumption, FS_Subset, FS_CardinalityType
  <1>2. IsFiniteSet(C \cup {l}) /\ Cardinality(C \cup {l}) = Cardinality(C) + 1
    BY <1>1, FS_AddElement
  <1>3. IsFiniteSet(0 .. NoId - 1) /\ Cardinality(0 .. NoId - 1) = NoId
    <2>1. 0 \in Int /\ NoId - 1 \in Int /\ ~ (0 > NoId - 1) /\ NoId - 1 - 0 + 1 = NoId
      BY DEF NoId
    <2> QED
      BY <2>1, FS_Interval
  <1>4. Cardinality(C \cup {l}) <= NoId
    <2>1. C \cup {l} \in SUBSET (0 .. NoId - 1)
      BY NetInfoAssumption
    <2> HIDE DEF NoId
    <2> QED
      BY <1>3, <2>1, FS_Subset
  <1>5. Cardinality(C) + 1 <= NoId
    BY <1>2, <1>4
  <1> QED
    BY <1>1, <1>5 DEF NoId

(* A step that keeps the players of the server and the local one. *)
LEMMA RosterKept ==
  ASSUME IInv, UNCHANGED <<local, online, maxId, connected>>,
         players' \ ghosts' = players \ ghosts, ghosts' \subseteq players'
  PROVE  IInv'
  BY DEF IInv, Announced, RosterAgrees

LEMMA ResetStep ==
  ASSUME Reset, connected' = {}, local' \in Players
  PROVE  IInv'
  <1>1. local' \in Int
    BY Numbers
  <1>2. Max({local'}) = local'
    <2>1. {local'} \in SUBSET Int /\ local' \in {local'} /\ \A y \in {local'} : y <= local'
      BY <1>1
    <2> QED
      BY <2>1, MaxIs
  <1>3. {local'} \cup connected' = {local'}
    OBVIOUS
  <1> QED
    BY <1>2, <1>3, FS_EmptySet DEF Reset, IInv, Announced, RosterAgrees

(* A record that player_stream_in or player_stream_out makes has no        *)
(* number of its own.                                                      *)
LEMMA EntityStep ==
  ASSUME IInv, NEW e, Add(e) \/ Remove(e), UNCHANGED connected
  PROVE  IInv'
  <1>1. UNCHANGED <<local, online, maxId>>
    BY DEF Add, Remove
  <1>2. UNCHANGED <<players, ghosts>> \/ \E k, id : StreamIn(k, id, e) \/ StreamOut(k, id)
    BY DEF Add, Remove, Nothing, NextStep
  <1>3. players' \ ghosts' = players \ ghosts /\ ghosts' \subseteq players'
    <2>1. ghosts \subseteq players
      BY DEF IInv, Announced
    <2>2. CASE UNCHANGED <<players, ghosts>>
      BY <2>1, <2>2
    <2>3. ASSUME NEW k, NEW id, StreamIn(k, id, e) \/ StreamOut(k, id)
          PROVE  players' \ ghosts' = players \ ghosts /\ ghosts' \subseteq players'
      <3>1. \/ UNCHANGED <<players, ghosts>>
            \/ players' = players \cup {id}
                /\ ghosts' = IF id \in players THEN ghosts ELSE ghosts \cup {id}
        BY <2>3 DEF StreamIn, StreamOut
      <3> QED
        BY <2>1, <3>1
    <2> QED
      BY <1>2, <2>2, <2>3
  <1> QED
    BY <1>1, <1>3, RosterKept

LEMMA JoinStep ==
  ASSUME IInv, NEW p \in Players, ServerJoin(p)
  PROVE  IInv'
  <1>1. /\ p \notin connected /\ p # local /\ connected' = connected \cup {p}
        /\ players' = players \cup {p} /\ ghosts' = ghosts \ {p} /\ local' = local
        /\ online' = (online + 1) % 65536 /\ maxId' = IF p > maxId THEN p ELSE maxId
    BY DEF ServerJoin
  <1>2. Announced'
    BY <1>1 DEF IInv, Announced
  <1>3. players' \ ghosts' = connected'
    BY <1>1 DEF IInv, RosterAgrees
  <1>4. online' = 1 + Cardinality(connected')
    <2>1. IsFiniteSet(connected) /\ Cardinality(connected) \in Nat
      BY FewPlayers DEF IInv, Announced
    <2>2. Cardinality(connected') = Cardinality(connected) + 1
      BY <1>1, <2>1, FS_AddElement
    <2>3. Cardinality(connected') < NoId
      BY <1>2, FewPlayers DEF Announced
    <2>4. online = 1 + Cardinality(connected)
      BY DEF IInv, RosterAgrees
    <2> QED
      BY <1>1, <2>1, <2>2, <2>3, <2>4 DEF NoId
  <1>5. maxId' = Max({local'} \cup connected')
    <2> DEFINE A == {local} \cup connected
               B == A \cup {p}
    <2>1. A \in SUBSET Int /\ B \in SUBSET Int /\ IsFiniteSet(A) /\ A # {} /\ p \in Int
      <3>1. local \in Players /\ connected \subseteq Players
        BY DEF IInv, Announced
      <3>2. A \subseteq Players /\ B \subseteq Players
        BY <3>1
      <3>3. IsFiniteSet(connected)
        BY FewPlayers DEF IInv, Announced
      <3>4. IsFiniteSet(A)
        BY <3>3, FS_AddElement
      <3> QED
        BY <3>2, <3>4, Numbers
    <2>2. maxId \in A /\ \A y \in A : y <= maxId
      BY <2>1, MaxExists DEF IInv, RosterAgrees
    <2>3. maxId' \in B /\ \A y \in B : y <= maxId'
      BY <1>1, <2>1, <2>2
    <2>4. {local'} \cup connected' = B
      BY <1>1
    <2> HIDE DEF B
    <2> QED
      BY <2>1, <2>3, <2>4, MaxIs
  <1> QED
    BY <1>2, <1>3, <1>4, <1>5 DEF IInv, RosterAgrees

LEMMA QuitStep ==
  ASSUME IInv, NEW p \in Players, ServerQuit(p)
  PROVE  IInv'
  <1>1. /\ p \in connected /\ connected' = connected \ {p} /\ local' = local
        /\ players' = (players \cup {QuitRpc}) \ {p}
        /\ ghosts' = (IF QuitRpc \in players THEN ghosts ELSE ghosts \cup {QuitRpc}) \ {p}
        /\ online' = (online - 1) % 65536
        /\ maxId' = IF p = maxId THEN Recount(players', ghosts') ELSE maxId
    BY DEF ServerQuit, Forgotten
  <1>2. Announced'
    BY <1>1 DEF IInv, Announced
  <1>3. players' \ ghosts' = connected'
    BY <1>1 DEF IInv, Announced, RosterAgrees
  <1>4. online' = 1 + Cardinality(connected')
    <2>1. IsFiniteSet(connected) /\ Cardinality(connected) \in Nat /\ Cardinality(connected) < NoId
      BY FewPlayers DEF IInv, Announced
    <2>2. Cardinality(connected') = Cardinality(connected) - 1
      BY <1>1, <2>1, FS_RemoveElement
    <2>3. online = 1 + Cardinality(connected)
      BY DEF IInv, RosterAgrees
    <2> QED
      BY <1>1, <2>1, <2>2, <2>3 DEF NoId
  <1>5. maxId' = Max({local'} \cup connected')
    <2> DEFINE A == {local} \cup connected
               B == {local} \cup connected'
               C == B \cup (IF ghosts' = {} THEN {} ELSE {0})
    <2>1. /\ A \in SUBSET Int /\ B \in SUBSET Int /\ B # {} /\ B \subseteq A
          /\ local \in Int /\ 0 <= local /\ local \in B
      <3>1. local \in Players /\ connected \subseteq Players
        BY DEF IInv, Announced
      <3>2. B \subseteq A /\ A \subseteq Players
        BY <1>1, <3>1
      <3> QED
        BY <3>1, <3>2, Numbers
    <2>2. IsFiniteSet(A) /\ IsFiniteSet(B)
      <3>1. IsFiniteSet(connected) /\ IsFiniteSet(connected')
        BY <1>1, FewPlayers, FS_RemoveElement DEF IInv, Announced
      <3> QED
        BY <3>1, FS_AddElement
    <2>3. {local'} \cup connected' = B
      BY <1>1
    <2>4. CASE p # maxId
      <3>1. maxId \in A /\ \A y \in A : y <= maxId
        BY <2>1, <2>2, MaxExists DEF IInv, RosterAgrees
      <3>2. maxId \in B /\ \A y \in B : y <= maxId
        BY <1>1, <2>1, <2>4, <3>1
      <3> HIDE DEF B
      <3>3. maxId = Max(B)
        BY <2>1, <3>2, MaxIs
      <3>4. maxId' = maxId
        BY <1>1, <2>4
      <3> QED
        BY <2>3, <3>3, <3>4
    <2>5. CASE p = maxId
      <3>1. Recount(players', ghosts') = Max(C)
        <4>1. {local} \cup (players' \ ghosts') \cup (IF ghosts' = {} THEN {} ELSE {0}) = C
          BY <1>3
        <4>2. Recount(players', ghosts')
                = Max({local} \cup (players' \ ghosts') \cup (IF ghosts' = {} THEN {} ELSE {0}))
          BY <1>1 DEF Recount
        <4> HIDE DEF C
        <4> QED
          BY <4>1, <4>2
      <3>2. Max(B) \in B /\ \A y \in B : y <= Max(B)
        <4> HIDE DEF B
        <4> QED
          BY <2>1, <2>2, MaxExists
      <3>3. 0 <= Max(B)
        BY <2>1, <3>2
      <3>4. C \in SUBSET Int /\ Max(B) \in C /\ \A y \in C : y <= Max(B)
        BY <2>1, <3>2, <3>3
      <3>5. Max(C) = Max(B)
        <4> HIDE DEF C
        <4> QED
          BY <3>4, MaxIs
      <3> QED
        BY <1>1, <2>3, <2>5, <3>1, <3>5
    <2> QED
      BY <2>4, <2>5
  <1> QED
    BY <1>2, <1>3, <1>4, <1>5 DEF IInv, RosterAgrees

----------------------------------------------------------------------------
LEMMA InvariantInit == Init => IInv
  <1> SUFFICES ASSUME Init PROVE IInv
    OBVIOUS
  <1>1. {local} \cup connected = {0} /\ Cardinality(connected) = 0
    BY FS_EmptySet DEF Init
  <1>2. Max({0}) = 0
    <2>1. {0} \in SUBSET Int /\ 0 \in {0} /\ \A y \in {0} : y <= 0
      OBVIOUS
    <2> QED
      BY <2>1, MaxIs
  <1> QED
    BY <1>1, <1>2, NetInfoAssumption DEF Init, IInv, Announced, RosterAgrees

LEMMA InvariantStep == IInv /\ [Next]_vars => IInv'
  <1> SUFFICES ASSUME IInv, [Next]_vars PROVE IInv'
    OBVIOUS
  <1>1. local \in Players
    BY DEF IInv, Announced
  <1>2. CASE GameStep
    <2>1. \E e : Add(e) \/ Remove(e)
      BY <1>2 DEF GameStep
    <2> QED
      BY <1>2, <2>1, EntityStep DEF GameStep
  <1>3. ASSUME NEW e \in Entities, Ambient(e) PROVE IInv'
    BY <1>3, EntityStep DEF Ambient
  <1>4. ASSUME NEW id \in Players, ConnectionAccepted(id) PROVE IInv'
    BY <1>4, ResetStep DEF ConnectionAccepted, Forget
  <1>5. CASE ConnectionLost \/ GameModeRestart
    BY <1>1, <1>5, ResetStep DEF ConnectionLost, GameModeRestart, Forget
  <1>6. CASE ReceiveNothing \/ OtherMessage \/ UNCHANGED vars
    <2>1. UNCHANGED <<local, players, ghosts, online, maxId, connected>>
      BY <1>6 DEF ReceiveNothing, OtherMessage, vars, roster
    <2> QED
      BY <2>1, RosterKept DEF IInv, Announced
  <1>7. ASSUME NEW p \in Players, ServerJoin(p) PROVE IInv'
    BY <1>7, JoinStep
  <1>8. ASSUME NEW p \in Players, ServerQuit(p) PROVE IInv'
    BY <1>8, QuitStep
  <1>9. ASSUME NEW p \in Players, WorldPlayerAdd(p) \/ WorldPlayerRemove(p) PROVE IInv'
    <2>1. UNCHANGED <<local, players, ghosts, online, maxId, connected>>
      BY <1>9 DEF WorldPlayerAdd, WorldPlayerRemove, roster
    <2> QED
      BY <2>1, RosterKept DEF IInv, Announced
  <1>10. ASSUME NEW k, NEW id, WorldThingAdd(k, id) \/ WorldThingRemove(k, id) PROVE IInv'
    <2>1. UNCHANGED <<local, players, ghosts, online, maxId, connected>>
      BY <1>10 DEF WorldThingAdd, WorldThingRemove, roster
    <2> QED
      BY <2>1, RosterKept DEF IInv, Announced
  <1> QED
    BY <1>2, <1>3, <1>4, <1>5, <1>6, <1>7, <1>8, <1>9, <1>10 DEF Next

(* Whatever ids the server uses and whoever joins, quits, loses the        *)
(* connection or sees the game mode restart: the records with a number are *)
(* the players on the server, online counts them and the local player, and *)
(* max_id, up to which scripts loop, is the largest id in use.             *)
THEOREM RosterAgreesAlways == Spec => []RosterAgrees
  <1>1. IInv => RosterAgrees
    BY DEF IInv
  <1> QED
    BY InvariantInit, InvariantStep, <1>1, PTL DEF Spec
----------------------------------------------------------------------------
(* The members of netinfo and the entities the game works on, for any ids  *)
Members ==
  /\ players \subseteq Players \cup {QuitRpc}
  /\ streamed \subseteq players
  /\ found \in [Kinds -> [Ids -> Entities \cup {Nil}]]
  /\ idOf \in [Entities -> Ids \cup {NoId}]

(* What is expected is of the kind its id is for, and nothing is expected  *)
(* when the game has asked for a message in vain.                          *)
Expects ==
  /\ expect \in [kind : Kinds \cup {"none"}, id : Ids \cup {0}, removing : BOOLEAN, step : 0 .. 2]
  /\ expect.kind = "ped" => expect.id \in Players
  /\ expect.kind \in {"vehicle", "object"} => expect.id \in Things
  /\ idle => job = <<>> /\ expect.kind = "none"

JobSteps == [op : {"add", "remove"}, e : Entities]
GameType ==
  /\ job \in Seq(JobSteps)
  /\ shown \in [Kinds -> [Ids -> Entities \cup {Nil}]]
  /\ world \subseteq Entities

Types == IInv /\ Members /\ Expects /\ GameType

LEMMA RosterTyped ==
  ASSUME IInv
  PROVE  /\ local \in Players /\ connected \subseteq Players /\ ghosts \subseteq players
         /\ connected \subseteq players
         /\ online \in 1 .. Cardinality(Players) /\ maxId \in Players
  <1>1. local \in Players /\ connected \subseteq Players \ {local} /\ ghosts \subseteq players
    BY DEF IInv, Announced
  <1>2. connected \subseteq players
    BY DEF IInv, RosterAgrees
  <1>3. online \in 1 .. Cardinality(Players)
    <2>1. IsFiniteSet(connected) /\ Cardinality(connected) \in Nat
      BY <1>1, FewPlayers
    <2>2. Cardinality(connected \cup {local}) = Cardinality(connected) + 1
      BY <1>1, <2>1, FS_AddElement
    <2>3. connected \cup {local} \in SUBSET Players
      BY <1>1
    <2>4. Cardinality(connected \cup {local}) <= Cardinality(Players) /\ Cardinality(Players) \in Nat
      BY <2>3, NetInfoAssumption, FS_Subset, FS_CardinalityType
    <2> QED
      BY <2>1, <2>2, <2>4 DEF IInv, RosterAgrees
  <1>4. maxId \in Players
    <2> DEFINE A == {local} \cup connected
    <2>1. A \subseteq Players /\ A # {}
      BY <1>1
    <2>2. A \in SUBSET Int /\ IsFiniteSet(A)
      BY <2>1, Numbers, NetInfoAssumption, FS_Subset
    <2>3. maxId = Max(A)
      BY DEF IInv, RosterAgrees
    <2> HIDE DEF A
    <2>4. Max(A) \in A
      BY <2>1, <2>2, MaxExists
    <2> QED
      BY <2>1, <2>3, <2>4
  <1> QED
    BY <1>1, <1>2, <1>3, <1>4

LEMMA TypesGiveTypeOK == Types => TypeOK
  <1> SUFFICES ASSUME Types PROVE TypeOK
    OBVIOUS
  <1>1. /\ local \in Players /\ ghosts \subseteq players
        /\ online \in 1 .. Cardinality(Players) /\ maxId \in Players
    BY RosterTyped DEF Types
  <1> QED
    BY <1>1 DEF Types, Members, Expects, TypeOK

(* The kinds of entities. *)
LEMMA KindTypes ==
  /\ \A e : KindOf(e) \in Kinds /\ KindOf(e) # "none"
  /\ \A e \in Entities : e # Nil
  /\ \A id \in Players \cup Things : id \in Ids
  /\ "ped" \in Kinds /\ QuitRpc \in Ids /\ Players \subseteq Ids
  BY NetInfoAssumption DEF KindOf, Kinds, Ids, Entities

(* When an entity is added or removed: the maps change for what is         *)
(* expected, and nothing else does.                                        *)
LEMMA EntityTypes ==
  ASSUME Types, NEW e \in Entities, Add(e) \/ Remove(e)
  PROVE  /\ Members'
         /\ expect' \in [kind : Kinds \cup {"none"}, id : Ids \cup {0}, removing : BOOLEAN, step : 0 .. 2]
         /\ expect'.kind \in {"none", expect.kind} /\ expect'.id = expect.id
  <1> USE DEF Types
  <1>1. expect \in [kind : Kinds \cup {"none"}, id : Ids \cup {0}, removing : BOOLEAN, step : 0 .. 2]
    BY DEF Expects
  <1>2. CASE UNCHANGED <<maps, players, ghosts>>
    <2>1. \/ UNCHANGED expect \/ Nothing
          \/ NextStep /\ expect.step \in {0, 1}
      BY DEF Add, Remove
    <2>2. /\ expect' \in [kind : Kinds \cup {"none"}, id : Ids \cup {0}, removing : BOOLEAN, step : 0 .. 2]
          /\ expect'.kind \in {"none", expect.kind} /\ expect'.id = expect.id
      BY <1>1, <2>1 DEF Nothing, NextStep
    <2> QED
      BY <1>2, <2>2 DEF maps, Members
  <1>3. CASE /\ Nothing /\ expect.kind = KindOf(e)
             /\ StreamIn(expect.kind, expect.id, e) \/ StreamOut(expect.kind, expect.id)
    <2>1. expect.kind \in Kinds /\ expect.id \in Ids /\ (expect.kind = "ped" => expect.id \in Players)
      BY <1>3, KindTypes DEF Expects, Kinds
    <2>2. players' \subseteq Players \cup {QuitRpc} /\ streamed' \subseteq players'
      BY <1>3, <2>1 DEF StreamIn, StreamOut, Members
    <2>3. found' \in [Kinds -> [Ids -> Entities \cup {Nil}]] /\ idOf' \in [Entities -> Ids \cup {NoId}]
      BY <1>3, <2>1 DEF StreamIn, StreamOut, Unmap, Members
    <2>4. /\ expect' \in [kind : Kinds \cup {"none"}, id : Ids \cup {0}, removing : BOOLEAN, step : 0 .. 2]
          /\ expect'.kind \in {"none", expect.kind} /\ expect'.id = expect.id
      BY <1>1, <1>3 DEF Nothing
    <2> QED
      BY <2>2, <2>3, <2>4 DEF Members
  <1> QED
    BY <1>2, <1>3 DEF Add, Remove

(* What the messages make of the expectation and of the job.               *)
LEMMA JobTypes ==
  /\ \A e \in Entities : /\ <<Removing(e)>> \in Seq(JobSteps) /\ <<Adding(e)>> \in Seq(JobSteps)
                         /\ Work(e) \in Seq(JobSteps)
  /\ <<>> \in Seq(JobSteps)
  <1>1. ASSUME NEW e \in Entities
        PROVE  /\ <<Removing(e)>> \in Seq(JobSteps) /\ <<Adding(e)>> \in Seq(JobSteps)
               /\ Work(e) \in Seq(JobSteps)
    <2>1. Removing(e) \in JobSteps /\ Adding(e) \in JobSteps
      BY DEF Removing, Adding, JobSteps
    <2> HIDE DEF JobSteps
    <2> QED
      BY <2>1 DEF Work
  <1> QED
    BY <1>1

LEMMA MakeTypes ==
  ASSUME GameType, NEW k \in Kinds, NEW id \in Ids, Make(k, id) \/ Drop(k, id), UNCHANGED world
  PROVE  GameType'
  <1>1. job' \in Seq(JobSteps)
    <2>1. ASSUME NEW e \in Entities \ world, job' = Work(e) PROVE job' \in Seq(JobSteps)
      BY <2>1, JobTypes
    <2>2. CASE UNCHANGED job
      BY <2>2 DEF GameType
    <2>3. CASE Drop(k, id)
      <3>1. shown[k][id] \in Entities \cup {Nil}
        BY DEF GameType
      <3>2. job' = <<>> \/ \E e \in Entities : job' = <<Removing(e)>>
        BY <2>3, <3>1 DEF Drop
      <3> QED
        BY <3>2, JobTypes
    <2> QED
      BY <2>1, <2>2, <2>3 DEF Make
  <1>2. shown' \in [Kinds -> [Ids -> Entities \cup {Nil}]]
    BY DEF Make, Drop, GameType
  <1> QED
    BY <1>1, <1>2 DEF GameType

(* The game forgets what it made, and netinfo too. *)
LEMMA ResetTypes ==
  ASSUME Types, Reset, Forget, Nothing, UNCHANGED job, idle' = FALSE
  PROVE  Members' /\ Expects' /\ GameType'
  <1>1. NoneMapped \in [Kinds -> [Ids -> Entities \cup {Nil}]]
    BY DEF NoneMapped
  <1>2. Members'
    BY <1>1 DEF Reset, Members
  <1>3. Expects'
    <2>1. /\ expect' \in [kind : Kinds \cup {"none"}, id : Ids \cup {0}, removing : BOOLEAN, step : 0 .. 2]
          /\ expect'.kind = "none"
      BY DEF Types, Expects, Nothing
    <2> QED
      BY <2>1 DEF Expects
  <1>4. GameType'
    BY <1>1 DEF Types, GameType, Forget
  <1> QED
    BY <1>2, <1>3, <1>4

LEMMA TypesStep == Types /\ [Next]_vars => Types'
  <1> SUFFICES ASSUME Types, IInv', [Next]_vars PROVE Members' /\ Expects' /\ GameType'
    BY InvariantStep DEF Types
  <1> DEFINE R == [kind : Kinds \cup {"none"}, id : Ids \cup {0}, removing : BOOLEAN, step : 0 .. 2]
  <1>1. expect \in R /\ Members /\ Expects /\ GameType
    BY DEF Types, Expects
  <1>2. Nothing => expect' \in R /\ expect'.kind = "none"
    BY <1>1 DEF Nothing
  <1>3. ASSUME NEW e \in Entities, Add(e) \/ Remove(e)
        PROVE  /\ Members' /\ expect' \in R
               /\ expect'.kind \in {"none", expect.kind} /\ expect'.id = expect.id
    BY <1>3, EntityTypes
  <1>4. CASE GameStep
    <2>1. job # <<>> /\ Head(job) \in JobSteps /\ job' \in Seq(JobSteps) /\ ~ idle
      BY <1>1, <1>4 DEF GameStep, GameType, Expects
    <2>2. Head(job).e \in Entities
      BY <2>1 DEF JobSteps
    <2>3. Add(Head(job).e) \/ Remove(Head(job).e)
      BY <1>4 DEF GameStep
    <2>4. /\ Members' /\ expect' \in R
          /\ expect'.kind \in {"none", expect.kind} /\ expect'.id = expect.id
      BY <1>3, <2>2, <2>3
    <2>5. Expects'
      BY <1>1, <1>4, <2>1, <2>4 DEF Expects, GameStep
    <2>6. GameType'
      BY <1>1, <1>4, <2>1, <2>2 DEF GameType, GameStep
    <2> QED
      BY <2>4, <2>5, <2>6
  <1>5. ASSUME NEW e \in Entities, Ambient(e) PROVE Members' /\ Expects' /\ GameType'
    <2>1. Add(e) \/ Remove(e)
      BY <1>5 DEF Ambient
    <2>2. /\ Members' /\ expect' \in R
          /\ expect'.kind \in {"none", expect.kind} /\ expect'.id = expect.id
      BY <1>3, <2>1
    <2>3. Expects'
      BY <1>1, <1>5, <2>2 DEF Expects, Ambient
    <2>4. GameType'
      BY <1>1, <1>5 DEF GameType, Ambient
    <2> QED
      BY <2>2, <2>3, <2>4
  <1>6. CASE ReceiveNothing \/ OtherMessage
    BY <1>1, <1>2, <1>6 DEF ReceiveNothing, OtherMessage, Message, Members, Expects, GameType,
       roster, maps, game
  <1>7. ASSUME NEW id \in Players, ConnectionAccepted(id) PROVE Members' /\ Expects' /\ GameType'
    BY <1>7, ResetTypes DEF ConnectionAccepted
  <1>8. CASE ConnectionLost \/ GameModeRestart
    BY <1>8, ResetTypes DEF ConnectionLost, GameModeRestart, Message
  <1>9. ASSUME NEW p \in Players, ServerJoin(p) PROVE Members' /\ Expects' /\ GameType'
    BY <1>1, <1>2, <1>9 DEF ServerJoin, Message, Members, Expects, GameType, game
  <1>10. ASSUME NEW p \in Players, ServerQuit(p) PROVE Members' /\ Expects' /\ GameType'
    <2>1. /\ Nothing /\ Unmap("ped", QuitRpc) /\ Forgotten(p) /\ idle' = FALSE
          /\ shown' = [shown EXCEPT !["ped"][p] = Nil] /\ UNCHANGED world
          /\ job' = IF shown["ped"][p] = Nil THEN <<>> ELSE <<Removing(shown["ped"][p])>>
      BY <1>10 DEF ServerQuit, Message
    <2>2. Members'
      BY <1>1, <2>1 DEF Members, Unmap, Forgotten
    <2>3. Expects'
      BY <1>1, <1>2, <2>1 DEF Expects
    <2>4. "ped" \in Kinds /\ p \in Ids
      BY KindTypes
    <2>5. GameType'
      BY <1>1, <2>1, <2>4, MakeTypes DEF Drop
    <2> QED
      BY <2>2, <2>3, <2>5
  <1>11. ASSUME NEW p \in Players, WorldPlayerAdd(p) \/ WorldPlayerRemove(p)
         PROVE  Members' /\ Expects' /\ GameType'
    <2>1. "ped" \in Kinds /\ p \in Ids
      BY KindTypes
    <2>2. Members' /\ GameType'
      BY <1>1, <1>11, <2>1, MakeTypes DEF WorldPlayerAdd, WorldPlayerRemove, Members, roster, maps
    <2>3. expect' \in R /\ (expect'.kind = "ped" => expect'.id = p) /\ expect'.kind \in {"ped", "none"}
      <3>1. \/ Nothing \/ Announce(p)
            \/ expect' = [expect EXCEPT !.kind = "ped", !.id = p, !.removing = TRUE]
        BY <1>11 DEF WorldPlayerAdd, WorldPlayerRemove
      <3>2. CASE Nothing
        BY <1>2, <3>2
      <3>3. CASE Announce(p)
        BY <2>1, <3>3 DEF Announce
      <3>4. CASE expect' = [expect EXCEPT !.kind = "ped", !.id = p, !.removing = TRUE]
        BY <1>1, <2>1, <3>4
      <3> QED
        BY <3>1, <3>2, <3>3, <3>4
    <2> QED
      BY <1>1, <1>11, <2>2, <2>3 DEF Expects, WorldPlayerAdd, WorldPlayerRemove, Message
  <1>12. ASSUME NEW k \in Kinds \ {"ped"}, NEW id \in Things,
                WorldThingAdd(k, id) \/ WorldThingRemove(k, id)
         PROVE  Members' /\ Expects' /\ GameType'
    <2>1. id \in Ids
      BY KindTypes
    <2>2. Members' /\ GameType'
      BY <1>1, <1>12, <2>1, MakeTypes DEF WorldThingAdd, WorldThingRemove, Members, roster, maps
    <2>3. expect' \in R /\ expect'.kind = k /\ expect'.id = id
      BY <1>1, <1>12, <2>1 DEF WorldThingAdd, WorldThingRemove
    <2> QED
      BY <1>1, <1>12, <2>2, <2>3 DEF Expects, WorldThingAdd, WorldThingRemove, Message
  <1>13. CASE UNCHANGED vars
    BY <1>1, <1>13 DEF Members, Expects, GameType, vars, roster, maps, game
  <1> QED
    BY <1>4, <1>5, <1>6, <1>7, <1>8, <1>9, <1>10, <1>11, <1>12, <1>13 DEF Next

LEMMA TypesInit == Init => Types
  <1> SUFFICES ASSUME Init PROVE Members /\ Expects /\ GameType
    BY InvariantInit DEF Types
  <1>1. NoneMapped \in [Kinds -> [Ids -> Entities \cup {Nil}]]
    BY DEF NoneMapped
  <1> QED
    BY <1>1, JobTypes DEF Init, Members, Expects, GameType

(* What the types need of the roster, the expectation and the job holds.   *)
THEOREM TypesAlways == Spec => []Types
  BY TypesInit, TypesStep, PTL DEF Spec

(* The members of netinfo keep their types for any ids of the server, that *)
(* of the number of RPC_ScrServerQuit included, and online never counts    *)
(* more players than the server has ids for.                               *)
THEOREM TypeCorrect == Spec => []TypeOK
  BY TypesAlways, TypesGiveTypeOK, PTL

----------------------------------------------------------------------------
(* What the game shows is found, as long as no player has the number of    *)
(* RPC_ScrServerQuit for an id                                             *)

(* The entity of this id is being added or removed. *)
Pending(k, i) == job # <<>> /\ expect.kind = k /\ expect.id = i
Unshown(e) == \A k \in Kinds, i \in Ids : shown[k][i] # e

(* What the game may have to do: to remove the ped of a player that quit,  *)
(* to remove an entity that netinfo expects to go, to add one it expects.  *)
Quitting(e) == job = <<Removing(e)>> /\ expect.kind = "none" /\ Unshown(e)
Dropping(e) ==
  /\ job = <<Removing(e)>> /\ Unshown(e)
  /\ expect.kind = KindOf(e) /\ expect.removing
  /\ found[expect.kind][expect.id] = e
  /\ shown[expect.kind][expect.id] = Nil
Making(e) ==
  /\ expect.kind = KindOf(e) /\ ~ expect.removing
  /\ shown[expect.kind][expect.id] = e
  /\ \/ expect.kind # "ped" /\ job = <<Adding(e)>>
     \/ /\ expect.kind = "ped"
        /\ \/ expect.step = 0 /\ job = <<Adding(e), Removing(e), Adding(e)>>
           \/ expect.step = 1 /\ job = <<Removing(e), Adding(e)>>
           \/ expect.step = 2 /\ job = <<Adding(e)>>
OneJob == job = <<>> \/ \E e \in Entities : Quitting(e) \/ Dropping(e) \/ Making(e)

(* An entity is shown for one id, of its kind; a ped for a player of the   *)
(* server; and only players have been found as peds.                       *)
ShownOnce ==
  \A k \in Kinds, i \in Ids : shown[k][i] # Nil =>
    /\ KindOf(shown[k][i]) = k
    /\ k = "ped" => i \in connected
    /\ \A l \in Kinds, j \in Ids : shown[l][j] = shown[k][i] => l = k /\ j = i
PlayersFound == \A i \in Ids : found["ped"][i] # Nil => i \in Players

(* But for what is pending, what is shown is in the world and in the maps. *)
Matched ==
  \A k \in Kinds, i \in Ids : shown[k][i] # Nil /\ ~ Pending(k, i) =>
    shown[k][i] \in world /\ found[k][i] = shown[k][i] /\ idOf[shown[k][i]] = i
StreamedShown ==
  \A i \in Ids : ~ Pending("ped", i) => (i \in streamed <=> shown["ped"][i] # Nil)

Mapped == OneJob /\ ShownOnce /\ PlayersFound /\ Matched /\ StreamedShown
MInv == Types /\ Mapped

(* A step that touches neither the maps nor the world, nor what the game   *)
(* shows, while it has nothing to do.                                      *)
LEMMA MappedKept ==
  ASSUME Mapped, job = <<>>, UNCHANGED <<maps, shown, world, job>>, connected \subseteq connected'
  PROVE  Mapped'
  BY DEF Mapped, OneJob, ShownOnce, PlayersFound, Matched, StreamedShown, Pending, maps

(* An entity is announced; the game makes one or has no room. *)
LEMMA MakeStep ==
  ASSUME MInv, job = <<>>, NEW k \in Kinds, NEW id \in Ids, shown[k][id] = Nil,
         k = "ped" => id \in connected, Make(k, id),
         expect'.kind = k, expect'.id = id, ~ expect'.removing, k = "ped" => expect'.step = 0,
         UNCHANGED <<maps, world, connected>>
  PROVE  Mapped'
  <1>1. CASE UNCHANGED <<job, shown>>
    BY <1>1, MappedKept DEF MInv
  <1>2. ASSUME NEW e \in Entities \ world, KindOf(e) = k, job' = Work(e),
               shown' = [shown EXCEPT ![k][id] = e]
        PROVE  Mapped'
    <2>1. shown \in [Kinds -> [Ids -> Entities \cup {Nil}]] /\ e # Nil
      BY KindTypes DEF MInv, Types, GameType
    <2>2. /\ shown'[k][id] = e
          /\ \A l \in Kinds, j \in Ids : l # k \/ j # id => shown'[l][j] = shown[l][j]
      BY <1>2, <2>1
    <2>3. Unshown(e)
      BY <2>1 DEF Unshown, MInv, Mapped, Matched, Pending
    <2>4. job' # <<>>
      BY <1>2 DEF Work
    <2>5. e \in Peds <=> k = "ped"
      BY <1>2 DEF KindOf
    <2>6. Making(e)'
      BY <1>2, <2>2, <2>5 DEF Making, Work
    <2>7. ShownOnce'
      <3> SUFFICES ASSUME NEW l \in Kinds, NEW j \in Ids, shown'[l][j] # Nil
                   PROVE  /\ KindOf(shown'[l][j]) = l
                          /\ l = "ped" => j \in connected'
                          /\ \A h \in Kinds, i \in Ids :
                               shown'[h][i] = shown'[l][j] => h = l /\ i = j
        BY DEF ShownOnce
      <3>1. CASE l = k /\ j = id
        BY <1>2, <2>2, <2>3, <3>1 DEF Unshown
      <3>2. CASE l # k \/ j # id
        BY <2>2, <2>3, <3>2 DEF Unshown, MInv, Mapped, ShownOnce
      <3> QED
        BY <3>1, <3>2
    <2>8. PlayersFound'
      BY DEF PlayersFound, MInv, Mapped, maps
    <2>9. Matched' /\ StreamedShown'
      BY <2>2, <2>4 DEF Matched, StreamedShown, Pending, MInv, Mapped, maps, Kinds
    <2> QED
      BY <2>6, <2>7, <2>8, <2>9 DEF Mapped, OneJob
  <1> QED
    BY <1>1, <1>2 DEF Make

(* An entity goes out of view; the game removes the one it has. *)
LEMMA DropStep ==
  ASSUME MInv, job = <<>>, NEW k \in Kinds, NEW id \in Ids, Drop(k, id),
         expect'.kind = k, expect'.id = id, expect'.removing,
         UNCHANGED <<maps, world, connected>>
  PROVE  Mapped'
  <1>1. shown \in [Kinds -> [Ids -> Entities \cup {Nil}]]
    BY DEF MInv, Types, GameType
  <1>2. /\ shown'[k][id] = Nil
        /\ \A l \in Kinds, j \in Ids : l # k \/ j # id => shown'[l][j] = shown[l][j]
    BY <1>1 DEF Drop
  <1>3. ShownOnce'
    BY <1>2 DEF ShownOnce, MInv, Mapped
  <1>4. PlayersFound'
    BY DEF PlayersFound, MInv, Mapped, maps
  <1>5. CASE shown[k][id] = Nil
    <2>1. job' = <<>> /\ \A l \in Kinds, j \in Ids : shown'[l][j] = shown[l][j]
      BY <1>2, <1>5 DEF Drop
    <2>2. Matched' /\ StreamedShown'
      BY <2>1 DEF Matched, StreamedShown, Pending, MInv, Mapped, maps, Kinds
    <2> QED
      BY <1>3, <1>4, <2>1, <2>2 DEF Mapped, OneJob
  <1>6. CASE shown[k][id] # Nil
    <2>0. PICK e \in Entities : e = shown[k][id]
      BY <1>1, <1>6
    <2>1. job' = <<Removing(e)>>
      BY <1>6, <2>0 DEF Drop
    <2>2. KindOf(e) = k /\ found[k][id] = e
      BY <1>6, <2>0 DEF MInv, Mapped, ShownOnce, Matched, Pending
    <2>3. \A l \in Kinds, j \in Ids : shown'[l][j] # e
      BY <1>2, <1>6, <2>0 DEF MInv, Mapped, ShownOnce
    <2>4. Dropping(e)'
      BY <1>2, <2>1, <2>2, <2>3 DEF Dropping, Unshown, maps
    <2>5. job' # <<>>
      BY <2>1
    <2>6. Matched' /\ StreamedShown'
      BY <1>2, <2>5 DEF Matched, StreamedShown, Pending, MInv, Mapped, maps, Kinds
    <2> QED
      BY <1>3, <1>4, <2>1, <2>4, <2>6 DEF Mapped, OneJob
  <1> QED
    BY <1>5, <1>6

(* A player that quits: the maps are searched for the number of the        *)
(* message, which is no player's, so they stay; the ped is removed while   *)
(* nothing is expected.                                                    *)
LEMMA QuitMaps ==
  ASSUME MInv, QuitRpc \notin Players, NEW p \in Players, ServerQuit(p)
  PROVE  Mapped'
  <1>1. /\ job = <<>> /\ p \in connected /\ Nothing /\ Unmap("ped", QuitRpc) /\ Forgotten(p)
        /\ connected' = connected \ {p}
        /\ shown' = [shown EXCEPT !["ped"][p] = Nil] /\ world' = world
        /\ job' = IF shown["ped"][p] = Nil THEN <<>> ELSE <<Removing(shown["ped"][p])>>
    BY DEF ServerQuit, Message
  <1>2. /\ shown \in [Kinds -> [Ids -> Entities \cup {Nil}]]
        /\ found \in [Kinds -> [Ids -> Entities \cup {Nil}]]
        /\ idOf \in [Entities -> Ids \cup {NoId}]
        /\ "ped" \in Kinds /\ QuitRpc \in Ids /\ Players \subseteq Ids
    BY KindTypes DEF MInv, Types, GameType, Members
  <1>3. found["ped"][QuitRpc] = Nil
    BY <1>2 DEF MInv, Mapped, PlayersFound
  <1>4. found' = found
    BY <1>1, <1>2, <1>3 DEF Unmap
  <1>5. idOf' = idOf
    BY <1>1, <1>2, <1>3, KindTypes DEF Unmap
  <1>6. /\ shown'["ped"][p] = Nil
        /\ \A l \in Kinds, j \in Ids : l # "ped" \/ j # p => shown'[l][j] = shown[l][j]
    BY <1>1, <1>2
  <1>7. expect'.kind = "none"
    BY <1>1 DEF Nothing, MInv, Types, Expects
  <1>8. \A k \in Kinds, i \in Ids : ~ Pending(k, i) /\ ~ Pending(k, i)'
    BY <1>1, <1>7 DEF Pending, Kinds
  <1>9. ShownOnce'
    BY <1>1, <1>6 DEF ShownOnce, MInv, Mapped
  <1>10. PlayersFound' /\ Matched'
    BY <1>1, <1>4, <1>5, <1>6, <1>8 DEF PlayersFound, Matched, MInv, Mapped
  <1>11. StreamedShown'
    <2>1. \A i \in Ids : i \in streamed <=> shown["ped"][i] # Nil
      BY <1>2, <1>8 DEF StreamedShown, MInv, Mapped
    <2>2. shown["ped"][QuitRpc] = Nil
      BY <1>2, RosterTyped DEF ShownOnce, MInv, Mapped, Types
    <2>3. streamed' = streamed \ {QuitRpc, p}
      BY <1>1 DEF Forgotten
    <2> QED
      BY <1>2, <1>6, <2>1, <2>2, <2>3 DEF StreamedShown
  <1>12. OneJob'
    <2>1. CASE shown["ped"][p] = Nil
      BY <1>1, <2>1 DEF OneJob
    <2>2. CASE shown["ped"][p] # Nil
      <3>0. PICK e \in Entities : e = shown["ped"][p]
        BY <1>2, <2>2
      <3>1. job' = <<Removing(e)>>
        BY <1>1, <2>2, <3>0
      <3>2. \A l \in Kinds, j \in Ids : shown'[l][j] # e
        BY <1>2, <1>6, <2>2, <3>0 DEF MInv, Mapped, ShownOnce
      <3>3. Quitting(e)'
        BY <1>7, <3>1, <3>2 DEF Quitting, Unshown
      <3> QED
        BY <3>1, <3>3 DEF OneJob
    <2> QED
      BY <2>1, <2>2
  <1> QED
    BY <1>9, <1>10, <1>11, <1>12 DEF Mapped

LEMMA ResetMaps ==
  ASSUME Reset, Forget, job = <<>>, UNCHANGED job
  PROVE  Mapped'
  <1>1. \A k \in Kinds, i \in Ids : shown'[k][i] = Nil /\ found'[k][i] = Nil
    BY DEF Reset, Forget, NoneMapped
  <1> QED
    BY <1>1, KindTypes DEF Reset, Mapped, OneJob, ShownOnce, PlayersFound, Matched, StreamedShown

(* The last entity of a job is found for the id it was made for. *)
LEMMA FoundStep ==
  ASSUME MInv, NEW e \in Entities, Making(e), StreamIn(expect.kind, expect.id, e),
         job' = <<>>, UNCHANGED <<shown, connected>>, world' = world \cup {e}
  PROVE  Mapped'
  <1> DEFINE k == expect.kind
             id == expect.id
  <1>1. /\ k \in Kinds /\ id \in Ids /\ (k = "ped" => id \in Players)
        /\ shown[k][id] = e /\ e # Nil
    BY KindTypes DEF Making, MInv, Types, Expects, Kinds
  <1>2. /\ found \in [Kinds -> [Ids -> Entities \cup {Nil}]]
        /\ idOf \in [Entities -> Ids \cup {NoId}]
        /\ shown \in [Kinds -> [Ids -> Entities \cup {Nil}]]
    BY DEF MInv, Types, Members, GameType
  <1>3. /\ found'[k][id] = e /\ idOf'[e] = id
        /\ \A l \in Kinds, i \in Ids : l # k \/ i # id => found'[l][i] = found[l][i]
        /\ \A f \in Entities : f # e => idOf'[f] = idOf[f]
    BY <1>1, <1>2 DEF StreamIn
  <1>4. \A l \in Kinds, i \in Ids : Pending(l, i) <=> l = k /\ i = id
    <2>1. job # <<>>
      <3>1. \/ job = <<Adding(e)>> \/ job = <<Adding(e), Removing(e), Adding(e)>>
            \/ job = <<Removing(e), Adding(e)>>
        BY DEF Making
      <3> QED
        BY <3>1
    <2> QED
      BY <2>1 DEF Pending
  <1>5. OneJob' /\ ShownOnce'
    BY DEF OneJob, ShownOnce, MInv, Mapped
  <1>6. PlayersFound'
    BY <1>1, <1>3, KindTypes DEF PlayersFound, MInv, Mapped
  <1>7. Matched'
    <2> SUFFICES ASSUME NEW l \in Kinds, NEW i \in Ids, shown[l][i] # Nil
                 PROVE  /\ shown[l][i] \in world \cup {e} /\ found'[l][i] = shown[l][i]
                        /\ idOf'[shown[l][i]] = i
      BY DEF Matched
    <2>1. CASE l = k /\ i = id
      BY <1>1, <1>3, <2>1
    <2>2. CASE l # k \/ i # id
      <3>1. shown[l][i] \in world /\ found[l][i] = shown[l][i] /\ idOf[shown[l][i]] = i
        BY <1>4, <2>2 DEF MInv, Mapped, Matched
      <3>2. shown[l][i] # e
        BY <1>1, <2>2 DEF MInv, Mapped, ShownOnce
      <3>3. shown[l][i] \in Entities
        BY <1>2
      <3> QED
        BY <1>3, <2>2, <3>1, <3>2, <3>3
    <2> QED
      BY <2>1, <2>2
  <1>8. StreamedShown'
    <2> SUFFICES ASSUME NEW i \in Ids PROVE i \in streamed' <=> shown["ped"][i] # Nil
      BY DEF StreamedShown
    <2>1. (k = "ped" /\ i = id) \/ (i \in streamed <=> shown["ped"][i] # Nil)
      BY <1>4, KindTypes DEF MInv, Mapped, StreamedShown
    <2>2. streamed' = IF k = "ped" THEN streamed \cup {id} ELSE streamed
      BY DEF StreamIn
    <2> QED
      BY <1>1, <2>1, <2>2
  <1> QED
    BY <1>5, <1>6, <1>7, <1>8 DEF Mapped

(* The entity that netinfo expected to go is forgotten. *)
LEMMA LostStep ==
  ASSUME MInv, NEW e \in Entities, Dropping(e), StreamOut(expect.kind, expect.id),
         job' = <<>>, UNCHANGED <<shown, connected>>, world' = world \ {e}
  PROVE  Mapped'
  <1> DEFINE k == expect.kind
             id == expect.id
  <1>1. /\ k \in Kinds /\ id \in Ids /\ found[k][id] = e /\ shown[k][id] = Nil /\ e # Nil
    BY KindTypes DEF Dropping, MInv, Types, Expects, Kinds
  <1>2. /\ found \in [Kinds -> [Ids -> Entities \cup {Nil}]]
        /\ idOf \in [Entities -> Ids \cup {NoId}]
        /\ shown \in [Kinds -> [Ids -> Entities \cup {Nil}]]
    BY DEF MInv, Types, Members, GameType
  <1>3. /\ found'[k][id] = Nil
        /\ \A l \in Kinds, i \in Ids : l # k \/ i # id => found'[l][i] = found[l][i]
        /\ \A f \in Entities : f # e => idOf'[f] = idOf[f]
    BY <1>1, <1>2 DEF StreamOut, Unmap
  <1>4. \A l \in Kinds, i \in Ids : Pending(l, i) <=> l = k /\ i = id
    BY DEF Pending, Dropping
  <1>5. OneJob' /\ ShownOnce'
    BY DEF OneJob, ShownOnce, MInv, Mapped
  <1>6. PlayersFound'
    BY <1>1, <1>3, KindTypes DEF PlayersFound, MInv, Mapped
  <1>7. Matched'
    <2> SUFFICES ASSUME NEW l \in Kinds, NEW i \in Ids, shown[l][i] # Nil
                 PROVE  /\ shown[l][i] \in world \ {e} /\ found'[l][i] = shown[l][i]
                        /\ idOf'[shown[l][i]] = i
      BY DEF Matched
    <2>1. l # k \/ i # id
      BY <1>1
    <2>2. shown[l][i] \in world /\ found[l][i] = shown[l][i] /\ idOf[shown[l][i]] = i
      BY <1>4, <2>1 DEF MInv, Mapped, Matched
    <2>3. shown[l][i] # e /\ shown[l][i] \in Entities
      BY <1>2 DEF Dropping, Unshown
    <2> QED
      BY <1>3, <2>1, <2>2, <2>3
  <1>8. StreamedShown'
    <2> SUFFICES ASSUME NEW i \in Ids PROVE i \in streamed' <=> shown["ped"][i] # Nil
      BY DEF StreamedShown
    <2>1. (k = "ped" /\ i = id) \/ (i \in streamed <=> shown["ped"][i] # Nil)
      BY <1>4, KindTypes DEF MInv, Mapped, StreamedShown
    <2>2. streamed' = IF k = "ped" THEN streamed \ {id} ELSE streamed
      BY DEF StreamOut
    <2> QED
      BY <1>1, <2>1, <2>2
  <1> QED
    BY <1>5, <1>6, <1>7, <1>8 DEF Mapped

(* An entity that netinfo does not know, or does not look at yet. *)
LEMMA UnmappedStep ==
  ASSUME MInv, UNCHANGED <<maps, shown, connected>>, OneJob',
         \A k \in Kinds, i \in Ids : Pending(k, i)' <=> Pending(k, i),
         \A k \in Kinds, i \in Ids :
           shown[k][i] # Nil /\ ~ Pending(k, i) /\ shown[k][i] \in world => shown[k][i] \in world'
  PROVE  Mapped'
  <1>1. ShownOnce' /\ PlayersFound'
    BY DEF ShownOnce, PlayersFound, MInv, Mapped, maps
  <1>2. Matched'
    BY DEF Matched, MInv, Mapped, maps
  <1>3. StreamedShown'
    BY KindTypes DEF StreamedShown, MInv, Mapped, maps
  <1> QED
    BY <1>1, <1>2, <1>3 DEF Mapped

LEMMA GameStepMaps ==
  ASSUME MInv, GameStep
  PROVE  Mapped'
  <1>1. /\ job # <<>> /\ job' = Tail(job) /\ UNCHANGED <<shown, connected>>
        /\ \/ Head(job).op = "add" /\ Add(Head(job).e) /\ world' = world \cup {Head(job).e}
           \/ Head(job).op = "remove" /\ Remove(Head(job).e) /\ world' = world \ {Head(job).e}
    BY DEF GameStep
  <1>2. PICK e \in Entities : Quitting(e) \/ Dropping(e) \/ Making(e)
    BY <1>1 DEF MInv, Mapped, OneJob
  <1>3. /\ Adding(e).op = "add" /\ Adding(e).e = e
        /\ Removing(e).op = "remove" /\ Removing(e).e = e
    BY DEF Adding, Removing
  <1>4. KindOf(e) \in Kinds /\ KindOf(e) # "none"
    BY KindTypes
  <1>5. \A k \in Kinds, i \in Ids : shown[k][i] = e /\ Making(e) => Pending(k, i)
    <2> SUFFICES ASSUME NEW k \in Kinds, NEW i \in Ids, shown[k][i] = e, Making(e)
                 PROVE  k = expect.kind /\ i = expect.id
      BY <1>1 DEF Pending
    <2>1. shown[expect.kind][expect.id] = e /\ expect.kind = KindOf(e) /\ e # Nil
      BY KindTypes DEF Making
    <2>2. expect.kind \in Kinds /\ expect.id \in Ids
      BY <1>4, <2>1, KindTypes DEF MInv, Types, Expects, Kinds
    <2> QED
      BY <2>1, <2>2 DEF MInv, Mapped, ShownOnce
  <1>6. CASE Quitting(e)
    <2>1. job' = <<>> /\ Remove(e) /\ world' = world \ {e}
      BY <1>1, <1>3, <1>6 DEF Quitting
    <2>2. UNCHANGED maps /\ expect.kind = "none"
      BY <1>4, <1>6, <2>1 DEF Remove, Quitting
    <2>3. \A k \in Kinds, i \in Ids : ~ Pending(k, i) /\ ~ Pending(k, i)'
      BY <2>1, <2>2 DEF Pending, Kinds
    <2> QED
      BY <1>1, <1>6, <2>1, <2>2, <2>3, UnmappedStep DEF Quitting, Unshown, OneJob
  <1>7. CASE Dropping(e)
    <2>1. job' = <<>> /\ Remove(e) /\ world' = world \ {e}
      BY <1>1, <1>3, <1>7 DEF Dropping
    <2>2. StreamOut(expect.kind, expect.id)
      BY <1>7, <2>1 DEF Remove, Dropping
    <2> QED
      BY <1>1, <1>7, <2>1, <2>2, LostStep
  <1>8. CASE Making(e) /\ Head(job) = Adding(e) /\ Tail(job) = <<>> /\ (expect.kind = "ped" => expect.step = 2)
    <2>1. Add(e) /\ world' = world \cup {e} /\ job' = <<>>
      BY <1>1, <1>3, <1>8
    <2>2. StreamIn(expect.kind, expect.id, e)
      BY <1>8, <2>1 DEF Add, Making
    <2> QED
      BY <1>1, <1>8, <2>1, <2>2, FoundStep
  <1>9. CASE Making(e) /\ expect.kind = "ped" /\ expect.step = 0 /\ job = <<Adding(e), Removing(e), Adding(e)>>
    <2>1. Add(e) /\ world' = world \cup {e} /\ job' = <<Removing(e), Adding(e)>>
      BY <1>1, <1>3, <1>9
    <2>2. NextStep /\ UNCHANGED maps
      BY <1>9, <2>1 DEF Add, Making
    <2>3. expect'.kind = expect.kind /\ expect'.id = expect.id /\ expect'.removing = expect.removing
          /\ expect'.step = 1
      BY <1>9, <2>2 DEF NextStep, MInv, Types, Expects
    <2>4. OneJob'
      BY <1>1, <1>9, <2>1, <2>3 DEF OneJob, Making
    <2>5. \A k \in Kinds, i \in Ids : Pending(k, i)' <=> Pending(k, i)
      <3>1. job' # <<>>
        BY <2>1
      <3> QED
        BY <1>1, <2>3, <3>1 DEF Pending
    <2> QED
      BY <1>1, <2>1, <2>2, <2>4, <2>5, UnmappedStep
  <1>10. CASE Making(e) /\ expect.kind = "ped" /\ expect.step = 1 /\ job = <<Removing(e), Adding(e)>>
    <2>1. Remove(e) /\ world' = world \ {e} /\ job' = <<Adding(e)>>
      BY <1>1, <1>3, <1>10
    <2>2. NextStep /\ UNCHANGED maps
      BY <1>10, <2>1 DEF Remove, Making
    <2>3. expect'.kind = expect.kind /\ expect'.id = expect.id /\ expect'.removing = expect.removing
          /\ expect'.step = 2
      BY <1>10, <2>2 DEF NextStep, MInv, Types, Expects
    <2>4. OneJob'
      BY <1>1, <1>10, <2>1, <2>3 DEF OneJob, Making
    <2>5. \A k \in Kinds, i \in Ids : Pending(k, i)' <=> Pending(k, i)
      <3>1. job' # <<>>
        BY <2>1
      <3> QED
        BY <1>1, <2>3, <3>1 DEF Pending
    <2> QED
      BY <1>1, <1>5, <1>10, <2>1, <2>2, <2>4, <2>5, UnmappedStep
  <1>11. Making(e) =>
           \/ expect.kind # "ped" /\ job = <<Adding(e)>>
           \/ expect.kind = "ped" /\ expect.step = 0 /\ job = <<Adding(e), Removing(e), Adding(e)>>
           \/ expect.kind = "ped" /\ expect.step = 1 /\ job = <<Removing(e), Adding(e)>>
           \/ expect.kind = "ped" /\ expect.step = 2 /\ job = <<Adding(e)>>
    BY DEF Making
  <1>12. job = <<Adding(e)>> => Head(job) = Adding(e) /\ Tail(job) = <<>>
    OBVIOUS
  <1> QED
    BY <1>2, <1>6, <1>7, <1>8, <1>9, <1>10, <1>11, <1>12

LEMMA MappedStep ==
  ASSUME QuitRpc \notin Players
  PROVE  MInv /\ [Next]_vars => MInv'
  <1>1. MInv /\ [Next]_vars => Types'
    BY TypesStep DEF MInv
  <1> SUFFICES ASSUME MInv, [Next]_vars PROVE Mapped'
    BY <1>1 DEF MInv
  <1>2. Mapped /\ Types /\ connected \subseteq players
    BY RosterTyped DEF MInv, Types
  <1>3. expect \in [kind : Kinds \cup {"none"}, id : Ids \cup {0}, removing : BOOLEAN, step : 0 .. 2]
    BY <1>2 DEF Types, Expects
  <1>4. CASE GameStep
    BY <1>4, GameStepMaps
  <1>5. ASSUME NEW e \in Entities, Ambient(e) PROVE Mapped'
    <2>1. job = <<>> /\ job' = job /\ expect.kind = "none"
      BY <1>2, <1>5 DEF Ambient, Types, Expects
    <2>2. UNCHANGED maps
      BY <1>5, <2>1, KindTypes DEF Ambient, Add, Remove
    <2>3. \A k \in Kinds, i \in Ids : ~ Pending(k, i) /\ ~ Pending(k, i)'
      BY <2>1 DEF Pending
    <2>4. OneJob'
      BY <2>1 DEF OneJob
    <2> QED
      BY <1>5, <2>2, <2>3, <2>4, UnmappedStep DEF Ambient
  <1>6. CASE ReceiveNothing \/ OtherMessage
    BY <1>2, <1>6, MappedKept DEF ReceiveNothing, OtherMessage, Message, game
  <1>7. ASSUME NEW id \in Players, ConnectionAccepted(id) PROVE Mapped'
    BY <1>7, ResetMaps DEF ConnectionAccepted
  <1>8. CASE ConnectionLost \/ GameModeRestart
    BY <1>8, ResetMaps DEF ConnectionLost, GameModeRestart, Message
  <1>9. ASSUME NEW p \in Players, ServerJoin(p) PROVE Mapped'
    <2>1. /\ job = <<>> /\ p \notin connected /\ connected' = connected \cup {p}
          /\ streamed' = streamed \ {p} /\ UNCHANGED <<found, idOf, shown, world, job>>
      BY <1>9 DEF ServerJoin, Message, game
    <2>2. p \notin streamed
      BY <1>2, <2>1, KindTypes DEF Mapped, ShownOnce, StreamedShown, Pending
    <2>3. UNCHANGED maps
      BY <2>1, <2>2 DEF maps
    <2> QED
      BY <1>2, <2>1, <2>3, MappedKept
  <1>10. ASSUME NEW p \in Players, ServerQuit(p) PROVE Mapped'
    BY <1>10, QuitMaps
  <1>11. ASSUME NEW p \in Players, WorldPlayerAdd(p) PROVE Mapped'
    <2>1. /\ job = <<>> /\ p \in connected /\ shown["ped"][p] = Nil /\ Announce(p)
          /\ Make("ped", p) /\ UNCHANGED <<maps, connected, world>>
      BY <1>2, <1>11 DEF WorldPlayerAdd, Message
    <2>2. /\ expect'.kind = "ped" /\ expect'.id = p /\ ~ expect'.removing /\ expect'.step = 0
      BY <2>1 DEF Announce
    <2> QED
      BY <2>1, <2>2, KindTypes, MakeStep
  <1>12. ASSUME NEW p \in Players, WorldPlayerRemove(p) PROVE Mapped'
    <2>1. /\ job = <<>> /\ p \in connected /\ Drop("ped", p) /\ UNCHANGED <<maps, connected, world>>
          /\ expect' = [expect EXCEPT !.kind = "ped", !.id = p, !.removing = TRUE]
      BY <1>2, <1>12 DEF WorldPlayerRemove, Message
    <2>2. expect'.kind = "ped" /\ expect'.id = p /\ expect'.removing
      BY <1>3, <2>1
    <2> QED
      BY <2>1, <2>2, KindTypes, DropStep
  <1>13. ASSUME NEW k \in Kinds \ {"ped"}, NEW id \in Things, WorldThingAdd(k, id) PROVE Mapped'
    <2>1. /\ job = <<>> /\ shown[k][id] = Nil /\ Make(k, id) /\ UNCHANGED <<maps, connected, world>>
          /\ expect' = [expect EXCEPT !.kind = k, !.id = id, !.removing = FALSE]
      BY <1>13 DEF WorldThingAdd, Message
    <2>2. expect'.kind = k /\ expect'.id = id /\ ~ expect'.removing
      BY <1>3, <2>1
    <2> QED
      BY <2>1, <2>2, KindTypes, MakeStep
  <1>14. ASSUME NEW k \in Kinds \ {"ped"}, NEW id \in Things, WorldThingRemove(k, id) PROVE Mapped'
    <2>1. /\ job = <<>> /\ Drop(k, id) /\ UNCHANGED <<maps, connected, world>>
          /\ expect' = [expect EXCEPT !.kind = k, !.id = id, !.removing = TRUE]
      BY <1>14 DEF WorldThingRemove, Message
    <2>2. expect'.kind = k /\ expect'.id = id /\ expect'.removing
      BY <1>3, <2>1
    <2> QED
      BY <2>1, <2>2, KindTypes, DropStep
  <1>15. CASE UNCHANGED vars
    BY <1>15 DEF vars, maps, game, MInv, Mapped, OneJob, Quitting, Dropping, Making, Unshown,
       ShownOnce, PlayersFound, Matched, StreamedShown, Pending
  <1> QED
    BY <1>4, <1>5, <1>6, <1>7, <1>8, <1>9, <1>10, <1>11, <1>12, <1>13, <1>14, <1>15 DEF Next

(* The maps agree with the game for any number of players, things and      *)
(* entities, unless a player can have the number of RPC_ScrServerQuit.     *)
THEOREM MappedAlways == QuitRpc \notin Players => (Spec => []MInv)
  <1> SUFFICES ASSUME QuitRpc \notin Players PROVE Spec => []MInv
    OBVIOUS
  <1>1. Init => MInv
    <2> SUFFICES ASSUME Init PROVE Mapped
      BY TypesInit DEF MInv
    <2>1. \A k \in Kinds, i \in Ids : shown[k][i] = Nil /\ found[k][i] = Nil
      BY DEF Init, NoneMapped
    <2> QED
      BY <2>1, KindTypes DEF Init, Mapped, OneJob, ShownOnce, PlayersFound, Matched, StreamedShown
  <1> QED
    BY <1>1, MappedStep, PTL DEF Spec

(* Once the game has acted on a message, what it shows for an id is found  *)
(* by the id, and the id by what it shows, although the maps keep the      *)
(* entities of players that quit and the game uses the addresses again.    *)
THEOREM ShownAlwaysFound == QuitRpc \notin Players => (Spec => []ShownAreFound)
  <1>1. MInv => ShownAreFound
    BY DEF MInv, Mapped, Matched, Pending, ShownAreFound
  <1> QED
    BY <1>1, MappedAlways, PTL

(* streamed_in is set for the players that have a ped in the game, and     *)
(* only for them, as long as the number of RPC_ScrServerQuit is no id:     *)
(* with such an id it is not, as a run shows.                              *)
THEOREM StreamedInAlwaysSpawned == QuitRpc \notin Players => (Spec => []StreamedInIsSpawned)
  <1>1. MInv => StreamedInIsSpawned
    <2>1. MInv => players \subseteq Ids
      BY KindTypes DEF MInv, Types, Members
    <2> QED
      BY <2>1, KindTypes DEF MInv, Mapped, StreamedShown, Pending, StreamedInIsSpawned
  <1> QED
    BY <1>1, MappedAlways, PTL

============================================================================
