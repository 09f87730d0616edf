------------------------------- MODULE Lobby -------------------------------
(***************************************************************************)
(* Sessions, players and rooms: who is connected, who is logged in, who     *)
(* sits in which room, and the life of a room from matchmaking to the end   *)
(* of its stage.  Models Session (Read, Disconnect), LoginHandler,          *)
(* PlayerManager, JoinRoomHandler, RoomManager, LoadSceneHandler,           *)
(* WaveHandler and Room's Enter, Leave, PlayerReadyCheck, WaveStart,        *)
(* EndStage and ResetStageState.                                            *)
(*                                                                          *)
(* Packet handlers and the completion handlers of a socket run one at a     *)
(* time in io_context.poll(), and GameServer::Run blocks until every room   *)
(* has been updated before it polls again, so each is one atomic action.    *)
(* What a tick of a room does is in RoomTick; here it is reduced to what    *)
(* other parts of the lobby see of it (WaveOver, StageOver).                *)
(***************************************************************************)
EXTENDS Naturals, FiniteSets

CONSTANTS
  Sessions,    \* Session objects, one per accepted connection
  MaxPlayers,  \* bound: how many Player objects may be created
  MaxRooms,    \* bound: how many Room objects may be created
  StageIds,    \* the stage ids a client may ask for
  Stages,      \* those the catalogue of stages knows
  NumWaves,    \* number of waves of a stage
  NoPlayer, NoSession, NoRoom, NoStage,   \* empty (shared or weak) pointers
  Polite       \* the sessions whose client logs in once and asks for a room
               \* only while it is in none, and whose connection does not fail
               \* between a completed read and its callback

PlayerIds == 1 .. MaxPlayers
RoomIds == 1 .. MaxRooms

ASSUME BoundsAssumption ==
  /\ MaxPlayers \in Nat \ {0}
  /\ MaxRooms \in Nat \ {0}
  /\ NumWaves \in Nat \ {0}
  /\ NoPlayer \notin PlayerIds
  /\ NoRoom \notin RoomIds
  /\ NoSession \notin Sessions
  /\ Stages \subseteq StageIds
  /\ NoStage \notin StageIds

ASSUME PoliteAssumption == Polite \subseteq Sessions

VARIABLES
  conn,        \* "fresh" before accept, "open", "closed" once m_disconnected
  lateRead,    \* a successful read completion is queued behind Disconnect
  sessPlayer,  \* Session::m_player
  nextPlayer,  \* PlayerManager::m_nextId
  registered,  \* keys of PlayerManager::m_players
  plSession,   \* Player::m_session
  plRoom,      \* Player::m_room
  nextRoom,    \* RoomManager::m_nextRoomId
  stageOf,     \* Room::m_stageData (NoStage for a room not made yet, too)
  members,     \* keys of Room::m_players
  listed,      \* keys of Room::m_playerReady
  ready,       \* the keys of Room::m_playerReady mapped to true
  gameState,   \* Room::m_gameState
  wave,        \* WaveManager::m_currentWave
  crashed      \* the process has dereferenced a null pointer and is gone

sessionVars == <<conn, lateRead, sessPlayer>>
playerVars == <<nextPlayer, registered, plSession>>
roomVars == <<nextRoom, stageOf, members, listed, ready, gameState, wave>>
vars == <<sessionVars, playerVars, plRoom, roomVars, crashed>>

GameStates == {"WaitingForPlayers", "Intermission", "Wave"}
CreatedRooms == 1 .. nextRoom - 1
CreatedPlayers == 1 .. nextPlayer - 1

Init ==
  /\ conn = [s \in Sessions |-> "fresh"]
  /\ lateRead = [s \in Sessions |-> FALSE]
  /\ sessPlayer = [s \in Sessions |-> NoPlayer]
  /\ nextPlayer = 1
  /\ registered = {}
  /\ plSession = [p \in PlayerIds |-> NoSession]
  /\ plRoom = [p \in PlayerIds |-> NoRoom]
  /\ nextRoom = 1
  /\ stageOf = [r \in RoomIds |-> NoStage]
  /\ members = [r \in RoomIds |-> {}]
  /\ listed = [r \in RoomIds |-> {}]
  /\ ready = [r \in RoomIds |-> {}]
  /\ gameState = [r \in RoomIds |-> "WaitingForPlayers"]
  /\ wave = [r \in RoomIds |-> 0]
  /\ crashed = FALSE

-----------------------------------------------------------------------------
(* Session objects *)

\* A handler of session s can run: a read completed on the open socket, or
\* one had completed before Disconnect and its callback is only called now.
CanHandle(s) == conn[s] = "open" \/ lateRead[s]

Accept(s) ==
  /\ conn[s] = "fresh"
  /\ conn' = [conn EXCEPT ![s] = "open"]
  /\ UNCHANGED <<lateRead, sessPlayer, playerVars, plRoom, roomVars>>

\* A successful login makes a new Player and points the session at it.
Login(s) ==
  /\ CanHandle(s)
  /\ s \in Polite => sessPlayer[s] = NoPlayer
  /\ nextPlayer \in PlayerIds
  /\ nextPlayer' = nextPlayer + 1
  /\ registered' = registered \cup {nextPlayer}
  /\ plSession' = [plSession EXCEPT ![nextPlayer] = s]
  /\ sessPlayer' = [sessPlayer EXCEPT ![s] = nextPlayer]
  /\ UNCHANGED <<conn, lateRead, plRoom, roomVars>>

-----------------------------------------------------------------------------
(* Rooms *)

\* Mutant: a room takes players whenever it has a seat free.
CanEnter_AnyState(r) == Cardinality(members[r]) < 2

CanEnter(r) == gameState[r] = "WaitingForPlayers" /\ Cardinality(members[r]) < 2

Enter(p, r) ==
  /\ CanEnter(r)
  /\ members' = [members EXCEPT ![r] = @ \cup {p}]
  /\ plRoom' = [plRoom EXCEPT ![p] = r]
  /\ listed' = [listed EXCEPT ![r] = @ \cup {p}]
  /\ ready' = [ready EXCEPT ![r] = @ \ {p}]
  /\ gameState' = [gameState EXCEPT
       ![r] = IF Cardinality(members[r] \cup {p}) = 2 THEN "Intermission" ELSE @]
  /\ UNCHANGED wave

\* RoomManager::GetRoom: any room of the stage that still takes players (the
\* rooms are scanned in the order of an unordered_map).
Joinable(st) == {r \in CreatedRooms : stageOf[r] = st /\ CanEnter(r)}

\* RoomManager::CreateRoom makes a room for an unknown stage id, too: its
\* m_stageData is null, and the next scan that comes to it dereferences that.
Stageless == {r \in CreatedRooms : stageOf[r] = NoStage}

\* StageManager::GetStage.
GetStage(st) == IF st \in Stages THEN st ELSE NoStage

\* The handler enters a room the scan finds, makes one when there is none, or
\* dies in the scan.
JoinRoom(s, st) ==
  LET p == sessPlayer[s] IN
  /\ CanHandle(s)
  /\ p # NoPlayer
  /\ s \in Polite => plRoom[p] = NoRoom
  /\ \/ \E r \in Joinable(st) : Enter(p, r) /\ UNCHANGED <<nextRoom, stageOf, crashed>>
     \/ /\ Joinable(st) = {}
        /\ Stageless = {}
        /\ nextRoom \in RoomIds
        /\ nextRoom' = nextRoom + 1
        /\ stageOf' = [stageOf EXCEPT ![nextRoom] = GetStage(st)]
        /\ Enter(p, nextRoom)
        /\ UNCHANGED crashed
     \/ /\ Stageless # {}
        /\ crashed' = TRUE
        /\ UNCHANGED <<plRoom, roomVars>>
  /\ UNCHANGED <<sessionVars, playerVars>>

\* Room::PlayerReadyCheck answers TRUE when p completes the set of ready players.
AllReady(p, r) == listed[r] \subseteq ready[r] \cup {p}

\* Mutant: the ready flags are not reset once all are set.
PlayerReadyCheck_NoReset(p, r) ==
  /\ listed' = [listed EXCEPT ![r] = @ \cup {p}]
  /\ ready' = [ready EXCEPT ![r] = @ \cup {p}]

PlayerReadyCheck(p, r) ==
  /\ listed' = [listed EXCEPT ![r] = @ \cup {p}]
  /\ ready' = [ready EXCEPT ![r] = IF AllReady(p, r) THEN {} ELSE @ \cup {p}]

LoadScene(s) ==
  LET p == sessPlayer[s] IN
  /\ CanHandle(s)
  /\ p # NoPlayer
  /\ plRoom[p] # NoRoom
  /\ PlayerReadyCheck(p, plRoom[p])
  /\ UNCHANGED <<sessionVars, playerVars, plRoom, nextRoom, stageOf, members,
                 gameState, wave>>

\* Mutant: StartWave without its check for a next wave.
WaveStart_Uncapped(r) ==
  /\ gameState' = [gameState EXCEPT ![r] = "Wave"]
  /\ wave' = [wave EXCEPT ![r] = @ + 1]

\* Room::WaveStart with WaveManager::StartWave, which counts no further than
\* the last wave of the stage, and not at all without a stage.
WaveStart(r) ==
  /\ gameState' = [gameState EXCEPT ![r] = "Wave"]
  /\ wave' = [wave EXCEPT
       ![r] = IF stageOf[r] # NoStage /\ @ < NumWaves THEN @ + 1 ELSE @]

StartWave(s) ==
  LET p == sessPlayer[s]
      r == plRoom[p] IN
  /\ CanHandle(s)
  /\ p # NoPlayer
  /\ r # NoRoom
  /\ PlayerReadyCheck(p, r)
  /\ IF AllReady(p, r) THEN WaveStart(r) ELSE UNCHANGED <<gameState, wave>>
  /\ UNCHANGED <<sessionVars, playerVars, plRoom, nextRoom, stageOf, members>>

\* Mutant: the ready flag outlives the player.
Leave_KeepsReady(p, r) ==
  LET rest == members[r] \ {p} IN
  /\ members' = [members EXCEPT ![r] = rest]
  /\ plRoom' = [plRoom EXCEPT ![p] = NoRoom]
  /\ gameState' = [gameState EXCEPT ![r] = IF rest = {} THEN "WaitingForPlayers" ELSE @]
  /\ wave' = [wave EXCEPT ![r] = IF rest = {} THEN 0 ELSE @]
  /\ UNCHANGED <<listed, ready>>

\* Mutant: the last player out does not reset the stage.
Leave_NoReset(p, r) ==
  /\ members' = [members EXCEPT ![r] = @ \ {p}]
  /\ plRoom' = [plRoom EXCEPT ![p] = NoRoom]
  /\ listed' = [listed EXCEPT ![r] = @ \ {p}]
  /\ ready' = [ready EXCEPT ![r] = @ \ {p}]
  /\ UNCHANGED <<gameState, wave>>

\* Room::Leave; the last one out resets the stage.
Leave(p, r) ==
  LET rest == members[r] \ {p} IN
  /\ members' = [members EXCEPT ![r] = rest]
  /\ plRoom' = [plRoom EXCEPT ![p] = NoRoom]
  /\ listed' = [listed EXCEPT ![r] = IF rest = {} THEN {} ELSE @ \ {p}]
  /\ ready' = [ready EXCEPT ![r] = IF rest = {} THEN {} ELSE @ \ {p}]
  /\ gameState' = [gameState EXCEPT ![r] = IF rest = {} THEN "WaitingForPlayers" ELSE @]
  /\ wave' = [wave EXCEPT ![r] = IF rest = {} THEN 0 ELSE @]

-----------------------------------------------------------------------------
(* Session::Disconnect, reached from a failed read or from a failed write *)

LeaveCurrentRoom(p) ==
  IF plRoom[p] # NoRoom /\ p \in members[plRoom[p]]
  THEN Leave(p, plRoom[p])
  ELSE UNCHANGED <<members, plRoom, listed, ready, gameState, wave>>

\* Mutant: Disconnect without PlayerManager::RemovePlayer.
Disconnect_KeepsPlayer(s) ==
  LET p == sessPlayer[s] IN
  /\ conn[s] = "open"
  /\ conn' = [conn EXCEPT ![s] = "closed"]
  /\ IF p = NoPlayer
     THEN UNCHANGED <<plRoom, members, listed, ready, gameState, wave>>
     ELSE LeaveCurrentRoom(p)
  /\ UNCHANGED <<registered, sessPlayer, nextPlayer, plSession, nextRoom, stageOf>>

Disconnect(s) ==
  LET p == sessPlayer[s] IN
  /\ conn[s] = "open"
  /\ conn' = [conn EXCEPT ![s] = "closed"]
  /\ IF p = NoPlayer
     THEN UNCHANGED <<registered, plRoom, members, listed, ready, gameState, wave>>
     ELSE LeaveCurrentRoom(p) /\ registered' = registered \ {p}
  /\ UNCHANGED <<sessPlayer, nextPlayer, plSession, nextRoom, stageOf>>

ReadFailed(s) == Disconnect(s) /\ UNCHANGED lateRead

\* close() cancels the pending read, unless it has completed already.
WriteFailed(s) ==
  /\ Disconnect(s)
  /\ \E late \in (IF s \in Polite THEN {FALSE} ELSE BOOLEAN) :
       lateRead' = [lateRead EXCEPT ![s] = late]

\* The late read callback returns: it starts no further read (Session::Read
\* checks m_disconnected again after ProcessPackets).
LateReadDone(s) ==
  /\ lateRead[s]
  /\ lateRead' = [lateRead EXCEPT ![s] = FALSE]
  /\ UNCHANGED <<conn, sessPlayer, playerVars, plRoom, roomVars>>

-----------------------------------------------------------------------------
(* What a tick of a room may do to it: Room::CheckEndWave and Room::EndStage. *)
(* Both follow from the death or arrival of an enemy, and a room without a    *)
(* stage has none.                                                            *)

\* A wave that is not the last one is over.
WaveOver(r) ==
  /\ gameState[r] = "Wave"
  /\ stageOf[r] # NoStage
  /\ wave[r] < NumWaves
  /\ gameState' = [gameState EXCEPT ![r] = "Intermission"]
  /\ UNCHANGED <<sessionVars, playerVars, plRoom, nextRoom, stageOf, members,
                 listed, ready, wave>>

\* Mutant: ResetStageState without WaveManager::Reset.
StageOver_KeepsWave(r) ==
  /\ gameState[r] = "Wave"
  /\ stageOf[r] # NoStage
  /\ gameState' = [gameState EXCEPT ![r] = "WaitingForPlayers"]
  /\ ready' = [ready EXCEPT ![r] = {}]
  /\ UNCHANGED <<sessionVars, playerVars, plRoom, nextRoom, stageOf, members,
                 listed, wave>>

\* The last wave is over or the wall has fallen: EndStage, and
\* ResetStageState at the end of the same update.
StageOver(r) ==
  /\ gameState[r] = "Wave"
  /\ stageOf[r] # NoStage
  /\ gameState' = [gameState EXCEPT ![r] = "WaitingForPlayers"]
  /\ wave' = [wave EXCEPT ![r] = 0]
  /\ ready' = [ready EXCEPT ![r] = {}]
  /\ UNCHANGED <<sessionVars, playerVars, plRoom, nextRoom, stageOf, members, listed>>

-----------------------------------------------------------------------------
\* Steps in which the process goes on.
Step ==
  \/ \E s \in Sessions :
       \/ Accept(s) \/ Login(s) \/ LoadScene(s) \/ StartWave(s)
       \/ ReadFailed(s) \/ WriteFailed(s) \/ LateReadDone(s)
  \/ \E r \in RoomIds : WaveOver(r) \/ StageOver(r)

Next ==
  /\ ~crashed
  /\ \/ Step /\ UNCHANGED crashed
     \/ \E s \in Sessions, st \in StageIds : JoinRoom(s, st)

Spec == Init /\ [][Next]_vars

-----------------------------------------------------------------------------
(* Properties of every client *)

\* Every variable stays in its type; in particular m_currentWave never passes
\* the number of waves (WaveManager::StartWave's guard).
TypeOK ==
  /\ conn \in [Sessions -> {"fresh", "open", "closed"}]
  /\ lateRead \in [Sessions -> BOOLEAN]
  /\ sessPlayer \in [Sessions -> PlayerIds \cup {NoPlayer}]
  /\ nextPlayer \in 1 .. MaxPlayers + 1
  /\ registered \in SUBSET PlayerIds
  /\ plSession \in [PlayerIds -> Sessions \cup {NoSession}]
  /\ plRoom \in [PlayerIds -> RoomIds \cup {NoRoom}]
  /\ nextRoom \in 1 .. MaxRooms + 1
  /\ stageOf \in [RoomIds -> Stages \cup {NoStage}]
  /\ members \in [RoomIds -> SUBSET PlayerIds]
  /\ listed \in [RoomIds -> SUBSET PlayerIds]
  /\ ready \in [RoomIds -> SUBSET PlayerIds]
  /\ gameState \in [RoomIds -> GameStates]
  /\ wave \in [RoomIds -> 0 .. NumWaves]
  /\ crashed \in BOOLEAN

\* The three places that say who is in a room agree whatever the clients do:
\* a player's m_room is a room that lists the player, and m_playerReady has
\* exactly the keys of m_players (Enter, Leave and PlayerReadyCheck each write
\* them on their own), so nobody outside a room can hold its waves back.
MembershipMirror ==
  /\ \A p \in PlayerIds : plRoom[p] # NoRoom => p \in members[plRoom[p]]
  /\ \A r \in RoomIds : listed[r] = members[r] /\ ready[r] \subseteq listed[r]

\* A room never holds more than two players, and a room whose game is under
\* way holds at least one: Leave by the last player ends the stage at once,
\* so no room plays on for nobody (Room::CanEnter, Enter, Leave).
RoomOccupancy ==
  \A r \in RoomIds :
    /\ Cardinality(members[r]) <= 2
    /\ gameState[r] # "WaitingForPlayers" => members[r] # {}

\* A room that takes players has no trace of an earlier stage: its wave counter
\* is 0 on every way back to WaitingForPlayers (Leave of the last player, end of
\* the stage); between waves there always is a next wave to start; and a room
\* in a wave has started one, so waves[m_currentWave - 1] exists.  A room made
\* for an unknown stage id may be put into a wave by its only player, but its
\* counter never moves and nobody joins it: it never opens for building, where
\* SpawnMinion would read its tiles, nor does it start a wave it has not got.
WaveMatchesState ==
  \A r \in RoomIds :
    /\ gameState[r] = "WaitingForPlayers" => wave[r] = 0
    /\ gameState[r] = "Intermission" => stageOf[r] # NoStage /\ wave[r] < NumWaves
    /\ gameState[r] = "Wave" => (wave[r] > 0 <=> stageOf[r] # NoStage)

\* A wave starts only with the packet that completes the ready flags of the
\* room: those of all other players were set already, be it by a StartWave or
\* by a LoadScene of theirs (the two share the flags), and the start uses them
\* all up, so that what counted for one wave cannot also count for the next
\* one (PlayerReadyCheck).
WaveNeedsEveryone ==
  [][\A r \in RoomIds :
       wave'[r] > wave[r] =>
         /\ \E p \in members[r] : members[r] \ {p} \subseteq ready[r]
         /\ ready'[r] = {}]_vars

\* Room r as RoomLife describes a room whose stage has n waves.
Life(r, n) ==
  INSTANCE RoomLife WITH Players <- PlayerIds, NumWaves <- n, seated <- members[r],
                         phase <- gameState[r], wave <- wave[r]

\* Every room lives the life of RoomLife, whatever the sessions do: what
\* happens to players, ready flags and connections never lets a room skip a
\* wave, start one with nobody in it or be left by more than one way.  A room
\* that is made for an unknown stage id lives the life of a stage of no waves.
RoomsLive ==
  /\ \A r \in RoomIds : Life(r, 0)!Init /\ Life(r, NumWaves)!Init
  /\ [][\A r \in RoomIds :
          IF stageOf'[r] = NoStage
          THEN [Life(r, 0)!Next]_(Life(r, 0)!vars)
          ELSE [Life(r, NumWaves)!Next]_(Life(r, NumWaves)!vars)]_vars

-----------------------------------------------------------------------------
(* A property of the polite clients, whatever the others do *)

\* The player is the one its open session speaks for.
Connected(p) ==
  /\ plSession[p] \in Sessions
  /\ conn[plSession[p]] = "open"
  /\ sessPlayer[plSession[p]] = p

\* A polite client's player that PlayerManager holds has a live session behind
\* it, and one that sits in a room is registered, has a live session to send
\* to (Room's broadcasts dereference Player::GetSession()) and is in that room
\* only: a disconnect takes the player out of all three tables.  Clients that
\* log in twice, join twice or are cut off late share the rooms and break
\* nothing of it.
NoGhosts ==
  \A p \in CreatedPlayers : plSession[p] \in Polite =>
    /\ p \in registered => Connected(p)
    /\ \A r \in RoomIds :
         p \in members[r] => p \in registered /\ Connected(p) /\ plRoom[p] = r

=============================================================================
