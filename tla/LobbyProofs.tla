---------------------------- MODULE LobbyProofs ----------------------------
(***************************************************************************)
(* Proofs about Lobby for any number of sessions, players, rooms, stages    *)
(* and waves, and for clients of every kind.  The inductive invariant is    *)
(* Inv, the conjunction of four of the invariants the run checks and of     *)
(* FreshRooms: StartWave keeps a room with a game occupied only because the *)
(* player's m_room lists the player (MembershipMirror), a wave has a number *)
(* within the stage only because a waiting room has been reset              *)
(* (WaveMatchesState), and a room of an unknown stage stays with its first  *)
(* player because it was empty when it was made (FreshRooms).  What polite  *)
(* clients are promised (NoGhosts) needs PoliteInv besides: a player and    *)
(* its session point at each other, and only at each other.                 *)
(***************************************************************************)
EXTENDS Lobby, TLAPS, FiniteSetTheorems

\* A room that has not been made yet is nobody's and has no stage.
FreshRooms == \A r \in RoomIds \ CreatedRooms : members[r] = {} /\ stageOf[r] = NoStage

Inv == TypeOK /\ MembershipMirror /\ RoomOccupancy /\ WaveMatchesState /\ FreshRooms

USE DEF PlayerIds, RoomIds, GameStates

-----------------------------------------------------------------------------
(* Lemmas about the operations on a room *)

\* A set of players is finite, and taking one more in or out counts as it should.
LEMMA PlayersFinite ==
  ASSUME NEW S \in SUBSET PlayerIds, NEW p
  PROVE  /\ IsFiniteSet(S)
         /\ Cardinality(S) \in Nat
         /\ Cardinality(S \cup {p}) = IF p \in S THEN Cardinality(S) ELSE Cardinality(S) + 1
         /\ Cardinality(S \ {p}) <= Cardinality(S)
<1>1. IsFiniteSet(PlayerIds)
  BY FS_Interval, BoundsAssumption
<1>2. IsFiniteSet(S)
  BY <1>1, FS_Subset
<1>3. Cardinality(S) \in Nat
  BY <1>2, FS_CardinalityType
<1>4. Cardinality(S \cup {p}) = IF p \in S THEN Cardinality(S) ELSE Cardinality(S) + 1
  BY <1>2, FS_AddElement
<1>5. Cardinality(S \ {p}) = IF p \in S THEN Cardinality(S) - 1 ELSE Cardinality(S)
  BY <1>2, FS_RemoveElement
<1>6. Cardinality(S \ {p}) <= Cardinality(S)
  BY <1>3, <1>5
<1> QED
  BY <1>2, <1>3, <1>4, <1>6

\* The empty set counts 0.
LEMMA NoPlayers == Cardinality({}) = 0
  BY FS_EmptySet

\* A server that has just started satisfies the invariant.
THEOREM InitInv == Init => Inv
<1> SUFFICES ASSUME Init PROVE Inv
  OBVIOUS
<1>1. TypeOK
  <2>1. /\ nextPlayer \in 1 .. MaxPlayers + 1
        /\ nextRoom \in 1 .. MaxRooms + 1
        /\ wave \in [RoomIds -> 0 .. NumWaves]
    BY BoundsAssumption DEF Init
  <2> QED
    BY <2>1 DEF Init, TypeOK
<1>2. MembershipMirror
  BY BoundsAssumption DEF Init, MembershipMirror
<1>3. RoomOccupancy
  BY NoPlayers DEF Init, RoomOccupancy
<1>4. WaveMatchesState
  BY BoundsAssumption DEF Init, WaveMatchesState
<1>5. FreshRooms
  BY DEF Init, FreshRooms
<1> QED
  BY <1>1, <1>2, <1>3, <1>4, <1>5 DEF Inv

\* Room::Enter keeps a room consistent, whatever room the player was in before;
\* r has a stage, or p is the first to enter it.
LEMMA EnterKeepsInv ==
  ASSUME Inv, NEW p \in PlayerIds, NEW r \in RoomIds, Enter(p, r),
         \A x \in RoomIds \ {r} : stageOf'[x] = stageOf[x],
         stageOf'[r] # NoStage \/ members[r] = {}
  PROVE  /\ members' \in [RoomIds -> SUBSET PlayerIds]
         /\ plRoom' \in [PlayerIds -> RoomIds \cup {NoRoom}]
         /\ listed' \in [RoomIds -> SUBSET PlayerIds]
         /\ ready' \in [RoomIds -> SUBSET PlayerIds]
         /\ gameState' \in [RoomIds -> GameStates]
         /\ MembershipMirror' /\ RoomOccupancy' /\ WaveMatchesState'
<1> USE DEF Inv, Enter, CanEnter
<1>1. /\ members' \in [RoomIds -> SUBSET PlayerIds]
      /\ plRoom' \in [PlayerIds -> RoomIds \cup {NoRoom}]
      /\ listed' \in [RoomIds -> SUBSET PlayerIds]
      /\ ready' \in [RoomIds -> SUBSET PlayerIds]
      /\ gameState' \in [RoomIds -> GameStates]
  BY DEF TypeOK
<1>2. MembershipMirror'
  <2>1. ASSUME NEW q \in PlayerIds, plRoom'[q] # NoRoom
        PROVE  q \in members'[plRoom'[q]]
    <3>1. CASE q = p
      BY <3>1 DEF TypeOK
    <3>2. CASE q # p
      <4>1. plRoom'[q] = plRoom[q] /\ plRoom[q] \in RoomIds
        BY <2>1, <3>2 DEF TypeOK
      <4>2. q \in members[plRoom[q]]
        BY <2>1, <4>1 DEF MembershipMirror
      <4> QED
        BY <4>1, <4>2 DEF TypeOK
    <3> QED
      BY <3>1, <3>2
  <2>2. \A x \in RoomIds : listed'[x] = members'[x] /\ ready'[x] \subseteq listed'[x]
    BY DEF TypeOK, MembershipMirror
  <2> QED
    BY <2>1, <2>2 DEF MembershipMirror
<1>3. RoomOccupancy'
  <2>1. Cardinality(members[r] \cup {p}) <= 2
    <3>1. members[r] \in SUBSET PlayerIds
      BY DEF TypeOK
    <3>2. Cardinality(members[r]) \in Nat /\ Cardinality(members[r]) < 2
      BY <3>1, PlayersFinite
    <3>3. Cardinality(members[r] \cup {p}) \in
            {Cardinality(members[r]), Cardinality(members[r]) + 1}
      BY <3>1, PlayersFinite
    <3> QED
      BY <3>2, <3>3
  <2> QED
    BY <2>1 DEF TypeOK, RoomOccupancy
<1>4. WaveMatchesState'
  <2>1. \A x \in RoomIds \ {r} :
          gameState'[x] = gameState[x] /\ stageOf'[x] = stageOf[x] /\ wave'[x] = wave[x]
    BY DEF TypeOK
  <2>2. wave'[r] = 0 /\ gameState'[r] # "Wave"
    BY DEF TypeOK, WaveMatchesState
  <2>3. gameState'[r] = "Intermission" => stageOf'[r] # NoStage
    <3>1. CASE members[r] = {}
      <4>1. Cardinality(members[r] \cup {p}) = 1
        <5>1. {} \in SUBSET PlayerIds
          OBVIOUS
        <5> QED
          BY <3>1, <5>1, NoPlayers, PlayersFinite
      <4> QED
        BY <4>1 DEF TypeOK
    <3> QED
      BY <3>1
  <2> QED
    BY <2>1, <2>2, <2>3, BoundsAssumption DEF WaveMatchesState
<1> QED
  BY <1>1, <1>2, <1>3, <1>4

\* PlayerReadyCheck of a player in the room it sits in keeps m_playerReady in
\* step with m_players.
LEMMA ReadyCheckKeepsMirror ==
  ASSUME Inv, NEW p \in PlayerIds, NEW r \in RoomIds, p \in members[r],
         PlayerReadyCheck(p, r), UNCHANGED <<members, plRoom>>
  PROVE  /\ listed' \in [RoomIds -> SUBSET PlayerIds]
         /\ ready' \in [RoomIds -> SUBSET PlayerIds]
         /\ MembershipMirror'
  BY DEF Inv, TypeOK, MembershipMirror, PlayerReadyCheck

\* Room::WaveStart of a room with a player in it, and with a stage or without.
LEMMA WaveStartKeepsInv ==
  ASSUME Inv, NEW r \in RoomIds, members[r] # {}, WaveStart(r),
         UNCHANGED <<members, stageOf>>
  PROVE  /\ gameState' \in [RoomIds -> GameStates]
         /\ wave' \in [RoomIds -> 0 .. NumWaves]
         /\ RoomOccupancy' /\ WaveMatchesState'
<1> USE DEF Inv
<1>  DEFINE next == IF stageOf[r] # NoStage /\ wave[r] < NumWaves
                  THEN wave[r] + 1 ELSE wave[r]
<1>1. next \in 0 .. NumWaves /\ (next > 0 <=> stageOf[r] # NoStage)
  <2>1. wave[r] \in 0 .. NumWaves /\ NumWaves \in Nat /\ NumWaves > 0
    BY BoundsAssumption DEF TypeOK
  <2>2. stageOf[r] = NoStage => wave[r] = 0
    <3>1. gameState[r] \in GameStates
      BY DEF TypeOK
    <3> QED
      BY <2>1, <3>1 DEF WaveMatchesState
  <2>3. CASE stageOf[r] = NoStage
    BY <2>1, <2>2, <2>3
  <2>4. CASE stageOf[r] # NoStage
    BY <2>1, <2>4
  <2> QED
    BY <2>3, <2>4
<1>2. /\ gameState' = [gameState EXCEPT ![r] = "Wave"]
      /\ wave' = [wave EXCEPT ![r] = next]
  BY DEF WaveStart
<1>  HIDE DEF next
<1>3. /\ gameState' \in [RoomIds -> GameStates]
      /\ wave' \in [RoomIds -> 0 .. NumWaves]
  BY <1>1, <1>2 DEF TypeOK
<1>4. RoomOccupancy'
  BY <1>2 DEF TypeOK, RoomOccupancy
<1>5. WaveMatchesState'
  BY <1>1, <1>2 DEF TypeOK, WaveMatchesState
<1> QED
  BY <1>3, <1>4, <1>5

\* Room::Leave of a player in the room it sits in; the last one out resets it.
LEMMA LeaveKeepsInv ==
  ASSUME Inv, NEW p \in PlayerIds, NEW r \in RoomIds, plRoom[p] = r, Leave(p, r),
         UNCHANGED stageOf
  PROVE  /\ members' \in [RoomIds -> SUBSET PlayerIds]
         /\ plRoom' \in [PlayerIds -> RoomIds \cup {NoRoom}]
         /\ listed' \in [RoomIds -> SUBSET PlayerIds]
         /\ ready' \in [RoomIds -> SUBSET PlayerIds]
         /\ gameState' \in [RoomIds -> GameStates]
         /\ wave' \in [RoomIds -> 0 .. NumWaves]
         /\ MembershipMirror' /\ RoomOccupancy' /\ WaveMatchesState'
<1> USE DEF Inv, Leave
<1>1. /\ members' \in [RoomIds -> SUBSET PlayerIds]
      /\ plRoom' \in [PlayerIds -> RoomIds \cup {NoRoom}]
      /\ listed' \in [RoomIds -> SUBSET PlayerIds]
      /\ ready' \in [RoomIds -> SUBSET PlayerIds]
      /\ gameState' \in [RoomIds -> GameStates]
      /\ wave' \in [RoomIds -> 0 .. NumWaves]
  BY BoundsAssumption DEF TypeOK
<1>2. MembershipMirror'
  <2>1. ASSUME NEW q \in PlayerIds, plRoom'[q] # NoRoom
        PROVE  q \in members'[plRoom'[q]]
    <3>1. q # p /\ plRoom'[q] = plRoom[q] /\ plRoom[q] \in RoomIds
      BY <2>1 DEF TypeOK
    <3>2. q \in members[plRoom[q]]
      BY <2>1, <3>1 DEF MembershipMirror
    <3> QED
      BY <3>1, <3>2 DEF TypeOK
  <2>2. \A x \in RoomIds : listed'[x] = members'[x] /\ ready'[x] \subseteq listed'[x]
    BY DEF TypeOK, MembershipMirror
  <2> QED
    BY <2>1, <2>2 DEF MembershipMirror
<1>3. RoomOccupancy'
  <2>1. Cardinality(members[r] \ {p}) <= 2
    <3>1. members[r] \in SUBSET PlayerIds
      BY DEF TypeOK
    <3>2. /\ Cardinality(members[r]) \in Nat
          /\ Cardinality(members[r] \ {p}) \in Nat
          /\ Cardinality(members[r] \ {p}) <= Cardinality(members[r])
      BY <3>1, PlayersFinite
    <3>3. Cardinality(members[r]) <= 2
      BY DEF RoomOccupancy
    <3> QED
      BY <3>2, <3>3
  <2> QED
    BY <2>1 DEF TypeOK, RoomOccupancy
<1>4. WaveMatchesState'
  BY BoundsAssumption DEF TypeOK, WaveMatchesState
<1> QED
  BY <1>1, <1>2, <1>3, <1>4

-----------------------------------------------------------------------------
(* Every step keeps the invariant: one step per action *)

\* Inv is inductive: no handler, completion or tick breaks it.
THEOREM NextInv == Inv /\ [Next]_vars => Inv'
<1> SUFFICES ASSUME Inv, [Next]_vars
             PROVE  Inv'
  OBVIOUS
<1> USE BoundsAssumption DEF Inv
<1>1. ASSUME NEW s \in Sessions, Accept(s), UNCHANGED crashed
      PROVE  Inv'
  BY <1>1 DEF Accept, TypeOK, MembershipMirror, RoomOccupancy, WaveMatchesState,
              FreshRooms, CreatedRooms, playerVars, roomVars
<1>2. ASSUME NEW s \in Sessions, Login(s), UNCHANGED crashed
      PROVE  Inv'
  BY <1>2 DEF Login, TypeOK, MembershipMirror, RoomOccupancy, WaveMatchesState,
              FreshRooms, CreatedRooms, roomVars
<1>3. ASSUME NEW s \in Sessions, NEW st \in StageIds, JoinRoom(s, st)
      PROVE  Inv'
  <2> DEFINE p == sessPlayer[s]
  <2>1. p \in PlayerIds
    BY <1>3 DEF JoinRoom, TypeOK
  <2>2. CASE \E r \in Joinable(st) : Enter(p, r) /\ UNCHANGED <<nextRoom, stageOf, crashed>>
    <3>1. PICK r \in Joinable(st) : Enter(p, r) /\ UNCHANGED <<nextRoom, stageOf, crashed>>
      BY <2>2
    <3>2. r \in RoomIds /\ r \in CreatedRooms /\ stageOf[r] # NoStage
      BY DEF Joinable, CreatedRooms, TypeOK
    <3>3. /\ members' \in [RoomIds -> SUBSET PlayerIds]
          /\ plRoom' \in [PlayerIds -> RoomIds \cup {NoRoom}]
          /\ listed' \in [RoomIds -> SUBSET PlayerIds]
          /\ ready' \in [RoomIds -> SUBSET PlayerIds]
          /\ gameState' \in [RoomIds -> GameStates]
          /\ MembershipMirror' /\ RoomOccupancy' /\ WaveMatchesState'
      BY <2>1, <3>1, <3>2, EnterKeepsInv
    <3>4. UNCHANGED <<conn, lateRead, sessPlayer, nextPlayer, registered, plSession, wave>>
      BY <1>3, <3>1 DEF JoinRoom, sessionVars, playerVars, Enter
    <3>5. FreshRooms'
      BY <3>1, <3>2 DEF FreshRooms, CreatedRooms, Enter, TypeOK
    <3> QED
      BY <3>1, <3>3, <3>4, <3>5 DEF TypeOK
  <2>3. CASE /\ nextRoom \in RoomIds
             /\ nextRoom' = nextRoom + 1
             /\ stageOf' = [stageOf EXCEPT ![nextRoom] = GetStage(st)]
             /\ Enter(p, nextRoom)
             /\ UNCHANGED crashed
    <3>1. members[nextRoom] = {} /\ \A x \in RoomIds \ {nextRoom} : stageOf'[x] = stageOf[x]
      BY <2>3 DEF FreshRooms, CreatedRooms, TypeOK
    <3>2. /\ members' \in [RoomIds -> SUBSET PlayerIds]
          /\ plRoom' \in [PlayerIds -> RoomIds \cup {NoRoom}]
          /\ listed' \in [RoomIds -> SUBSET PlayerIds]
          /\ ready' \in [RoomIds -> SUBSET PlayerIds]
          /\ gameState' \in [RoomIds -> GameStates]
          /\ MembershipMirror' /\ RoomOccupancy' /\ WaveMatchesState'
      BY <2>1, <2>3, <3>1, EnterKeepsInv
    <3>3. /\ nextRoom' \in 1 .. MaxRooms + 1
          /\ stageOf' \in [RoomIds -> Stages \cup {NoStage}]
      BY <2>3 DEF TypeOK, GetStage
    <3>4. UNCHANGED <<conn, lateRead, sessPlayer, nextPlayer, registered, plSession, wave>>
      BY <1>3, <2>3 DEF JoinRoom, sessionVars, playerVars, Enter
    <3>5. FreshRooms'
      <4>1. nextRoom \in CreatedRooms' /\ CreatedRooms \subseteq CreatedRooms'
        BY <2>3 DEF CreatedRooms, TypeOK
      <4> QED
        BY <2>3, <4>1 DEF FreshRooms, Enter, TypeOK
    <3> QED
      BY <2>3, <3>2, <3>3, <3>4, <3>5 DEF TypeOK
  <2>4. CASE crashed' = TRUE /\ UNCHANGED <<plRoom, roomVars>>
    BY <1>3, <2>4 DEF JoinRoom, sessionVars, playerVars, roomVars, TypeOK,
                      MembershipMirror, RoomOccupancy, WaveMatchesState, FreshRooms,
                      CreatedRooms
  <2> QED
    BY <1>3, <2>2, <2>3, <2>4 DEF JoinRoom
<1>4. ASSUME NEW s \in Sessions, LoadScene(s), UNCHANGED crashed
      PROVE  Inv'
  <2> DEFINE p == sessPlayer[s]
  <2>1. p \in PlayerIds /\ plRoom[p] \in RoomIds /\ p \in members[plRoom[p]]
    BY <1>4 DEF LoadScene, TypeOK, MembershipMirror
  <2> QED
    BY <1>4, <2>1, ReadyCheckKeepsMirror
    DEF LoadScene, TypeOK, RoomOccupancy, WaveMatchesState, FreshRooms, CreatedRooms,
        sessionVars, playerVars
<1>5. ASSUME NEW s \in Sessions, StartWave(s), UNCHANGED crashed
      PROVE  Inv'
  <2> DEFINE p == sessPlayer[s]
             r == plRoom[p]
  <2>1. p \in PlayerIds /\ r \in RoomIds /\ p \in members[r]
    BY <1>5 DEF StartWave, TypeOK, MembershipMirror
  <2>2. /\ listed' \in [RoomIds -> SUBSET PlayerIds]
        /\ ready' \in [RoomIds -> SUBSET PlayerIds]
        /\ MembershipMirror'
    BY <1>5, <2>1, ReadyCheckKeepsMirror DEF StartWave
  <2>3. CASE WaveStart(r)
    BY <1>5, <2>1, <2>2, <2>3, WaveStartKeepsInv
    DEF StartWave, TypeOK, FreshRooms, CreatedRooms, sessionVars, playerVars
  <2>4. CASE UNCHANGED <<gameState, wave>>
    BY <1>5, <2>2, <2>4
    DEF StartWave, TypeOK, RoomOccupancy, WaveMatchesState, FreshRooms, CreatedRooms,
        sessionVars, playerVars
  <2> QED
    BY <1>5, <2>3, <2>4 DEF StartWave
<1>6. ASSUME NEW s \in Sessions, Disconnect(s), UNCHANGED crashed,
             lateRead' \in [Sessions -> BOOLEAN]
      PROVE  Inv'
  <2> DEFINE p == sessPlayer[s]
  <2>1. CASE p # NoPlayer /\ plRoom[p] # NoRoom /\ p \in members[plRoom[p]]
    <3>1. p \in PlayerIds /\ plRoom[p] \in RoomIds
      BY <2>1 DEF TypeOK
    <3>2. Leave(p, plRoom[p])
      BY <1>6, <2>1 DEF Disconnect, LeaveCurrentRoom
    <3>3. /\ members' \in [RoomIds -> SUBSET PlayerIds]
          /\ plRoom' \in [PlayerIds -> RoomIds \cup {NoRoom}]
          /\ listed' \in [RoomIds -> SUBSET PlayerIds]
          /\ ready' \in [RoomIds -> SUBSET PlayerIds]
          /\ gameState' \in [RoomIds -> GameStates]
          /\ wave' \in [RoomIds -> 0 .. NumWaves]
          /\ MembershipMirror' /\ RoomOccupancy' /\ WaveMatchesState'
      BY <1>6, <3>1, <3>2, LeaveKeepsInv DEF Disconnect
    <3>4. FreshRooms'
      <4>1. members' = [members EXCEPT ![plRoom[p]] = members[plRoom[p]] \ {p}]
        BY <3>2 DEF Leave
      <4> QED
        BY <1>6, <3>1, <4>1 DEF Disconnect, TypeOK, FreshRooms, CreatedRooms
    <3> QED
      BY <1>6, <3>3, <3>4 DEF Disconnect, TypeOK
  <2>2. CASE ~(p # NoPlayer /\ plRoom[p] # NoRoom /\ p \in members[plRoom[p]])
    <3>1. /\ UNCHANGED <<plRoom, members, listed, ready, gameState, wave>>
          /\ registered' \in SUBSET PlayerIds
      BY <1>6, <2>2 DEF Disconnect, LeaveCurrentRoom, TypeOK
    <3> QED
      BY <1>6, <3>1 DEF Disconnect, TypeOK, MembershipMirror, RoomOccupancy,
                        WaveMatchesState, FreshRooms, CreatedRooms
  <2> QED
    BY <2>1, <2>2
<1>7. ASSUME NEW s \in Sessions, ReadFailed(s), UNCHANGED crashed
      PROVE  Inv'
  BY <1>6, <1>7 DEF ReadFailed, TypeOK
<1>8. ASSUME NEW s \in Sessions, WriteFailed(s), UNCHANGED crashed
      PROVE  Inv'
  <2>1. Disconnect(s)
    BY <1>8 DEF WriteFailed
  <2>2. lateRead' \in [Sessions -> BOOLEAN]
    BY <1>8 DEF WriteFailed, TypeOK
  <2> QED
    BY <1>6, <1>8, <2>1, <2>2
<1>9. ASSUME NEW s \in Sessions, LateReadDone(s), UNCHANGED crashed
      PROVE  Inv'
  BY <1>9 DEF LateReadDone, TypeOK, MembershipMirror, RoomOccupancy, WaveMatchesState,
              FreshRooms, CreatedRooms, playerVars, roomVars
<1>10. ASSUME NEW r \in RoomIds, WaveOver(r), UNCHANGED crashed
       PROVE  Inv'
  BY <1>10 DEF WaveOver, TypeOK, MembershipMirror, RoomOccupancy, WaveMatchesState,
               FreshRooms, CreatedRooms, sessionVars, playerVars
<1>11. ASSUME NEW r \in RoomIds, StageOver(r), UNCHANGED crashed
       PROVE  Inv'
  BY <1>11 DEF StageOver, TypeOK, MembershipMirror, RoomOccupancy, WaveMatchesState,
               FreshRooms, CreatedRooms, sessionVars, playerVars
<1>12. CASE UNCHANGED vars
  BY <1>12 DEF vars, sessionVars, playerVars, roomVars, TypeOK, MembershipMirror,
               RoomOccupancy, WaveMatchesState, FreshRooms, CreatedRooms
<1>13. CASE Step /\ UNCHANGED crashed
  BY <1>1, <1>2, <1>4, <1>5, <1>7, <1>8, <1>9, <1>10, <1>11, <1>13 DEF Step
<1> QED
  BY <1>3, <1>12, <1>13 DEF Next

\* The first four invariants of lobby hold in every reachable state: types, the
\* three membership tables agree, rooms are never over-full nor play for nobody,
\* and the wave counter fits the state of the room, with a stage or without.
THEOREM LobbyInv == Spec => []Inv
  BY InitInv, NextInv, PTL DEF Spec

\* TypeOK, with m_currentWave never past the number of waves.
THEOREM LobbyTypes == Spec => []TypeOK
  BY LobbyInv, PTL DEF Inv

\* Player::m_room, Room::m_players and Room::m_playerReady agree.
THEOREM LobbyMirror == Spec => []MembershipMirror
  BY LobbyInv, PTL DEF Inv

\* At most two players in a room, at least one while its game is under way.
THEOREM LobbyOccupancy == Spec => []RoomOccupancy
  BY LobbyInv, PTL DEF Inv

\* A waiting room is at wave 0, an intermission has a stage with a next wave, a
\* wave has a number if and only if the room has a stage.
THEOREM LobbyWaves == Spec => []WaveMatchesState
  BY LobbyInv, PTL DEF Inv

-----------------------------------------------------------------------------
(* A wave starts only with the packet that completes the ready flags *)

\* The step of WaveNeedsEveryone, for one room.
LEMMA StepNeedsEveryone ==
  ASSUME Inv, [Next]_vars, NEW r \in RoomIds, wave'[r] > wave[r]
  PROVE  /\ \E p \in members[r] : members[r] \ {p} \subseteq ready[r]
         /\ ready'[r] = {}
<1> USE BoundsAssumption DEF Inv
<1>1. wave[r] \in Nat /\ wave[r] >= 0
  BY DEF TypeOK
<1>2. wave' # wave /\ wave'[r] # 0
  BY <1>1
<1>3. \A s \in Sessions : ~Accept(s) /\ ~Login(s) /\ ~LoadScene(s) /\ ~LateReadDone(s)
  BY <1>2 DEF Accept, Login, LoadScene, LateReadDone, roomVars
<1>4. \A s \in Sessions, st \in StageIds : ~JoinRoom(s, st)
  BY <1>2 DEF JoinRoom, Enter, roomVars
<1>5. \A s \in Sessions : ~ReadFailed(s) /\ ~WriteFailed(s)
  <2>1. ASSUME NEW s \in Sessions, Disconnect(s)
        PROVE  FALSE
    <3>1. PICK x \in RoomIds, n \in Nat :
             /\ n = wave[x] \/ n = 0
             /\ wave' = [wave EXCEPT ![x] = n]
      <4>1. \A y \in RoomIds : wave[y] \in Nat /\ wave = [wave EXCEPT ![y] = wave[y]]
        BY DEF TypeOK
      <4>2. CASE UNCHANGED wave
        BY <4>1, <4>2
      <4>3. CASE ~UNCHANGED wave
        <5> DEFINE p == sessPlayer[s]
        <5>1. plRoom[p] \in RoomIds /\ Leave(p, plRoom[p])
          BY <2>1, <4>3 DEF Disconnect, LeaveCurrentRoom, TypeOK
        <5> QED
          BY <4>1, <5>1 DEF Leave
      <4> QED
        BY <4>2, <4>3
    <3>2. wave \in [RoomIds -> Nat]
      BY DEF TypeOK
    <3> QED
      BY <1>1, <1>2, <3>1, <3>2
  <2> QED
    BY <2>1 DEF ReadFailed, WriteFailed
<1>6. \A x \in RoomIds : ~WaveOver(x) /\ ~StageOver(x)
  BY <1>1, <1>2 DEF WaveOver, StageOver, TypeOK
<1>7. wave' # wave => \E s \in Sessions : StartWave(s)
  BY <1>2, <1>3, <1>4, <1>5, <1>6 DEF Next, Step, vars, roomVars
<1>8. PICK s \in Sessions : StartWave(s)
  BY <1>2, <1>7
<1> DEFINE p == sessPlayer[s]
<1>9. p \in PlayerIds /\ plRoom[p] \in RoomIds /\ p \in members[plRoom[p]]
  BY <1>8 DEF StartWave, TypeOK, MembershipMirror
<1>10. plRoom[p] = r /\ AllReady(p, r)
  <2>1. wave \in [RoomIds -> Nat] /\ wave'[r] # wave[r]
    BY <1>1 DEF TypeOK
  <2>2. AllReady(p, plRoom[p]) /\ WaveStart(plRoom[p])
    BY <1>2, <1>8 DEF StartWave
  <2>3. plRoom[p] = r
    BY <2>1, <2>2 DEF WaveStart
  <2> QED
    BY <2>2, <2>3
<1>11. members[r] \ {p} \subseteq ready[r]
  BY <1>10 DEF AllReady, MembershipMirror
<1>12. ready'[r] = {}
  BY <1>8, <1>10 DEF StartWave, PlayerReadyCheck, TypeOK
<1> QED
  BY <1>9, <1>10, <1>11, <1>12

\* WaveNeedsEveryone: the step that raises m_currentWave is a StartWave that
\* completes the ready flags of its room (those of the others may come from a
\* LoadScene as well), and it uses all flags up.
THEOREM LobbyWaveNeedsEveryone == Spec => WaveNeedsEveryone
<1>1. Inv /\ [Next]_vars =>
        [\A r \in RoomIds :
           wave'[r] > wave[r] =>
             /\ \E p \in members[r] : members[r] \ {p} \subseteq ready[r]
             /\ ready'[r] = {}]_vars
  BY StepNeedsEveryone
<1> QED
  BY <1>1, LobbyInv, PTL DEF Spec, WaveNeedsEveryone

-----------------------------------------------------------------------------
(* Every room lives the life of RoomLife *)

\* RoomLife counts the players in a room as Lobby does.
LEMMA SameCount ==
  ASSUME NEW r, NEW n, NEW S
  PROVE  Life(r, n)!Cardinality(S) = Cardinality(S)
  BY DEF Life!Cardinality, Cardinality

\* A step of Lobby is a step of RoomLife or a stutter for every room; n is the
\* number of waves of its stage.
LEMMA StepIsLife ==
  ASSUME Inv, [Next]_vars, NEW r \in RoomIds, NEW n \in Nat,
         n = IF stageOf'[r] = NoStage THEN 0 ELSE NumWaves
  PROVE  [Life(r, n)!Next]_(Life(r, n)!vars)
<1> USE BoundsAssumption DEF Inv
<1> USE DEF Life!vars
<1>1. ASSUME UNCHANGED <<members, gameState, wave>>
      PROVE  UNCHANGED Life(r, n)!vars
  BY <1>1
<1>2. ASSUME NEW s \in Sessions,
             Accept(s) \/ Login(s) \/ LoadScene(s) \/ LateReadDone(s)
      PROVE  UNCHANGED Life(r, n)!vars
  BY <1>1, <1>2 DEF Accept, Login, LoadScene, LateReadDone, roomVars
<1>3. ASSUME NEW p \in PlayerIds, NEW x \in RoomIds, Enter(p, x)
      PROVE  [Life(r, n)!Join(p)]_(Life(r, n)!vars)
  <2>1. CASE x = r
    <3>1. /\ members'[r] = members[r] \cup {p}
          /\ gameState'[r] = IF Cardinality(members[r] \cup {p}) = 2
                             THEN "Intermission" ELSE gameState[r]
          /\ wave'[r] = wave[r]
      BY <1>3, <2>1 DEF Enter, TypeOK
    <3>2. gameState[r] = "WaitingForPlayers" /\ Cardinality(members[r]) < 2
      BY <1>3, <2>1 DEF Enter, CanEnter
    <3>3. gameState'[r] = IF Cardinality(members'[r]) = 2
                          THEN "Intermission" ELSE gameState[r]
      BY <3>1
    <3>4. Life(r, n)!Join(p)
      BY <3>1, <3>2, <3>3, SameCount DEF Life!Join
    <3> QED
      BY <3>4
  <2>2. CASE x # r
    BY <1>3, <2>2 DEF Enter, TypeOK
  <2> QED
    BY <2>1, <2>2
<1>4. ASSUME NEW s \in Sessions, NEW st \in StageIds, JoinRoom(s, st)
      PROVE  [Life(r, n)!Next]_(Life(r, n)!vars)
  <2>1. sessPlayer[s] \in PlayerIds
    BY <1>4 DEF JoinRoom, TypeOK
  <2>2. Joinable(st) \subseteq RoomIds
    BY DEF Joinable, CreatedRooms, TypeOK
  <2>3. CASE UNCHANGED roomVars
    BY <1>1, <2>3 DEF roomVars
  <2>4. CASE \E x \in RoomIds : Enter(sessPlayer[s], x)
    BY <1>3, <2>1, <2>4 DEF Life!Next
  <2> QED
    BY <1>4, <2>2, <2>3, <2>4 DEF JoinRoom
<1>5. ASSUME NEW s \in Sessions, StartWave(s)
      PROVE  [Life(r, n)!Next]_(Life(r, n)!vars)
  <2> DEFINE x == plRoom[sessPlayer[s]]
  <2>1. x \in RoomIds /\ members[x] # {} /\ UNCHANGED members
    BY <1>5 DEF StartWave, TypeOK, MembershipMirror
  <2>2. CASE WaveStart(x) /\ x = r
    <3>1. wave[r] \in 0 .. NumWaves /\ stageOf'[r] = stageOf[r]
      BY <1>5 DEF StartWave, TypeOK
    <3>2. wave'[r] = IF wave[r] < n THEN wave[r] + 1 ELSE wave[r]
      BY <2>2, <3>1 DEF WaveStart, TypeOK
    <3> QED
      BY <2>1, <2>2, <3>2 DEF WaveStart, TypeOK, Life!StartWave, Life!Next
  <2>3. CASE WaveStart(x) /\ x # r
    BY <2>1, <2>3 DEF WaveStart, TypeOK
  <2>4. CASE UNCHANGED <<gameState, wave>>
    BY <1>1, <2>1, <2>4
  <2> QED
    BY <1>5, <2>2, <2>3, <2>4 DEF StartWave
<1>6. ASSUME NEW s \in Sessions, Disconnect(s)
      PROVE  [Life(r, n)!Next]_(Life(r, n)!vars)
  <2> DEFINE p == sessPlayer[s]
             x == plRoom[p]
  <2>1. CASE p # NoPlayer /\ x # NoRoom /\ p \in members[x]
    <3>1. p \in PlayerIds /\ x \in RoomIds /\ Leave(p, x)
      BY <1>6, <2>1 DEF Disconnect, LeaveCurrentRoom, TypeOK
    <3>2. CASE x = r
      BY <2>1, <3>1, <3>2 DEF Leave, TypeOK, Life!Leave, Life!Next
    <3>3. CASE x # r
      BY <3>1, <3>3 DEF Leave, TypeOK
    <3> QED
      BY <3>2, <3>3
  <2>2. CASE ~(p # NoPlayer /\ x # NoRoom /\ p \in members[x])
    BY <1>1, <1>6, <2>2 DEF Disconnect, LeaveCurrentRoom
  <2> QED
    BY <2>1, <2>2
<1>7. ASSUME NEW s \in Sessions, ReadFailed(s) \/ WriteFailed(s)
      PROVE  [Life(r, n)!Next]_(Life(r, n)!vars)
  BY <1>6, <1>7 DEF ReadFailed, WriteFailed
<1>8. ASSUME NEW x \in RoomIds, WaveOver(x)
      PROVE  [Life(r, n)!Next]_(Life(r, n)!vars)
  BY <1>8 DEF WaveOver, TypeOK, Life!EndWave, Life!Next
<1>9. ASSUME NEW x \in RoomIds, StageOver(x)
      PROVE  [Life(r, n)!Next]_(Life(r, n)!vars)
  BY <1>9 DEF StageOver, TypeOK, Life!EndStage, Life!Next
<1>10. CASE UNCHANGED vars
  BY <1>1, <1>10 DEF vars, roomVars
<1>11. CASE Step
  BY <1>2, <1>5, <1>7, <1>8, <1>9, <1>11 DEF Step
<1> QED
  BY <1>4, <1>10, <1>11 DEF Next

\* RoomsLive: every room of Lobby implements RoomLife.
THEOREM LobbyRoomsLive == Spec => RoomsLive
<1>1. Init => \A r \in RoomIds : Life(r, 0)!Init /\ Life(r, NumWaves)!Init
  BY DEF Init, Life!Init
<1>2. Inv /\ [Next]_vars =>
        [\A r \in RoomIds :
           IF stageOf'[r] = NoStage
           THEN [Life(r, 0)!Next]_(Life(r, 0)!vars)
           ELSE [Life(r, NumWaves)!Next]_(Life(r, NumWaves)!vars)]_vars
  <2>1. 0 \in Nat /\ NumWaves \in Nat
    BY BoundsAssumption
  <2> QED
    BY <2>1, StepIsLife
<1> QED
  BY <1>1, <1>2, LobbyInv, PTL DEF Spec, RoomsLive

-----------------------------------------------------------------------------
(* Polite clients leave no ghosts *)

\* What only a Login writes: a session's player is one that was created for it,
\* and a player nobody has created yet is in no table.
OwnPlayer ==
  /\ \A s \in Sessions : sessPlayer[s] # NoPlayer =>
       sessPlayer[s] \in CreatedPlayers /\ plSession[sessPlayer[s]] = s
  /\ \A p \in PlayerIds \ CreatedPlayers :
       /\ plSession[p] = NoSession /\ p \notin registered
       /\ \A r \in RoomIds : p \notin members[r]

\* What a polite session s and its player p say of each other.
PolitePlayer(s, p) ==
  /\ sessPlayer[s] = p
  /\ p \in registered <=> conn[s] = "open"
  /\ conn[s] # "fresh"
  /\ \A r \in RoomIds : p \in members[r] => p \in registered /\ plRoom[p] = r

PoliteInv ==
  /\ OwnPlayer
  /\ \A s \in Polite : ~lateRead[s]
  /\ \A s \in Polite, p \in CreatedPlayers : plSession[p] = s => PolitePlayer(s, p)

\* A player is created under an id of its own, and ids are only counted up.
LEMMA CreatedAreIds ==
  ASSUME TypeOK
  PROVE  /\ CreatedPlayers \subseteq PlayerIds
         /\ nextPlayer \notin CreatedPlayers
         /\ \A p \in CreatedPlayers : p # NoPlayer
  BY BoundsAssumption DEF TypeOK, CreatedPlayers

\* Steps that create no player keep OwnPlayer.
LEMMA OwnPlayerKept ==
  ASSUME OwnPlayer, UNCHANGED <<sessPlayer, nextPlayer, plSession>>,
         registered' \subseteq registered,
         \A r \in RoomIds : members'[r] \subseteq members[r] \cup CreatedPlayers
  PROVE  OwnPlayer'
  BY DEF OwnPlayer, CreatedPlayers

\* Room::Enter by another player, and no change elsewhere, keeps what a polite
\* session and its player say of each other; so does Room::Leave.
LEMMA OthersMove ==
  ASSUME TypeOK, NEW s \in Sessions, NEW p \in PlayerIds, PolitePlayer(s, p),
         NEW q \in PlayerIds, NEW x \in RoomIds, q # p,
         Enter(q, x) \/ Leave(q, x),
         sessPlayer'[s] = sessPlayer[s], conn'[s] = conn[s],
         p \in registered' <=> p \in registered
  PROVE  PolitePlayer(s, p)'
<1>1. \A r \in RoomIds : p \in members'[r] => p \in members[r]
  <2>1. members \in [RoomIds -> SUBSET PlayerIds]
    BY DEF TypeOK
  <2>2. CASE members' = [members EXCEPT ![x] = @ \cup {q}]
    BY <2>1, <2>2
  <2>3. CASE members' = [members EXCEPT ![x] = members[x] \ {q}]
    BY <2>1, <2>3
  <2> QED
    BY <2>2, <2>3 DEF Enter, Leave
<1>2. plRoom'[p] = plRoom[p]
  BY DEF TypeOK, Enter, Leave
<1> QED
  BY <1>1, <1>2 DEF PolitePlayer

\* Steps that change no room keep it too.
LEMMA NobodyMoves ==
  ASSUME NEW s, NEW p, PolitePlayer(s, p),
         UNCHANGED <<members, plRoom>>,
         sessPlayer'[s] = sessPlayer[s], conn'[s] = conn[s],
         p \in registered' <=> p \in registered
  PROVE  PolitePlayer(s, p)'
  BY DEF PolitePlayer

\* The server starts with no player at all.
LEMMA InitPolite == Init => PoliteInv
<1> SUFFICES ASSUME Init PROVE PoliteInv
  OBVIOUS
<1>1. CreatedPlayers = {}
  BY DEF Init, CreatedPlayers
<1>2. OwnPlayer
  BY <1>1 DEF Init, OwnPlayer
<1>3. \A s \in Polite : ~lateRead[s]
  BY PoliteAssumption DEF Init
<1> QED
  BY <1>1, <1>2, <1>3 DEF PoliteInv

\* A login makes one player, and for a polite session it is the first one.
LEMMA LoginPolite ==
  ASSUME Inv, PoliteInv, NEW s \in Sessions, Login(s)
  PROVE  PoliteInv'
<1> USE PoliteAssumption, BoundsAssumption DEF Inv
<1>1. /\ nextPlayer \in PlayerIds /\ nextPlayer' = nextPlayer + 1
      /\ registered' = registered \cup {nextPlayer}
      /\ plSession' = [plSession EXCEPT ![nextPlayer] = s]
      /\ sessPlayer' = [sessPlayer EXCEPT ![s] = nextPlayer]
      /\ UNCHANGED <<conn, lateRead, plRoom, members>>
  BY DEF Login, roomVars
<1>2. CreatedPlayers' = CreatedPlayers \cup {nextPlayer}
  BY <1>1 DEF CreatedPlayers, TypeOK
<1>3. \A p \in CreatedPlayers : p \in PlayerIds /\ p # nextPlayer /\ p # NoPlayer
  BY CreatedAreIds
<1>4. OwnPlayer'
  <2>1. ASSUME NEW z \in Sessions, sessPlayer'[z] # NoPlayer
        PROVE  sessPlayer'[z] \in CreatedPlayers' /\ plSession'[sessPlayer'[z]] = z
    <3>1. CASE z = s
      BY <1>1, <1>2, <3>1 DEF TypeOK
    <3>2. CASE z # s
      <4>1. sessPlayer'[z] = sessPlayer[z]
        BY <1>1, <3>2 DEF TypeOK
      <4>2. sessPlayer[z] \in CreatedPlayers /\ plSession[sessPlayer[z]] = z
        BY <2>1, <4>1 DEF PoliteInv, OwnPlayer
      <4> QED
        BY <1>1, <1>2, <1>3, <4>1, <4>2 DEF TypeOK
    <3> QED
      BY <3>1, <3>2
  <2>2. ASSUME NEW p \in PlayerIds, p \notin CreatedPlayers'
        PROVE  /\ plSession'[p] = NoSession /\ p \notin registered'
               /\ \A r \in RoomIds : p \notin members'[r]
    BY <1>1, <1>2, <2>2 DEF PoliteInv, OwnPlayer, TypeOK
  <2> QED
    BY <2>1, <2>2 DEF OwnPlayer
<1>5. ASSUME NEW z \in Polite, NEW p \in CreatedPlayers', plSession'[p] = z
      PROVE  PolitePlayer(z, p)'
  <2>1. CASE p = nextPlayer
    <3>1. z = s
      BY <1>1, <1>5, <2>1 DEF TypeOK
    <3>2. conn[s] = "open"
      BY <3>1 DEF Login, CanHandle, PoliteInv
    <3>3. \A r \in RoomIds : p \notin members[r]
      <4>1. p \notin CreatedPlayers
        BY <1>3, <2>1
      <4> QED
        BY <1>1, <2>1, <4>1 DEF PoliteInv, OwnPlayer
    <3> QED
      BY <1>1, <2>1, <3>1, <3>2, <3>3 DEF PolitePlayer, TypeOK
  <2>2. CASE p # nextPlayer
    <3>1. p \in CreatedPlayers /\ plSession[p] = z
      BY <1>1, <1>2, <1>5, <2>2, <1>3 DEF TypeOK
    <3>2. PolitePlayer(z, p)
      BY <3>1 DEF PoliteInv
    <3>3. z # s
      BY <1>3, <3>1, <3>2 DEF PolitePlayer, Login
    <3> QED
      BY <1>1, <2>2, <3>2, <3>3, NobodyMoves DEF TypeOK
  <2> QED
    BY <2>1, <2>2
<1> QED
  BY <1>1, <1>4, <1>5 DEF PoliteInv

\* Enter is only called for the player of the session that asks.
LEMMA JoinPolite ==
  ASSUME Inv, PoliteInv, NEW s \in Sessions, NEW st \in StageIds, JoinRoom(s, st),
         NEW x \in RoomIds, Enter(sessPlayer[s], x)
  PROVE  PoliteInv'
<1> USE PoliteAssumption, BoundsAssumption DEF Inv
<1> DEFINE q == sessPlayer[s]
<1>1. /\ q \in CreatedPlayers /\ q \in PlayerIds /\ plSession[q] = s
      /\ UNCHANGED <<conn, lateRead, sessPlayer, nextPlayer, registered, plSession>>
  BY CreatedAreIds DEF JoinRoom, PoliteInv, OwnPlayer, sessionVars, playerVars
<1>2. Enter(q, x)
  OBVIOUS
<1>3. OwnPlayer'
  <2>1. \A r \in RoomIds : members'[r] \subseteq members[r] \cup CreatedPlayers
    BY <1>1, <1>2 DEF Enter, TypeOK
  <2> QED
    BY <1>1, <2>1, OwnPlayerKept DEF PoliteInv
<1>4. CreatedPlayers' = CreatedPlayers
  BY <1>1 DEF CreatedPlayers
<1>5. ASSUME NEW z \in Polite, NEW p \in CreatedPlayers, plSession[p] = z
      PROVE  PolitePlayer(z, p)'
  <2>1. PolitePlayer(z, p) /\ p \in PlayerIds /\ z \in Sessions
    BY <1>5, CreatedAreIds DEF PoliteInv
  <2>2. CASE p # q
    BY <1>1, <1>2, <2>1, <2>2, OthersMove
  <2>3. CASE p = q
    <3>1. z = s /\ conn[s] = "open" /\ plRoom[p] = NoRoom
      BY <1>1, <1>5, <2>3 DEF JoinRoom, CanHandle, PoliteInv
    <3>2. \A r \in RoomIds : p \notin members[r]
      BY <2>1, <3>1 DEF PolitePlayer
    <3>3. \A r \in RoomIds : p \in members'[r] => r = x
      BY <1>2, <2>3, <3>2 DEF Enter, TypeOK
    <3>4. plRoom'[p] = x
      BY <1>2, <2>1, <2>3 DEF Enter, TypeOK
    <3>5. /\ sessPlayer'[z] = p /\ p \in registered' /\ conn'[z] = "open"
      BY <1>1, <2>1, <3>1 DEF PolitePlayer
    <3> QED
      BY <3>3, <3>4, <3>5 DEF PolitePlayer
  <2> QED
    BY <2>2, <2>3
<1> QED
  BY <1>1, <1>3, <1>4, <1>5 DEF PoliteInv

\* A disconnect takes the session's own player out, and nobody else's.
LEMMA DisconnectPolite ==
  ASSUME Inv, PoliteInv, NEW s \in Sessions, Disconnect(s),
         \A z \in Polite : ~lateRead'[z]
  PROVE  PoliteInv'
<1> USE PoliteAssumption, BoundsAssumption DEF Inv
<1> DEFINE q == sessPlayer[s]
<1>1. /\ conn[s] = "open" /\ conn' = [conn EXCEPT ![s] = "closed"]
      /\ UNCHANGED <<sessPlayer, nextPlayer, plSession>>
      /\ registered' = registered \ {q}
      /\ q # NoPlayer => q \in CreatedPlayers /\ q \in PlayerIds /\ plSession[q] = s
  <2>1. registered' = registered \ {q}
    BY DEF Disconnect, TypeOK
  <2>2. q # NoPlayer => q \in CreatedPlayers /\ q \in PlayerIds /\ plSession[q] = s
    BY CreatedAreIds DEF PoliteInv, OwnPlayer
  <2> QED
    BY <2>1, <2>2 DEF Disconnect
<1>2. \/ /\ q # NoPlayer /\ plRoom[q] \in RoomIds /\ q \in members[plRoom[q]]
         /\ Leave(q, plRoom[q])
      \/ /\ q = NoPlayer \/ plRoom[q] = NoRoom \/ q \notin members[plRoom[q]]
         /\ UNCHANGED <<members, plRoom>>
  BY <1>1 DEF Disconnect, LeaveCurrentRoom, TypeOK
<1>3. \A r \in RoomIds : members'[r] \subseteq members[r]
  <2>1. members \in [RoomIds -> SUBSET PlayerIds]
    BY DEF TypeOK
  <2>2. CASE Leave(q, plRoom[q])
    BY <2>1, <2>2 DEF Leave
  <2>3. CASE UNCHANGED members
    BY <2>3
  <2> QED
    BY <1>2, <2>2, <2>3
<1>4. OwnPlayer'
  BY <1>1, <1>3, OwnPlayerKept DEF PoliteInv
<1>5. CreatedPlayers' = CreatedPlayers
  BY <1>1 DEF CreatedPlayers
<1>6. ASSUME NEW z \in Polite, NEW p \in CreatedPlayers, plSession[p] = z
      PROVE  PolitePlayer(z, p)'
  <2>1. PolitePlayer(z, p) /\ p \in PlayerIds /\ z \in Sessions
    BY <1>6, CreatedAreIds DEF PoliteInv
  <2>2. CASE p # q
    <3>1. z # s
      BY <2>1, <2>2 DEF PolitePlayer
    <3>2. sessPlayer'[z] = sessPlayer[z] /\ conn'[z] = conn[z]
      BY <1>1, <3>1, <2>1 DEF TypeOK
    <3>3. p \in registered' <=> p \in registered
      BY <1>1, <2>2
    <3> QED
      BY <1>1, <1>2, <2>1, <2>2, <3>2, <3>3, OthersMove, NobodyMoves
  <2>3. CASE p = q
    <3>1. z = s /\ q # NoPlayer
      BY <1>1, <1>6, <2>1, <2>3, CreatedAreIds
    <3>2. \A r \in RoomIds : p \notin members'[r]
      <4>1. \A r \in RoomIds : p \in members[r] => plRoom[p] = r
        BY <2>1 DEF PolitePlayer
      <4>2. CASE UNCHANGED members /\ (plRoom[q] = NoRoom \/ q \notin members[plRoom[q]])
        BY <2>3, <4>1, <4>2
      <4>3. CASE plRoom[q] \in RoomIds /\ Leave(q, plRoom[q])
        BY <2>3, <4>1, <4>3 DEF Leave, TypeOK
      <4> QED
        BY <1>2, <3>1, <4>2, <4>3
    <3>3. conn'[z] = "closed" /\ p \notin registered' /\ sessPlayer'[z] = p
      BY <1>1, <2>3, <3>1 DEF TypeOK
    <3> QED
      BY <3>2, <3>3 DEF PolitePlayer
  <2> QED
    BY <2>2, <2>3
<1> QED
  BY <1>1, <1>4, <1>5, <1>6 DEF PoliteInv

\* Steps that touch neither the sessions' players nor who is where, nor close
\* or open a polite session that has a player.
LEMMA QuietPolite ==
  ASSUME Inv, PoliteInv,
         UNCHANGED <<sessPlayer, nextPlayer, registered, plSession, members, plRoom>>,
         \A z \in Polite : ~lateRead'[z],
         \A z \in Polite : sessPlayer[z] # NoPlayer => conn'[z] = conn[z]
  PROVE  PoliteInv'
<1> USE PoliteAssumption DEF Inv
<1>1. OwnPlayer'
  BY OwnPlayerKept DEF PoliteInv
<1>2. CreatedPlayers' = CreatedPlayers
  BY DEF CreatedPlayers
<1>3. ASSUME NEW z \in Polite, NEW p \in CreatedPlayers, plSession[p] = z
      PROVE  PolitePlayer(z, p)'
  <2>1. PolitePlayer(z, p) /\ p # NoPlayer
    BY <1>3, CreatedAreIds DEF PoliteInv
  <2>2. conn'[z] = conn[z]
    BY <2>1 DEF PolitePlayer
  <2> QED
    BY <2>1, <2>2, NobodyMoves
<1> QED
  BY <1>1, <1>2, <1>3 DEF PoliteInv

\* PoliteInv is inductive together with Inv: one step per action.
LEMMA NextPolite == Inv /\ PoliteInv /\ [Next]_vars => PoliteInv'
<1> SUFFICES ASSUME Inv, PoliteInv, [Next]_vars
             PROVE  PoliteInv'
  OBVIOUS
<1> USE PoliteAssumption
<1>1. ASSUME NEW s \in Sessions, Accept(s)
      PROVE  PoliteInv'
  <2>1. ASSUME NEW z \in Polite, sessPlayer[z] # NoPlayer
        PROVE  conn'[z] = conn[z]
    <3>1. z # s
      <4>1. sessPlayer[z] \in CreatedPlayers /\ plSession[sessPlayer[z]] = z
        BY <2>1 DEF PoliteInv, OwnPlayer
      <4>2. PolitePlayer(z, sessPlayer[z])
        BY <4>1 DEF PoliteInv
      <4> QED
        BY <1>1, <4>2 DEF Accept, PolitePlayer
    <3> QED
      BY <1>1, <3>1 DEF Accept, Inv, TypeOK
  <2> QED
    BY <1>1, <2>1, QuietPolite DEF Accept, playerVars, roomVars, PoliteInv
<1>2. ASSUME NEW s \in Sessions, LoadScene(s) \/ StartWave(s)
      PROVE  PoliteInv'
  BY <1>2, QuietPolite DEF LoadScene, StartWave, sessionVars, playerVars, PoliteInv
<1>3. ASSUME NEW s \in Sessions, LateReadDone(s)
      PROVE  PoliteInv'
  <2>1. \A z \in Polite : ~lateRead'[z]
    BY <1>3 DEF LateReadDone, PoliteInv, Inv, TypeOK
  <2> QED
    BY <1>3, <2>1, QuietPolite DEF LateReadDone, playerVars, roomVars
<1>4. ASSUME NEW s \in Sessions, ReadFailed(s) \/ WriteFailed(s)
      PROVE  PoliteInv'
  <2>1. \A z \in Polite : ~lateRead'[z]
    BY <1>4 DEF ReadFailed, WriteFailed, PoliteInv, Inv, TypeOK
  <2> QED
    BY <1>4, <2>1, DisconnectPolite DEF ReadFailed, WriteFailed
<1>5. ASSUME NEW r \in RoomIds, WaveOver(r) \/ StageOver(r)
      PROVE  PoliteInv'
  BY <1>5, QuietPolite DEF WaveOver, StageOver, sessionVars, playerVars, PoliteInv
<1>8. ASSUME NEW s \in Sessions, NEW st \in StageIds, JoinRoom(s, st)
      PROVE  PoliteInv'
  <2>1. Joinable(st) \subseteq RoomIds
    BY BoundsAssumption DEF Joinable, CreatedRooms, Inv, TypeOK
  <2>2. CASE \E x \in RoomIds : Enter(sessPlayer[s], x)
    <3>1. PICK x \in RoomIds : Enter(sessPlayer[s], x)
      BY <2>2
    <3> QED
      BY ONLY Inv, PoliteInv, <1>8, <3>1, JoinPolite
  <2>3. CASE UNCHANGED <<plRoom, roomVars>>
    BY <1>8, <2>3, QuietPolite DEF JoinRoom, sessionVars, playerVars, roomVars, PoliteInv
  <2> QED
    BY <1>8, <2>1, <2>2, <2>3 DEF JoinRoom
<1>6. CASE UNCHANGED vars
  BY <1>6, QuietPolite DEF vars, sessionVars, playerVars, roomVars, PoliteInv
<1>7. CASE Step
  BY <1>1, <1>2, <1>3, <1>4, <1>5, <1>7, LoginPolite DEF Step
<1> QED
  BY <1>6, <1>7, <1>8 DEF Next

\* NoGhosts: a polite client's player is registered, connected and in one room
\* only for as long as a room lists it.
THEOREM LobbyNoGhosts == Spec => []NoGhosts
<1>1. Inv /\ PoliteInv => NoGhosts
  <2> SUFFICES ASSUME Inv, PoliteInv, NEW p \in CreatedPlayers, plSession[p] \in Polite
               PROVE  /\ p \in registered => Connected(p)
                      /\ \A r \in RoomIds : p \in members[r] =>
                           p \in registered /\ Connected(p) /\ plRoom[p] = r
    BY DEF NoGhosts
  <2>1. PolitePlayer(plSession[p], p)
    BY DEF PoliteInv
  <2> QED
    BY <2>1, PoliteAssumption DEF PolitePlayer, Connected
<1> QED
  BY <1>1, InitInv, NextInv, InitPolite, NextPolite, PTL DEF Spec

=============================================================================
