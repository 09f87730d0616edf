------------------------------ MODULE RoomTick ------------------------------
(***************************************************************************)
(* One update of one room, Room::Update, step by step in the order of the   *)
(* code: WaveManager::Update spawns, EnemyManager::Update moves every enemy *)
(* of a snapshot and then erases the queued ones, MinionManager::Update     *)
(* attacks, ProjectileManager::Update moves the projectiles, and a stage    *)
(* that ended on the way is reset last.  The callbacks of an enemy          *)
(* (ArrivalEnemyHandle, DeadEnemyHandle) run inside these steps.            *)
(*                                                                          *)
(* Distances and timers are abstracted: an enemy may or may not get one     *)
(* waypoint further in a tick, a spawn delay may or may not have passed, a  *)
(* shot may or may not meet an enemy, damage is any positive amount.        *)
(* Handlers of packets run between updates only (GameServer::Run); what     *)
(* they do to a room is what RoomLife says: Join, StartWave, Leave.         *)
(***************************************************************************)
EXTENDS Naturals, Integers, Sequences, FiniteSets, SequencesExt

CONSTANTS
  Players,       \* who may sit in the room
  Waves,         \* StageData::waves: per wave the counts of its enemyList
  MaxEnemies,    \* bound: enemies of a stage, enough for its waves
  EnemyHp,       \* hit points of an enemy
  PathLength,    \* waypoints an enemy has to reach
  WallHp,        \* Room::m_hp at the start of a stage
  Shots,         \* bound: projectiles in flight at a time
  HitEvents,     \* hit events of the skills: some of "burn" (damage over time), "stun"
  NoEnemy, NoShot

NumWaves == Len(Waves)
Ids == 1 .. MaxEnemies

ASSUME StageAssumption ==
  /\ Waves \in Seq(Seq(Nat \ {0})) /\ NumWaves > 0
  /\ \A w \in 1 .. NumWaves : Waves[w] # <<>>
  /\ MaxEnemies \in Nat /\ EnemyHp \in Nat \ {0} /\ WallHp \in Nat \ {0}
  /\ PathLength \in Nat
  /\ HitEvents \subseteq {"burn", "stun"}
  /\ NoEnemy \notin Ids

VARIABLES
  seated,         \* keys of Room::m_players
  gameState,      \* Room::m_gameState
  wallHp,         \* Room::m_hp
  cleanup,        \* Room::m_stageCleanupPending
  wave,           \* WaveManager::m_currentWave
  listIndex,      \* m_enemyListIndex, counted from 1
  remaining,      \* m_remainingSpawnCount
  spawnFinished,  \* m_spawnFinished
  spawned,        \* enemies of this stage (m_nextInstanceId counts on, see ResetStageState)
  enemies,        \* keys of EnemyManager::m_enemies
  removeQueue,    \* EnemyManager::m_removeQueue
  hp,             \* Enemy::m_hp, 0 once m_isDead
  left,           \* waypoints ahead: 0 once m_currentWaypointIndex is past the path
  burning,        \* the enemy has a damage-over-time debuff
  shots,          \* ProjectileManager::m_projectiles
  earned,         \* rewards paid in this stage (history)
  pc,             \* the part of Room::Update that comes next
  todo,           \* rest of the snapshot EnemyManager or ProjectileManager walks
  current         \* enemy between its UpdateDebuffs and its UpdateMovementLocked

waveVars == <<wave, listIndex, remaining, spawnFinished, spawned>>
enemyVars == <<enemies, removeQueue, hp, left, burning>>
roomVars == <<seated, gameState, wallHp, cleanup, earned>>
tickVars == <<pc, todo, current>>
vars == <<waveVars, enemyVars, roomVars, shots, tickVars>>

\* A projectile: its target, how it flies and whom it has hit already.
Shot == [target : Ids, chase : BOOLEAN, pierce : BOOLEAN, hit : SUBSET Ids]

Init ==
  /\ seated = {}
  /\ gameState = "WaitingForPlayers"
  /\ wallHp = WallHp
  /\ cleanup = FALSE
  /\ wave = 0
  /\ listIndex = 1
  /\ remaining = 0
  /\ spawnFinished = TRUE
  /\ spawned = 0
  /\ enemies = {}
  /\ removeQueue = <<>>
  /\ hp = [e \in Ids |-> 0]
  /\ left = [e \in Ids |-> 0]
  /\ burning = [e \in Ids |-> FALSE]
  /\ shots = [k \in Shots |-> NoShot]
  /\ earned = 0
  /\ pc = "idle"
  /\ todo = {}
  /\ current = NoEnemy

-----------------------------------------------------------------------------
(* Room: the handlers that the enemies and the wave call back *)

\* Mutant: ResetStageState without ProjectileManager::Clear.
ResetStageState_KeepsShots ==
  /\ gameState' = "WaitingForPlayers"
  /\ wallHp' = WallHp
  /\ wave' = 0 /\ listIndex' = 1 /\ remaining' = 0 /\ spawnFinished' = TRUE
  /\ spawned' = 0
  /\ enemies' = {} /\ removeQueue' = <<>>
  /\ hp' = [e \in Ids |-> 0] /\ left' = [e \in Ids |-> 0]
  /\ burning' = [e \in Ids |-> FALSE]
  /\ earned' = 0
  /\ UNCHANGED shots

\* ResetStageState.  EnemyManager's m_nextInstanceId is not reset; ids are
\* counted from 1 again here, as nothing is left of the enemies before.
ResetStageState ==
  /\ gameState' = "WaitingForPlayers"
  /\ wallHp' = WallHp
  /\ wave' = 0 /\ listIndex' = 1 /\ remaining' = 0 /\ spawnFinished' = TRUE
  /\ spawned' = 0
  /\ enemies' = {} /\ removeQueue' = <<>>
  /\ hp' = [e \in Ids |-> 0] /\ left' = [e \in Ids |-> 0]
  /\ burning' = [e \in Ids |-> FALSE]
  /\ shots' = [k \in Shots |-> NoShot]
  /\ earned' = 0

\* GetAliveEnemyCount when the remove queue is q.
AliveEnemyCount(q) ==
  IF Cardinality(enemies) < Len(q) THEN 0 ELSE Cardinality(enemies) - Len(q)

\* EndStage always finds m_isUpdating set here: the reset is left to the end
\* of the update.
EndStage ==
  IF gameState = "EndStage"
  THEN UNCHANGED <<gameState, cleanup>>
  ELSE gameState' = "EndStage" /\ cleanup' = TRUE

\* Mutant: a wave ends as soon as no enemy is alive.
CheckEndWave_WhileSpawning(q) ==
  IF AliveEnemyCount(q) <= 0
  THEN IF NumWaves <= wave
       THEN EndStage
       ELSE gameState' = "Intermission" /\ UNCHANGED cleanup
  ELSE UNCHANGED <<gameState, cleanup>>

\* Mutant: an intermission follows the last wave, too.
CheckEndWave_OneMore(q) ==
  IF spawnFinished /\ AliveEnemyCount(q) <= 0
  THEN IF NumWaves < wave
       THEN EndStage
       ELSE gameState' = "Intermission" /\ UNCHANGED cleanup
  ELSE UNCHANGED <<gameState, cleanup>>

CheckEndWave(q) ==
  IF spawnFinished /\ AliveEnemyCount(q) <= 0
  THEN IF NumWaves <= wave
       THEN EndStage
       ELSE gameState' = "Intermission" /\ UNCHANGED cleanup
  ELSE UNCHANGED <<gameState, cleanup>>

DeadEnemyHandle(e) ==
  /\ earned' = earned + 1
  /\ removeQueue' = Append(removeQueue, e)
  /\ CheckEndWave(removeQueue')

\* Mutant: an enemy that arrives is no reason to look for the end of the wave.
ArrivalEnemyHandle_NoCheck(e) ==
  /\ wallHp' = wallHp - 1
  /\ removeQueue' = Append(removeQueue, e)
  /\ IF wallHp' <= 0 THEN EndStage ELSE UNCHANGED <<gameState, cleanup>>

ArrivalEnemyHandle(e) ==
  /\ wallHp' = wallHp - 1
  /\ removeQueue' = Append(removeQueue, e)
  /\ IF wallHp' <= 0 THEN EndStage ELSE CheckEndWave(removeQueue')

\* Mutant: TakeDamageLocked without its check for m_isDead.
TakeDamage_EvenDead(e) ==
  \E rest \in 0 .. (IF hp[e] > 0 THEN hp[e] - 1 ELSE 0) :
    /\ hp' = [hp EXCEPT ![e] = rest]
    /\ IF rest = 0
       THEN DeadEnemyHandle(e)
       ELSE UNCHANGED <<earned, removeQueue, gameState, cleanup>>

\* Enemy::TakeDamage by any amount: a living enemy loses hit points, and dies
\* and is reported once it has none.
TakeDamage(e) ==
  /\ hp[e] > 0
  /\ \E rest \in 0 .. hp[e] - 1 :
       /\ hp' = [hp EXCEPT ![e] = rest]
       /\ IF rest = 0
          THEN DeadEnemyHandle(e)
          ELSE UNCHANGED <<earned, removeQueue, gameState, cleanup>>

-----------------------------------------------------------------------------
(* Packets, between two updates *)

Idle == pc = "idle"

\* Room::Enter; StageStart only sends.
Join(p) ==
  /\ Idle
  /\ gameState = "WaitingForPlayers" /\ Cardinality(seated) < 2
  /\ seated' = seated \cup {p}
  /\ gameState' = IF Cardinality(seated') = 2 THEN "Intermission" ELSE gameState
  /\ UNCHANGED <<wallHp, cleanup, earned, waveVars, enemyVars, shots, tickVars>>

\* Mutant: StartWave without its check for a next wave.
StartWave_Uncapped ==
  /\ Idle
  /\ seated # {}
  /\ gameState' = "Wave"
  /\ wave' = wave + 1
  /\ listIndex' = 1 /\ remaining' = 0 /\ spawnFinished' = FALSE
  /\ UNCHANGED <<seated, wallHp, cleanup, earned, spawned, enemyVars, shots, tickVars>>

\* Room::WaveStart once all players are ready, WaveManager::StartWave.
StartWave ==
  /\ Idle
  /\ seated # {}
  /\ gameState' = "Wave"
  /\ IF wave < NumWaves
     THEN /\ wave' = wave + 1
          /\ listIndex' = 1 /\ remaining' = 0 /\ spawnFinished' = FALSE
     ELSE UNCHANGED <<wave, listIndex, remaining, spawnFinished>>
  /\ UNCHANGED <<seated, wallHp, cleanup, earned, spawned, enemyVars, shots, tickVars>>

\* Room::Leave.
Leave(p) ==
  /\ Idle
  /\ p \in seated
  /\ seated' = seated \ {p}
  /\ IF seated' = {}
     THEN ResetStageState
     ELSE UNCHANGED <<gameState, wallHp, earned, waveVars, enemyVars, shots>>
  /\ UNCHANGED <<cleanup, tickVars>>

-----------------------------------------------------------------------------
(* Room::Update *)

BeginUpdate ==
  /\ Idle
  /\ pc' = IF gameState = "Wave" THEN "wave" ELSE "projectiles"
  /\ todo' = IF gameState = "Wave" THEN {} ELSE {k \in Shots : shots[k] # NoShot}
  /\ UNCHANGED <<current, waveVars, enemyVars, roomVars, shots>>

\* The whole enemyList of the wave has been spawned.
ListExhausted == listIndex > Len(Waves[wave])

\* WaveManager::Update with nothing to spawn, or before the spawn delay of the
\* next enemy has passed.
WaitToSpawn ==
  /\ pc = "wave"
  /\ spawnFinished' = (spawnFinished \/ ListExhausted)
  /\ remaining' = IF ~spawnFinished' /\ remaining = 0
                  THEN Waves[wave][listIndex] ELSE remaining
  /\ pc' = "enemies" /\ todo' = enemies
  /\ UNCHANGED <<current, wave, listIndex, spawned, enemyVars, roomVars, shots>>

\* Mutant: only the next update notices that the list is exhausted.
SpawnNextEnemy_LateFinish ==
  LET count == IF remaining = 0 THEN Waves[wave][listIndex] ELSE remaining
      e == spawned + 1 IN
  /\ pc = "wave"
  /\ ~spawnFinished /\ ~ListExhausted
  /\ e \in Ids
  /\ spawned' = e
  /\ enemies' = enemies \cup {e}
  /\ hp' = [hp EXCEPT ![e] = EnemyHp]
  /\ left' = [left EXCEPT ![e] = PathLength]
  /\ remaining' = count - 1
  /\ listIndex' = IF count = 1 THEN listIndex + 1 ELSE listIndex
  /\ pc' = "enemies" /\ todo' = enemies'
  /\ UNCHANGED <<current, wave, spawnFinished, removeQueue, burning, roomVars, shots>>

\* SpawnNextEnemy, EnemyManager::SpawnEnemy, NotifySpawnEnemy.  The new enemy is
\* in the snapshot that EnemyManager::Update takes next.
SpawnNextEnemy ==
  LET count == IF remaining = 0 THEN Waves[wave][listIndex] ELSE remaining
      next == IF count = 1 THEN listIndex + 1 ELSE listIndex
      e == spawned + 1 IN
  /\ pc = "wave"
  /\ ~spawnFinished /\ ~ListExhausted
  /\ e \in Ids
  /\ spawned' = e
  /\ enemies' = enemies \cup {e}
  /\ hp' = [hp EXCEPT ![e] = EnemyHp]
  /\ left' = [left EXCEPT ![e] = PathLength]
  /\ remaining' = count - 1
  /\ listIndex' = next
  /\ spawnFinished' = (next > Len(Waves[wave]))
  /\ pc' = "enemies" /\ todo' = enemies'
  /\ UNCHANGED <<current, wave, removeQueue, burning, roomVars, shots>>

\* Enemy::Update of an enemy that died in an earlier part of the update or in
\* the previous one: nothing.
SkipDead(e) ==
  /\ pc = "enemies" /\ current = NoEnemy /\ e \in todo
  /\ hp[e] = 0
  /\ todo' = todo \ {e}
  /\ UNCHANGED <<pc, current, waveVars, enemyVars, roomVars, shots>>

\* Mutant: Enemy::Update does not ask whether the enemy is dead.
UpdateDebuffs_EvenDead(e) ==
  /\ pc = "enemies" /\ current = NoEnemy /\ e \in todo
  /\ todo' = todo \ {e}
  /\ current' = e
  /\ UNCHANGED <<pc, waveVars, enemyVars, roomVars, shots>>

\* Enemy::Update: the debuffs; a debuff may kill, and the handler runs before
\* the enemy moves.
UpdateDebuffs(e) ==
  /\ pc = "enemies" /\ current = NoEnemy /\ e \in todo
  /\ hp[e] > 0
  /\ todo' = todo \ {e}
  /\ current' = e
  /\ \/ UNCHANGED <<hp, earned, removeQueue, gameState, cleanup>>
     \/ burning[e] /\ TakeDamage(e)
  /\ \/ UNCHANGED burning
     \/ burning' = [burning EXCEPT ![e] = FALSE]
  /\ UNCHANGED <<pc, waveVars, enemies, left, seated, wallHp, shots>>

\* The enemy is between waypoints, or stunned by a hit event.
Stay ==
  /\ pc = "enemies" /\ current # NoEnemy
  /\ left[current] > 0 \/ "stun" \in HitEvents
  /\ current' = NoEnemy
  /\ UNCHANGED <<pc, todo, waveVars, enemyVars, roomVars, shots>>

Advance(e) ==
  /\ pc = "enemies" /\ current = e
  /\ left[e] > 0
  /\ left' = [left EXCEPT ![e] = @ - 1]
  /\ current' = NoEnemy
  /\ UNCHANGED <<pc, todo, waveVars, enemies, removeQueue, hp, burning, roomVars, shots>>

\* All waypoints are behind the enemy; UpdateMovementLocked does not ask
\* whether it is still alive.
Arrive(e) ==
  /\ pc = "enemies" /\ current = e
  /\ left[e] = 0
  /\ ArrivalEnemyHandle(e)
  /\ current' = NoEnemy
  /\ UNCHANGED <<pc, todo, waveVars, enemies, hp, left, burning, seated, earned, shots>>

\* Where Room::Update goes when the enemies, or the minions, are done.
ToProjectiles ==
  IF gameState = "EndStage"
  THEN pc' = "cleanup" /\ todo' = {}
  ELSE pc' = "projectiles" /\ todo' = {k \in Shots : shots[k] # NoShot}

\* The end of EnemyManager::Update: the queued enemies are erased.
EraseRemoved ==
  /\ pc = "enemies" /\ todo = {} /\ current = NoEnemy
  /\ enemies' = enemies \ Range(removeQueue)
  /\ removeQueue' = <<>>
  /\ hp' = [e \in Ids |-> IF e \in enemies' THEN hp[e] ELSE 0]
  /\ left' = [e \in Ids |-> IF e \in enemies' THEN left[e] ELSE 0]
  /\ burning' = [e \in Ids |-> e \in enemies' /\ burning[e]]
  /\ IF gameState = "Wave" THEN pc' = "minions" /\ UNCHANGED todo ELSE ToProjectiles
  /\ UNCHANGED <<current, waveVars, roomVars, shots>>

-----------------------------------------------------------------------------
(* MinionManager::Update: any number of attacks *)

\* Who is in range, and how near, is a choice.  Nobody asks for the dead: an
\* enemy stays active until the pool hands it out again.
FindEnemyInRange == enemies

\* Minion::OnHitEvents after an enemy was hit: a skill may set it on fire.
OnHitEvents(e) ==
  \/ UNCHANGED burning
  \/ "burn" \in HitEvents /\ hp'[e] > 0 /\ burning' = [burning EXCEPT ![e] = TRUE]

\* An instant attack or skill.
MinionHits(e) ==
  /\ pc = "minions" /\ e \in FindEnemyInRange
  /\ TakeDamage(e)
  /\ OnHitEvents(e)
  /\ UNCHANGED <<waveVars, enemies, left, seated, wallHp, shots, tickVars>>

\* SpawnProjectile at an enemy, alive or dead.
MinionFires(e, k) ==
  /\ pc = "minions" /\ e \in FindEnemyInRange /\ shots[k] = NoShot
  /\ \E chase, pierce \in BOOLEAN :
       shots' = [shots EXCEPT ![k] =
         [target |-> e, chase |-> chase, pierce |-> pierce, hit |-> {}]]
  /\ UNCHANGED <<waveVars, enemyVars, roomVars, tickVars>>

MinionsDone ==
  /\ pc = "minions"
  /\ ToProjectiles
  /\ UNCHANGED <<current, waveVars, enemyVars, roomVars, shots>>

-----------------------------------------------------------------------------
(* ProjectileManager::Update *)

Flying(k) == pc = "projectiles" /\ k \in todo /\ shots[k] # NoShot

\* The shot meets nobody (else) in this tick.  Chase gives a shot up only when
\* its target is inactive, and no enemy becomes inactive before it is reused.
FlyOn(k) ==
  /\ Flying(k)
  /\ todo' = todo \ {k}
  /\ UNCHANGED <<pc, current, waveVars, enemyVars, roomVars, shots>>

\* Direct: the shot has flown for its duration.
Expire(k) ==
  /\ Flying(k)
  /\ ~shots[k].chase
  /\ shots' = [shots EXCEPT ![k] = NoShot]
  /\ todo' = todo \ {k}
  /\ UNCHANGED <<pc, current, waveVars, enemyVars, roomVars>>

GetActiveEnemiesSnapshot == {e \in enemies : hp[e] > 0}

\* Whom the shot may meet on its way; whether it does is a choice.
CheckCollision(k) == GetActiveEnemiesSnapshot \ shots[k].hit

\* OnHit: a chasing shot that does not pierce only hits its target.  The hit
\* ends a shot that does not pierce, and a chase at its target.
ShotHits(k, e) ==
  LET shot == shots[k] IN
  /\ Flying(k)
  /\ e \in CheckCollision(k)
  /\ shot.chase /\ ~shot.pierce => e = shot.target
  /\ TakeDamage(e)
  /\ OnHitEvents(e)
  /\ IF ~shot.pierce \/ (shot.chase /\ e = shot.target)
     THEN shots' = [shots EXCEPT ![k] = NoShot] /\ todo' = todo \ {k}
     ELSE shots' = [shots EXCEPT ![k].hit = @ \cup {e}] /\ UNCHANGED todo
  /\ UNCHANGED <<pc, current, waveVars, enemies, left, seated, wallHp>>

ProjectilesDone ==
  /\ pc = "projectiles" /\ todo = {}
  /\ pc' = "cleanup"
  /\ UNCHANGED <<todo, current, waveVars, enemyVars, roomVars, shots>>

EndUpdate ==
  /\ pc = "cleanup"
  /\ pc' = "idle"
  /\ IF cleanup
     THEN ResetStageState
     ELSE UNCHANGED <<gameState, wallHp, earned, waveVars, enemyVars, shots>>
  /\ cleanup' = FALSE
  /\ UNCHANGED <<seated, todo, current>>

-----------------------------------------------------------------------------
Packet == (\E p \in Players : Join(p) \/ Leave(p)) \/ StartWave

Update ==
  \/ BeginUpdate \/ WaitToSpawn \/ SpawnNextEnemy
  \/ \E e \in Ids : SkipDead(e) \/ UpdateDebuffs(e) \/ Advance(e) \/ Arrive(e)
  \/ \E e \in Ids : MinionHits(e)
  \/ Stay \/ EraseRemoved
  \/ \E e \in Ids, k \in Shots : MinionFires(e, k) \/ ShotHits(k, e)
  \/ MinionsDone
  \/ \E k \in Shots : FlyOn(k) \/ Expire(k)
  \/ ProjectilesDone \/ EndUpdate

Next == Packet \/ Update

Spec == Init /\ [][Next]_vars

\* The main loop never stops updating a room; a spawn delay passes because
\* every tick adds to m_spawnElapsedTime; an enemy that is not stunned moves by
\* speed times time in every tick.
FairSpec ==
  /\ Spec
  /\ WF_vars(Update)
  /\ SF_vars(SpawnNextEnemy)
  /\ \A e \in Ids : SF_vars(Advance(e)) /\ SF_vars(Arrive(e))

\* The target of a chasing shot, while it is there to be hit.
ChaseHits(k) == Flying(k) /\ shots[k].chase /\ ShotHits(k, shots[k].target)

\* In addition, a shot that flies straight has a finite duration, and one that
\* chases a living enemy reaches it: a projectile is faster than its target.
ShotFairSpec ==
  /\ FairSpec
  /\ \A k \in Shots : SF_vars(Expire(k)) /\ SF_vars(ChaseHits(k))

-----------------------------------------------------------------------------
(* Properties *)

\* Every variable stays in its type; the wave is one of the stage, and no entry
\* of its list is spawned more often than its count says.
TypeOK ==
  /\ seated \in SUBSET Players
  /\ gameState \in {"WaitingForPlayers", "Intermission", "Wave", "EndStage"}
  /\ wallHp \in Int /\ wallHp <= WallHp
  /\ cleanup \in BOOLEAN
  /\ wave \in 0 .. NumWaves
  /\ listIndex \in Nat \ {0} /\ remaining \in Nat
  /\ wave > 0 =>
       /\ listIndex <= Len(Waves[wave]) + 1
       /\ remaining > 0 => listIndex <= Len(Waves[wave])
                           /\ remaining <= Waves[wave][listIndex]
  /\ spawnFinished \in BOOLEAN
  /\ spawned \in 0 .. MaxEnemies
  /\ enemies \in SUBSET (1 .. spawned)
  /\ removeQueue \in Seq(Ids)
  /\ hp \in [Ids -> 0 .. EnemyHp]
  /\ left \in [Ids -> 0 .. PathLength]
  /\ burning \in [Ids -> BOOLEAN]
  /\ shots \in [Shots -> Shot \cup {NoShot}]
  /\ earned \in Nat
  /\ pc \in {"idle", "wave", "enemies", "minions", "projectiles", "cleanup"}
  /\ todo \subseteq Ids \cup Shots
  /\ current \in Ids \cup {NoEnemy}

Alive == {e \in enemies : hp[e] > 0} \ Range(removeQueue)

\* GetAliveEnemyCount, which subtracts the length of the remove queue from the
\* size of the map, is exact at every moment: an enemy is queued once, whether
\* it died or arrived, while it still is in the map, and every enemy that is
\* done with is queued.
AliveCountIsExact == AliveEnemyCount(removeQueue) = Cardinality(Alive)

\* A wave that is over left nobody behind: in an intermission every enemy of
\* the wave was spawned and has died or arrived (Room.cpp, CheckEndWave: "wave
\* ends when spawning has ended and there is no enemy alive").
WaveEndsClean ==
  gameState = "Intermission" => spawnFinished /\ Alive = {}

\* A wave cannot hang: between updates, a room in a wave that spawns no more
\* has an enemy whose death or arrival will end the wave.
WaveCanEnd == Idle /\ gameState = "Wave" /\ spawnFinished => Alive # {}

\* Every enemy is settled once: it paid its reward, or cost the wall its
\* damage, or is alive.
EveryEnemySettledOnce == spawned = earned + (WallHp - wallHp) + Cardinality(Alive)

\* A room that waits for players has nothing left of its last stage: the pools
\* got every enemy and projectile back and the wall is whole.
WaitingRoomIsReset ==
  gameState = "WaitingForPlayers" =>
    /\ enemies = {} /\ removeQueue = <<>> /\ wallHp = WallHp
    /\ \A k \in Shots : shots[k] = NoShot

\* Seen from outside, the room lives the life of RoomLife: the end of a stage
\* is one step, the reset at the end of the update is not seen.
Life == INSTANCE RoomLife WITH
  phase <- IF gameState = "EndStage" THEN "WaitingForPlayers" ELSE gameState,
  wave <- IF gameState = "EndStage" THEN 0 ELSE wave

LifeSpec == Life!Spec

\* Every projectile ends: it hits, its time is over, or its target is gone
\* (Projectile.cpp, Chase: "if the target has disappeared or been deactivated,
\* the projectile ends, too").
EveryShotEnds == \A k \in Shots : shots[k] # NoShot ~> shots[k] = NoShot

\* A wave that started ends: its enemies are spawned, and each of them dies
\* or arrives.
EveryWaveEnds == gameState = "Wave" ~> gameState # "Wave"

=============================================================================
