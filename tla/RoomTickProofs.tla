--------------------------- MODULE RoomTickProofs ---------------------------
(***************************************************************************)
(* What one update of a room keeps, for every stage, any number of enemies, *)
(* minions and projectiles, when no skill burns.  (With skills that do, an  *)
(* enemy that is dead already may arrive: see the README.)                  *)
(***************************************************************************)
EXTENDS RoomTick, FiniteSetTheorems, SequenceTheorems, TLAPS

Queued == Range(removeQueue)

\* Who is queued for removal is in the map; who is in the map and not queued is
\* alive; outside the walk of EnemyManager::Update the queued ones died.
QueueInv ==
  /\ Queued \subseteq enemies
  /\ \A e \in enemies \ Queued : hp[e] > 0
  /\ pc # "enemies" => \A e \in Queued : hp[e] = 0
  /\ \A e \in Ids : burning[e] = FALSE

\* The walk comes to every enemy once, and the one it is at is alive.
WalkInv ==
  /\ pc = "enemies" =>
       /\ todo \subseteq enemies
       /\ \A e \in todo : hp[e] > 0 => e \notin Queued
       /\ current # NoEnemy => current \in Alive \ todo
  /\ pc # "enemies" => current = NoEnemy

CountInv ==
  /\ Cardinality(enemies) = Cardinality(Alive) + Len(removeQueue)
  /\ EveryEnemySettledOnce

\* What the state of the stage says about the wave and the enemies.
StageInv ==
  /\ gameState = "Intermission" => spawnFinished /\ Alive = {} /\ wave < NumWaves
  /\ gameState = "Wave" => wave > 0 /\ (spawnFinished => Alive # {})
  /\ gameState = "WaitingForPlayers" =>
       /\ WaitingRoomIsReset
       /\ wave = 0 /\ spawned = 0 /\ earned = 0
       /\ pc \in {"idle", "projectiles", "cleanup"}
  /\ gameState = "EndStage" =>
       \/ Alive = {} /\ pc \in {"enemies", "minions", "projectiles", "cleanup"}
       \/ wallHp <= 0 /\ pc \in {"enemies", "cleanup"}
  /\ cleanup <=> gameState = "EndStage"
  /\ pc = "wave" => gameState = "Wave"
  /\ wave = 0 => spawnFinished
  /\ wave > 0 => (spawnFinished <=> listIndex > Len(Waves[wave]))

Inv == TypeOK /\ QueueInv /\ WalkInv /\ CountInv /\ StageInv

-----------------------------------------------------------------------------
(* Sequences and counting *)

LEMMA AppendRange ==
  ASSUME NEW T, NEW s \in Seq(T), NEW x \in T
  PROVE  /\ Append(s, x) \in Seq(T) /\ Len(Append(s, x)) = Len(s) + 1
         /\ Range(Append(s, x)) = Range(s) \cup {x}
<1> DEFINE a == Append(s, x)
<1>1. a \in Seq(T) /\ Len(a) = Len(s) + 1 /\ Len(s) \in Nat
  OBVIOUS
<1>2. DOMAIN a = 1 .. Len(s) + 1 /\ DOMAIN s = 1 .. Len(s)
  OBVIOUS
<1>3. a[Len(s) + 1] = x /\ \A i \in 1 .. Len(s) : a[i] = s[i]
  OBVIOUS
<1> HIDE DEF a
<1>4. ASSUME NEW y \in Range(a) PROVE y \in Range(s) \cup {x}
  <2>1. PICK i \in 1 .. Len(s) + 1 : y = a[i]
    BY <1>2, <1>4 DEF Range
  <2>2. i = Len(s) + 1 \/ i \in 1 .. Len(s)
    BY <1>1
  <2>3. QED
    BY <2>1, <2>2, <1>2, <1>3 DEF Range
<1>5. ASSUME NEW y \in Range(s) PROVE y \in Range(a)
  <2>1. PICK i \in 1 .. Len(s) : y = s[i]
    BY <1>2, <1>5 DEF Range
  <2>2. i \in 1 .. Len(s) + 1 /\ y = a[i]
    BY <2>1, <1>1, <1>3
  <2>3. QED
    BY <2>2, <1>2 DEF Range
<1>6. x \in Range(a)
  <2>1. Len(s) + 1 \in DOMAIN a /\ a[Len(s) + 1] = x
    BY <1>1, <1>2, <1>3
  <2>2. QED
    BY <2>1 DEF Range
<1>7. QED
  BY <1>1, <1>4, <1>5, <1>6 DEF a

LEMMA EmptyRange == Range(<<>>) = {} /\ Len(<<>>) = 0 /\ <<>> \in Seq(Ids)
<1>1. <<>> \in Seq(Ids) /\ Len(<<>>) = 0
  BY EmptySeq
<1>2. DOMAIN <<>> = {}
  OBVIOUS
<1>3. QED
  BY <1>1, <1>2 DEF Range

LEMMA Finite ==
  ASSUME TypeOK
  PROVE  /\ IsFiniteSet(enemies) /\ Cardinality(enemies) \in Nat
         /\ IsFiniteSet(Alive) /\ Cardinality(Alive) \in Nat
         /\ Cardinality(Alive) = 0 <=> Alive = {}
<1>1. spawned \in 0 .. MaxEnemies /\ enemies \in SUBSET (1 .. spawned)
  BY DEF TypeOK
<1>2. spawned \in Int
  BY <1>1
<1>3. IsFiniteSet(1 .. spawned)
  BY ONLY <1>2, FS_Interval
<1>4. IsFiniteSet(enemies)
  BY ONLY <1>1, <1>3, FS_Subset
<1>5. Alive \in SUBSET enemies
  BY DEF Alive
<1>6. IsFiniteSet(Alive)
  BY <1>4, <1>5, FS_Subset
<1>7. QED
  BY <1>4, <1>6, FS_CardinalityType, FS_EmptySet

\* GetAliveEnemyCount is right wherever the two sizes differ by the living.
LEMMA AliveCount ==
  ASSUME NEW n \in Nat, NEW q \in Seq(Ids), Cardinality(enemies) = n + Len(q)
  PROVE  AliveEnemyCount(q) = n
<1>1. Len(q) \in Nat
  OBVIOUS
<1>2. QED
  BY <1>1 DEF AliveEnemyCount

LEMMA AliveIs == QueueInv => Alive = enemies \ Queued
BY DEF QueueInv, Alive, Queued

\* An enemy that is settled leaves the living and joins the queue, and the
\* count the handler takes is the number of those left.
LEMMA Settle ==
  ASSUME TypeOK, QueueInv, CountInv, NEW e \in Alive,
         enemies' = enemies, removeQueue' = Append(removeQueue, e),
         \A x \in enemies \ {e} : hp'[x] = hp[x]
  PROVE  /\ e \in Ids /\ removeQueue' \in Seq(Ids)
         /\ Queued' = Queued \cup {e} /\ Alive' = Alive \ {e}
         /\ Cardinality(Alive') \in Nat /\ Cardinality(Alive') = Cardinality(Alive) - 1
         /\ Cardinality(enemies') = Cardinality(Alive') + Len(removeQueue')
         /\ AliveEnemyCount(removeQueue') = Cardinality(Alive')
         /\ Cardinality(Alive') = 0 <=> Alive' = {}
<1>1. e \in enemies /\ e \in Ids /\ removeQueue \in Seq(Ids)
  BY StageAssumption DEF TypeOK, Alive, Ids
<1>2. /\ removeQueue' \in Seq(Ids) /\ Len(removeQueue') = Len(removeQueue) + 1
      /\ Queued' = Queued \cup {e}
  BY <1>1, AppendRange DEF Queued
<1>3. Alive' = Alive \ {e}
  <2>1. Alive' = {x \in enemies : hp'[x] > 0} \ Queued'
    BY DEF Alive, Queued
  <2>2. ASSUME NEW x PROVE x \in Alive' <=> x \in Alive \ {e}
    <3>1. CASE x = e
      BY <1>2, <2>1, <3>1
    <3>2. CASE x \in enemies \ {e}
      BY <1>2, <2>1, <3>2 DEF Alive, Queued
    <3>3. CASE x \notin enemies
      BY <2>1, <3>3 DEF Alive
    <3>4. QED
      BY <3>1, <3>2, <3>3
  <2>3. QED
    BY <2>2
<1>4. /\ IsFiniteSet(Alive) /\ Cardinality(Alive) \in Nat
  BY Finite
<1>5. /\ IsFiniteSet(Alive') /\ Cardinality(Alive') = Cardinality(Alive) - 1
  BY <1>3, <1>4, FS_RemoveElement
<1>6. /\ Cardinality(Alive') \in Nat /\ (Cardinality(Alive') = 0 <=> Alive' = {})
  BY <1>5, FS_CardinalityType, FS_EmptySet
<1>7. Len(removeQueue) \in Nat
  BY <1>1
<1>8. Cardinality(enemies) = Cardinality(Alive') + Len(removeQueue')
  BY <1>2, <1>4, <1>5, <1>7 DEF CountInv
<1>9. AliveEnemyCount(removeQueue') = Cardinality(Alive')
  <2>1. Len(removeQueue') \in Nat
    BY <1>2
  <2>2. QED
    BY <1>2, <1>6, <1>8, <2>1, AliveCount
<1>10. QED
  BY <1>1, <1>2, <1>3, <1>5, <1>6, <1>8, <1>9

-----------------------------------------------------------------------------
(* The parts of TypeOK, so that a step only shows what it disturbs *)

WaveType ==
  /\ wave \in 0 .. NumWaves
  /\ listIndex \in Nat \ {0} /\ remaining \in Nat
  /\ wave > 0 =>
       /\ listIndex <= Len(Waves[wave]) + 1
       /\ remaining > 0 => listIndex <= Len(Waves[wave])
                           /\ remaining <= Waves[wave][listIndex]
  /\ spawnFinished \in BOOLEAN

EnemyType ==
  /\ spawned \in 0 .. MaxEnemies
  /\ enemies \in SUBSET (1 .. spawned)
  /\ removeQueue \in Seq(Ids)
  /\ hp \in [Ids -> 0 .. EnemyHp]
  /\ left \in [Ids -> 0 .. PathLength]
  /\ burning \in [Ids -> BOOLEAN]

RoomType ==
  /\ seated \in SUBSET Players
  /\ gameState \in {"WaitingForPlayers", "Intermission", "Wave", "EndStage"}
  /\ wallHp \in Int /\ wallHp <= WallHp
  /\ cleanup \in BOOLEAN
  /\ shots \in [Shots -> Shot \cup {NoShot}]
  /\ earned \in Nat

TickType ==
  /\ pc \in {"idle", "wave", "enemies", "minions", "projectiles", "cleanup"}
  /\ todo \subseteq Ids \cup Shots
  /\ current \in Ids \cup {NoEnemy}

LEMMA TypeParts == TypeOK <=> WaveType /\ EnemyType /\ RoomType /\ TickType
BY DEF TypeOK, WaveType, EnemyType, RoomType, TickType

LEMMA TypePartsNext == TypeOK' <=> WaveType' /\ EnemyType' /\ RoomType' /\ TickType'
BY DEF TypeOK, WaveType, EnemyType, RoomType, TickType

LEMMA WaveTypeStays == WaveType /\ UNCHANGED waveVars => WaveType'
BY DEF WaveType, waveVars

LEMMA EnemyTypeStays == EnemyType /\ UNCHANGED <<enemyVars, spawned>> => EnemyType'
BY DEF EnemyType, enemyVars

LEMMA RoomTypeStays == RoomType /\ UNCHANGED <<roomVars, shots>> => RoomType'
BY DEF RoomType, roomVars

\* A wave of the stage has a list with positive counts.
LEMMA WaveList ==
  ASSUME WaveType, wave > 0
  PROVE  /\ Len(Waves[wave]) \in Nat /\ Len(Waves[wave]) > 0
         /\ \A i \in 1 .. Len(Waves[wave]) : Waves[wave][i] \in Nat \ {0}
<1>1. wave \in 1 .. Len(Waves)
  BY StageAssumption DEF WaveType, NumWaves
<1>2. Waves[wave] \in Seq(Nat \ {0}) /\ Waves[wave] # <<>>
  BY <1>1, StageAssumption DEF NumWaves
<1>3. QED
  BY <1>2

LEMMA NumWavesType == NumWaves \in Nat /\ NumWaves > 0
BY StageAssumption DEF NumWaves

LEMMA IdsType == Ids \subseteq Nat \ {0} /\ NoEnemy \notin Ids
BY StageAssumption DEF Ids

-----------------------------------------------------------------------------
(* Frames *)

LEMMA SameEnemies ==
  ASSUME UNCHANGED <<enemies, removeQueue, hp>>
  PROVE  Alive' = Alive /\ Queued' = Queued
BY DEF Alive, Queued

LEMMA SameCount ==
  ASSUME CountInv, UNCHANGED <<enemies, removeQueue, hp, spawned, earned, wallHp>>
  PROVE  CountInv'
BY SameEnemies DEF CountInv, EveryEnemySettledOnce

\* What a room that waits looks like does not depend on the step counter.
LEMMA SameReset ==
  ASSUME gameState' = gameState, UNCHANGED <<enemies, removeQueue, wallHp, shots>>,
         WaitingRoomIsReset
  PROVE  WaitingRoomIsReset'
BY DEF WaitingRoomIsReset

\* A step of an update that leaves the stage, the enemies and the wall alone.
LEMMA SameStage ==
  ASSUME StageInv,
         UNCHANGED <<gameState, cleanup, wallHp, earned, enemies, removeQueue, hp, wave,
                     listIndex, spawnFinished, spawned>>,
         \/ shots' = shots
         \/ gameState # "WaitingForPlayers",
         gameState = "WaitingForPlayers" => pc' \in {"idle", "projectiles", "cleanup"},
         gameState = "EndStage" =>
           \/ pc' = "cleanup"
           \/ pc' = pc
           \/ Alive = {} /\ pc' \in {"minions", "projectiles"},
         pc' = "wave" => gameState = "Wave"
  PROVE  StageInv'
<1>1. Alive' = Alive
  BY SameEnemies
<1>2. gameState = "WaitingForPlayers" => WaitingRoomIsReset'
  BY DEF StageInv, WaitingRoomIsReset
<1>3. (gameState = "EndStage" =>
       \/ Alive = {} /\ pc \in {"enemies", "minions", "projectiles", "cleanup"}
       \/ wallHp <= 0 /\ pc \in {"enemies", "cleanup"})'
  BY <1>1 DEF StageInv
<1>4. QED
  BY <1>1, <1>2, <1>3 DEF StageInv

-----------------------------------------------------------------------------
(* Init and the packets *)

LEMMA NothingThere ==
  ASSUME enemies = {}, removeQueue = <<>>
  PROVE  Alive = {} /\ Queued = {} /\ Cardinality(enemies) = 0 /\ Cardinality(Alive) = 0
         /\ Len(removeQueue) = 0
BY EmptyRange, FS_EmptySet DEF Alive, Queued

LEMMA InitInv == Init => Inv
<1> SUFFICES ASSUME Init PROVE Inv
  OBVIOUS
<1>1. WaveType /\ RoomType /\ TickType
  <2>1. WaveType
    BY NumWavesType DEF Init, WaveType
  <2>2. RoomType
    <3>1. WallHp \in Int /\ wallHp = WallHp /\ earned = 0 /\ seated = {}
      BY StageAssumption DEF Init
    <3>2. cleanup \in BOOLEAN
      BY DEF Init
    <3>3. shots \in [Shots -> Shot \cup {NoShot}]
      BY DEF Init
    <3>4. gameState = "WaitingForPlayers"
      BY DEF Init
    <3>5. QED
      BY <3>1, <3>2, <3>3, <3>4 DEF RoomType
  <2>3. TickType
    BY DEF Init, TickType
  <2>4. QED
    BY <2>1, <2>2, <2>3
<1>2. EnemyType
  BY StageAssumption, EmptyRange DEF Init, EnemyType
<1>3. Alive = {} /\ Queued = {} /\ Cardinality(enemies) = 0 /\ Cardinality(Alive) = 0
      /\ Len(removeQueue) = 0
  BY NothingThere DEF Init
<1>4. QueueInv /\ WalkInv
  BY <1>3 DEF Init, QueueInv, WalkInv
<1>5. CountInv
  BY <1>3, StageAssumption DEF Init, CountInv, EveryEnemySettledOnce
<1>6. StageInv
  BY <1>3 DEF Init, StageInv, WaitingRoomIsReset
<1>7. QED
  BY <1>1, <1>2, <1>4, <1>5, <1>6, TypeParts DEF Inv

LEMMA JoinInv == ASSUME Inv, NEW p \in Players, Join(p) PROVE Inv'
<1>1. /\ gameState = "WaitingForPlayers" /\ gameState' \in {"WaitingForPlayers", "Intermission"}
      /\ seated' = seated \cup {p}
      /\ UNCHANGED <<wallHp, cleanup, earned, waveVars, enemyVars, shots, tickVars>>
  BY DEF Join
<1>2. TypeOK'
  <2>1. WaveType' /\ EnemyType'
    BY <1>1, WaveTypeStays, EnemyTypeStays, TypeParts DEF Inv, waveVars
  <2>2. RoomType'
    BY <1>1, TypeParts DEF Inv, RoomType
  <2>3. TickType'
    BY <1>1, TypeParts DEF Inv, TickType, tickVars
  <2>4. QED
    BY <2>1, <2>2, <2>3, TypePartsNext
<1>3. UNCHANGED <<enemies, removeQueue, hp, burning, spawned, earned, wallHp, pc, todo, current,
                  wave, listIndex, spawnFinished, shots, cleanup>>
  BY <1>1 DEF waveVars, enemyVars, tickVars
<1>4. CountInv'
  BY <1>3, SameCount DEF Inv
<1>5. Alive' = Alive /\ Queued' = Queued
  BY <1>3, SameEnemies
<1>6. QueueInv' /\ WalkInv'
  BY <1>3, <1>5 DEF Inv, QueueInv, WalkInv
<1>7. enemies = {} /\ removeQueue = <<>> /\ wave = 0 /\ spawnFinished /\ ~cleanup /\ pc # "wave"
  BY <1>1 DEF Inv, StageInv, WaitingRoomIsReset
<1>8. Alive = {}
  BY <1>7, NothingThere
<1>9. StageInv'
  <2>1. gameState' = "WaitingForPlayers" => WaitingRoomIsReset'
    BY <1>1, <1>3 DEF Inv, StageInv, WaitingRoomIsReset
  <2>2. QED
    BY <1>1, <1>3, <1>5, <1>7, <1>8, <2>1, NumWavesType DEF Inv, StageInv
<1>10. QED
  BY <1>2, <1>4, <1>6, <1>9 DEF Inv

\* ResetStageState from any state leaves a room as it was at the start.
LEMMA ResetInv ==
  ASSUME Inv, ResetStageState, cleanup' = FALSE, seated' \in SUBSET Players,
         pc' = "idle", todo' \subseteq Ids \cup Shots, current' = NoEnemy
  PROVE  Inv'
<1>1. /\ gameState' = "WaitingForPlayers" /\ wallHp' = WallHp
      /\ wave' = 0 /\ listIndex' = 1 /\ remaining' = 0 /\ spawnFinished' = TRUE
      /\ spawned' = 0 /\ enemies' = {} /\ removeQueue' = <<>>
      /\ hp' = [e \in Ids |-> 0] /\ left' = [e \in Ids |-> 0]
      /\ burning' = [e \in Ids |-> FALSE]
      /\ shots' = [k \in Shots |-> NoShot] /\ earned' = 0
  BY DEF ResetStageState
<1>2. WaveType' /\ RoomType' /\ TickType'
  <2>1. WaveType'
    BY <1>1, NumWavesType DEF WaveType
  <2>2. RoomType'
    <3>1. WallHp \in Int
      BY StageAssumption
    <3>2. cleanup' \in BOOLEAN
      OBVIOUS
    <3>3. shots' \in [Shots -> Shot \cup {NoShot}]
      BY <1>1
    <3>4. QED
      BY <1>1, <3>1, <3>2, <3>3 DEF RoomType
  <2>3. TickType'
    BY DEF TickType
  <2>4. QED
    BY <2>1, <2>2, <2>3
<1>3. EnemyType'
  BY <1>1, StageAssumption, EmptyRange DEF EnemyType
<1>4. Alive' = {} /\ Queued' = {} /\ Cardinality(enemies') = 0 /\ Cardinality(Alive') = 0
      /\ Len(removeQueue') = 0
  BY <1>1, EmptyRange, FS_EmptySet DEF Alive, Queued
<1>5. QueueInv' /\ WalkInv'
  BY <1>1, <1>4 DEF QueueInv, WalkInv
<1>6. CountInv'
  BY <1>1, <1>4, StageAssumption DEF CountInv, EveryEnemySettledOnce
<1>7. StageInv'
  BY <1>1, <1>4 DEF StageInv, WaitingRoomIsReset
<1>8. QED
  BY <1>2, <1>3, <1>5, <1>6, <1>7, TypePartsNext DEF Inv

\* Between two updates a room is waiting, in an intermission or in a wave.
LEMMA IdleStates ==
  ASSUME Inv, Idle
  PROVE  gameState \in {"WaitingForPlayers", "Intermission", "Wave"} /\ ~cleanup
BY DEF Inv, Idle, StageInv, TypeOK

LEMMA LeaveInv == ASSUME Inv, NEW p \in Players, Leave(p) PROVE Inv'
<1>1. /\ Idle /\ seated' = seated \ {p} /\ UNCHANGED <<cleanup, pc, todo, current>>
  BY DEF Leave, tickVars
<1>2. seated' \in SUBSET Players /\ todo' \subseteq Ids \cup Shots
  BY <1>1 DEF Inv, TypeOK
<1>3. CASE seated' = {}
  <2>1. ResetStageState
    BY <1>3 DEF Leave
  <2>2. ~cleanup'
    BY <1>1, IdleStates
  <2>3. cleanup' = FALSE
    BY <1>1, <2>2 DEF Inv, TypeOK
  <2>4. pc' = "idle" /\ current' = NoEnemy
    BY <1>1 DEF Idle, Inv, WalkInv
  <2>5. QED
    BY <1>2, <2>1, <2>3, <2>4, ResetInv
<1>4. CASE seated' # {}
  <2>1. UNCHANGED <<gameState, wallHp, earned, waveVars, enemyVars, shots>>
    BY <1>4 DEF Leave
  <2>2. UNCHANGED <<gameState, cleanup, wallHp, earned, enemies, removeQueue, hp, burning, wave,
                    listIndex, spawnFinished, spawned, shots, pc, todo, current>>
    BY <1>1, <2>1 DEF waveVars, enemyVars
  <2>3. WaveType' /\ EnemyType' /\ TickType'
    BY <1>1, <2>1, WaveTypeStays, EnemyTypeStays, TypeParts DEF Inv, waveVars, TickType
  <2>4. RoomType'
    BY <1>2, <2>2, TypeParts DEF Inv, RoomType
  <2>5. CountInv' /\ Alive' = Alive /\ Queued' = Queued
    BY <2>2, SameCount, SameEnemies DEF Inv
  <2>6. QueueInv' /\ WalkInv'
    BY <2>2, <2>5 DEF Inv, QueueInv, WalkInv
  <2>7. StageInv'
    <3>1. pc \in {"idle", "projectiles", "cleanup"} /\ pc # "wave"
      BY <1>1 DEF Idle
    <3>2. QED
      BY <2>2, <3>1, SameStage DEF Inv
  <2>8. QED
    BY <2>3, <2>4, <2>5, <2>6, <2>7, TypePartsNext DEF Inv
<1>5. QED
  BY <1>3, <1>4

\* All waves played, the last one is started over; its enemies have been
\* spawned, and somebody is still alive.
LEMMA StartWaveInv == ASSUME Inv, StartWave PROVE Inv'
<1>1. /\ Idle /\ gameState' = "Wave"
      /\ UNCHANGED <<seated, wallHp, cleanup, earned, spawned, enemyVars, shots, tickVars>>
  BY DEF StartWave
<1>2. UNCHANGED <<enemies, removeQueue, hp, burning, spawned, earned, wallHp, pc, todo, current,
                  cleanup, shots>>
  BY <1>1 DEF enemyVars, tickVars
<1>3. EnemyType' /\ TickType'
  BY <1>1, EnemyTypeStays, TypeParts DEF Inv, TickType, tickVars
<1>4. RoomType'
  BY <1>1, TypeParts DEF Inv, RoomType
<1>5. CountInv' /\ Alive' = Alive /\ Queued' = Queued
  BY <1>2, SameCount, SameEnemies DEF Inv
<1>6. QueueInv' /\ WalkInv'
  BY <1>2, <1>5 DEF Inv, QueueInv, WalkInv
<1>7. ~cleanup /\ pc # "wave" /\ gameState \in {"WaitingForPlayers", "Intermission", "Wave"}
  BY <1>1, IdleStates DEF Idle
<1>8. CASE wave < NumWaves
  <2>1. wave' = wave + 1 /\ listIndex' = 1 /\ remaining' = 0 /\ spawnFinished' = FALSE
    BY <1>8 DEF StartWave
  <2>2. wave \in Nat /\ wave + 1 \in 1 .. NumWaves
    BY <1>8, NumWavesType, TypeParts DEF Inv, WaveType
  <2>3. Len(Waves[wave']) \in Nat /\ Len(Waves[wave']) > 0
    BY <2>1, <2>2, StageAssumption DEF NumWaves
  <2>4. WaveType'
    <3>1. spawnFinished' \in BOOLEAN
      BY <2>1
    <3>2. wave' \in 0 .. NumWaves
      BY <2>1, <2>2, NumWavesType
    <3>3. QED
      BY <2>1, <2>3, <3>1, <3>2 DEF WaveType
  <2>5. StageInv'
    BY <1>1, <1>2, <1>7, <2>1, <2>2, <2>3 DEF Inv, StageInv
  <2>6. QED
    BY <1>3, <1>4, <1>5, <1>6, <2>4, <2>5, TypePartsNext DEF Inv
<1>9. CASE ~(wave < NumWaves)
  <2>1. UNCHANGED <<wave, listIndex, remaining, spawnFinished>>
    BY <1>9 DEF StartWave
  <2>2. WaveType' /\ wave \in Nat
    BY <2>1, WaveTypeStays, TypeParts, <1>2 DEF Inv, waveVars, WaveType
  <2>3. gameState = "Wave"
    BY <1>7, <1>9, NumWavesType DEF Inv, StageInv
  <2>4. StageInv'
    BY <1>1, <1>2, <1>5, <1>7, <2>1, <2>3 DEF Inv, StageInv
  <2>5. QED
    BY <1>3, <1>4, <1>5, <1>6, <2>2, <2>4, TypePartsNext DEF Inv
<1>10. QED
  BY <1>8, <1>9

-----------------------------------------------------------------------------
(* Steps of an update that move no enemy *)

\* Such a step keeps the invariant if the walk and the stage agree with where
\* the update goes on.
LEMMA QuietInv ==
  ASSUME Inv,
         UNCHANGED <<seated, gameState, cleanup, wallHp, earned, enemies, removeQueue, hp,
                     burning, waveVars>>,
         left' \in [Ids -> 0 .. PathLength],
         shots' \in [Shots -> Shot \cup {NoShot}], TickType', WalkInv',
         shots' = shots \/ gameState # "WaitingForPlayers",
         pc # "enemies" \/ pc' = "enemies",
         gameState = "WaitingForPlayers" => pc' \in {"idle", "projectiles", "cleanup"},
         gameState = "EndStage" =>
           pc' = "cleanup" \/ pc' = pc \/ (Alive = {} /\ pc' \in {"minions", "projectiles"}),
         pc' = "wave" => gameState = "Wave"
  PROVE  Inv'
<1>1. UNCHANGED <<wave, listIndex, spawnFinished, spawned>>
  BY DEF waveVars
<1>2. Alive' = Alive /\ Queued' = Queued
  BY SameEnemies
<1>3. WaveType'
  BY WaveTypeStays, TypeParts DEF Inv
<1>4. EnemyType'
  BY <1>1, TypeParts DEF Inv, EnemyType
<1>5. RoomType'
  BY TypeParts DEF Inv, RoomType
<1>6. CountInv'
  BY <1>1, SameCount DEF Inv
<1>7. QueueInv'
  BY <1>2 DEF Inv, QueueInv
<1>8. StageInv'
  BY <1>1, SameStage DEF Inv
<1>9. QED
  BY <1>3, <1>4, <1>5, <1>6, <1>7, <1>8, TypePartsNext DEF Inv

LEMMA TypesOf ==
  ASSUME Inv
  PROVE  /\ left \in [Ids -> 0 .. PathLength] /\ shots \in [Shots -> Shot \cup {NoShot}]
         /\ TickType /\ hp \in [Ids -> 0 .. EnemyHp]
         /\ enemies \subseteq Ids
<1>1. /\ left \in [Ids -> 0 .. PathLength] /\ shots \in [Shots -> Shot \cup {NoShot}]
      /\ hp \in [Ids -> 0 .. EnemyHp] /\ spawned \in 0 .. MaxEnemies
      /\ enemies \in SUBSET (1 .. spawned)
  BY DEF Inv, TypeOK
<1>2. TickType
  BY TypeParts DEF Inv
<1>3. 1 .. spawned \subseteq 1 .. MaxEnemies
  BY ONLY <1>1, StageAssumption
<1>4. QED
  BY <1>1, <1>2, <1>3 DEF Ids

LEMMA BeginUpdateInv == ASSUME Inv, BeginUpdate PROVE Inv'
<1>1. /\ pc = "idle" /\ UNCHANGED <<current, waveVars, enemyVars, roomVars, shots>>
      /\ pc' = IF gameState = "Wave" THEN "wave" ELSE "projectiles"
      /\ todo' = IF gameState = "Wave" THEN {} ELSE {k \in Shots : shots[k] # NoShot}
  BY DEF BeginUpdate, Idle
<1>2. gameState # "EndStage"
  BY <1>1, IdleStates DEF Idle
<1>3. TickType' /\ WalkInv'
  BY <1>1, TypesOf DEF TickType, Inv, WalkInv
<1>4. UNCHANGED <<seated, gameState, cleanup, wallHp, earned, enemies, removeQueue, hp,
                  burning, left>>
  BY <1>1 DEF roomVars, enemyVars
<1>5. QED
  BY <1>1, <1>2, <1>3, <1>4, TypesOf, QuietInv

LEMMA SkipDeadInv == ASSUME Inv, NEW e \in Ids, SkipDead(e) PROVE Inv'
<1>1. /\ pc = "enemies" /\ todo' = todo \ {e}
      /\ UNCHANGED <<pc, current, waveVars, enemyVars, roomVars, shots>>
  BY DEF SkipDead
<1>2. UNCHANGED <<seated, gameState, cleanup, wallHp, earned, enemies, removeQueue, hp,
                  burning, left>>
  BY <1>1 DEF roomVars, enemyVars
<1>3. TickType'
  BY <1>1, TypesOf DEF TickType
<1>4. Alive' = Alive /\ Queued' = Queued
  BY <1>2, SameEnemies
<1>5. WalkInv'
  BY <1>1, <1>2, <1>4 DEF Inv, WalkInv
<1>6. gameState # "WaitingForPlayers"
  BY <1>1 DEF Inv, StageInv
<1>7. QED
  BY <1>1, <1>2, <1>3, <1>5, <1>6, TypesOf, QuietInv

\* The enemy that the walk comes to is alive and not queued, and no debuff
\* hurts it.
LEMMA UpdateDebuffsInv == ASSUME Inv, NEW e \in Ids, UpdateDebuffs(e) PROVE Inv'
<1>1. /\ pc = "enemies" /\ current = NoEnemy /\ e \in todo /\ hp[e] > 0
      /\ todo' = todo \ {e} /\ current' = e
      /\ UNCHANGED <<pc, waveVars, enemies, left, seated, wallHp, shots>>
  BY DEF UpdateDebuffs
<1>2. burning[e] = FALSE /\ burning \in [Ids -> BOOLEAN]
  BY DEF Inv, QueueInv, TypeOK
<1>3. UNCHANGED <<hp, earned, removeQueue, gameState, cleanup>>
  BY <1>2 DEF UpdateDebuffs
<1>4. burning' = burning
  <2>1. burning' = burning \/ burning' = [burning EXCEPT ![e] = FALSE]
    BY DEF UpdateDebuffs
  <2>2. QED
    BY <1>2, <2>1
<1>5. TickType'
  BY <1>1, TypesOf DEF TickType
<1>6. Alive' = Alive /\ Queued' = Queued
  BY <1>1, <1>3, SameEnemies
<1>7. e \in Alive
  BY <1>1 DEF Inv, WalkInv, Alive, Queued
<1>8. WalkInv'
  BY <1>1, <1>3, <1>6, <1>7 DEF Inv, WalkInv
<1>9. gameState # "WaitingForPlayers"
  BY <1>1 DEF Inv, StageInv
<1>10. QED
  BY <1>1, <1>3, <1>4, <1>5, <1>8, <1>9, TypesOf, QuietInv

\* The enemy the walk is at stays where it is or gets a waypoint further.
LEMMA MoveInv == ASSUME Inv, Stay \/ \E e \in Ids : Advance(e) PROVE Inv'
<1>1. /\ pc = "enemies" /\ current' = NoEnemy
      /\ UNCHANGED <<pc, todo, waveVars, enemies, removeQueue, hp, burning, roomVars, shots>>
  BY DEF Stay, Advance, enemyVars
<1>2. UNCHANGED <<seated, gameState, cleanup, wallHp, earned>>
  BY <1>1 DEF roomVars
<1>3. left' \in [Ids -> 0 .. PathLength]
  <2>1. CASE Stay
    BY <2>1, TypesOf DEF Stay, enemyVars
  <2>2. ASSUME NEW e \in Ids, Advance(e) PROVE left' \in [Ids -> 0 .. PathLength]
    <3>1. left[e] \in 0 .. PathLength /\ left[e] > 0 /\ left' = [left EXCEPT ![e] = left[e] - 1]
      BY <2>2, TypesOf DEF Advance
    <3>2. left[e] - 1 \in 0 .. PathLength
      BY <3>1, StageAssumption
    <3>3. QED
      BY <3>1, <3>2, TypesOf
  <2>3. QED
    BY <2>1, <2>2
<1>4. TickType'
  BY <1>1, TypesOf DEF TickType
<1>5. Alive' = Alive /\ Queued' = Queued
  BY <1>1, SameEnemies
<1>6. WalkInv'
  BY <1>1, <1>5 DEF Inv, WalkInv
<1>7. gameState # "WaitingForPlayers"
  BY <1>1 DEF Inv, StageInv
<1>8. QED
  BY <1>1, <1>2, <1>3, <1>4, <1>6, <1>7, TypesOf, QuietInv

\* The shots that fly straight, or on, and the ends of the three managers.
LEMMA ToProjectilesIs ==
  ASSUME ToProjectiles
  PROVE  /\ pc' = IF gameState = "EndStage" THEN "cleanup" ELSE "projectiles"
         /\ todo' \subseteq Shots
BY DEF ToProjectiles

LEMMA MinionsDoneInv == ASSUME Inv, MinionsDone PROVE Inv'
<1>1. /\ pc = "minions" /\ UNCHANGED <<current, waveVars, enemyVars, roomVars, shots>>
      /\ ToProjectiles
  BY DEF MinionsDone
<1>2. UNCHANGED <<seated, gameState, cleanup, wallHp, earned, enemies, removeQueue, hp,
                  burning, left>>
  BY <1>1 DEF roomVars, enemyVars
<1>3. /\ pc' = IF gameState = "EndStage" THEN "cleanup" ELSE "projectiles"
      /\ todo' \subseteq Shots
  BY <1>1, ToProjectilesIs
<1>4. TickType' /\ WalkInv'
  BY <1>1, <1>3, TypesOf DEF TickType, Inv, WalkInv
<1>5. QED
  BY <1>1, <1>2, <1>3, <1>4, TypesOf, QuietInv

LEMMA ProjectilesDoneInv == ASSUME Inv, ProjectilesDone PROVE Inv'
<1>1. /\ pc = "projectiles" /\ pc' = "cleanup" /\ todo' = todo
      /\ UNCHANGED <<current, waveVars, enemyVars, roomVars, shots>>
  BY DEF ProjectilesDone
<1>2. UNCHANGED <<seated, gameState, cleanup, wallHp, earned, enemies, removeQueue, hp,
                  burning, left>>
  BY <1>1 DEF roomVars, enemyVars
<1>3. TickType' /\ WalkInv'
  BY <1>1, TypesOf DEF TickType, Inv, WalkInv
<1>4. QED
  BY <1>1, <1>2, <1>3, TypesOf, QuietInv

\* A shot cannot fly in a room that waits, as none is left of the last stage.
LEMMA ShotInv ==
  ASSUME Inv, NEW k \in Shots, FlyOn(k) \/ Expire(k)
  PROVE  Inv'
<1>1. /\ pc = "projectiles" /\ shots[k] # NoShot /\ todo' = todo \ {k}
      /\ UNCHANGED <<pc, current, waveVars, enemyVars, roomVars>>
  BY DEF FlyOn, Expire, Flying
<1>2. shots' = shots \/ shots' = [shots EXCEPT ![k] = NoShot]
  BY DEF FlyOn, Expire
<1>3. UNCHANGED <<seated, gameState, cleanup, wallHp, earned, enemies, removeQueue, hp,
                  burning, left>>
  BY <1>1 DEF roomVars, enemyVars
<1>4. TickType' /\ WalkInv'
  BY <1>1, TypesOf DEF TickType, Inv, WalkInv
<1>5. shots' \in [Shots -> Shot \cup {NoShot}]
  BY <1>2, TypesOf
<1>6. gameState # "WaitingForPlayers"
  BY <1>1 DEF Inv, StageInv, WaitingRoomIsReset
<1>7. QED
  BY <1>1, <1>3, <1>4, <1>5, <1>6, TypesOf, QuietInv

LEMMA MinionFiresInv ==
  ASSUME Inv, NEW e \in Ids, NEW k \in Shots, MinionFires(e, k)
  PROVE  Inv'
<1>1. pc = "minions" /\ UNCHANGED <<waveVars, enemyVars, roomVars, tickVars>>
  BY DEF MinionFires
<1>2. PICK chase \in BOOLEAN, pierce \in BOOLEAN :
        shots' = [shots EXCEPT ![k] =
          [target |-> e, chase |-> chase, pierce |-> pierce, hit |-> {}]]
  BY DEF MinionFires
<1>3. [target |-> e, chase |-> chase, pierce |-> pierce, hit |-> {}] \in Shot
  BY DEF Shot
<1>4. shots' \in [Shots -> Shot \cup {NoShot}]
  BY <1>2, <1>3, TypesOf
<1>5. UNCHANGED <<seated, gameState, cleanup, wallHp, earned, enemies, removeQueue, hp,
                  burning, left, pc, todo, current>>
  BY <1>1 DEF roomVars, enemyVars, tickVars
<1>6. TickType' /\ WalkInv'
  BY <1>1, <1>5, TypesOf DEF TickType, Inv, WalkInv
<1>7. gameState # "WaitingForPlayers"
  BY <1>1 DEF Inv, StageInv
<1>8. QED
  BY <1>1, <1>4, <1>5, <1>6, <1>7, TypesOf, QuietInv

LEMMA EndUpdateInv == ASSUME Inv, EndUpdate PROVE Inv'
<1>1. /\ pc = "cleanup" /\ pc' = "idle" /\ cleanup' = FALSE /\ UNCHANGED <<seated, todo, current>>
  BY DEF EndUpdate
<1>2. seated' \in SUBSET Players /\ todo' \subseteq Ids \cup Shots /\ current' = NoEnemy
  BY <1>1 DEF Inv, TypeOK, WalkInv
<1>3. CASE cleanup
  <2>1. ResetStageState
    BY <1>3 DEF EndUpdate
  <2>2. QED
    BY <1>1, <1>2, <2>1, ResetInv
<1>4. CASE ~cleanup
  <2>1. UNCHANGED <<gameState, wallHp, earned, waveVars, enemyVars, shots>>
    BY <1>4 DEF EndUpdate
  <2>2. cleanup = FALSE
    BY <1>4 DEF Inv, TypeOK
  <2>3. gameState # "EndStage"
    BY <1>4 DEF Inv, StageInv
  <2>4. UNCHANGED <<seated, gameState, cleanup, wallHp, earned, enemies, removeQueue, hp,
                    burning, left>>
    BY <1>1, <2>1, <2>2 DEF enemyVars
  <2>5. TickType' /\ WalkInv'
    BY <1>1, <1>2 DEF TickType, WalkInv
  <2>6. QED
    BY <1>1, <2>1, <2>3, <2>4, <2>5, TypesOf, QuietInv
<1>5. QED
  BY <1>3, <1>4

-----------------------------------------------------------------------------
(* Spawning *)

LEMMA WaitToSpawnInv == ASSUME Inv, WaitToSpawn PROVE Inv'
<1>1. /\ pc = "wave" /\ pc' = "enemies" /\ todo' = enemies
      /\ spawnFinished' = (spawnFinished \/ ListExhausted)
      /\ remaining' = IF ~spawnFinished' /\ remaining = 0
                      THEN Waves[wave][listIndex] ELSE remaining
      /\ UNCHANGED <<current, wave, listIndex, spawned, enemyVars, roomVars, shots>>
  BY DEF WaitToSpawn
<1>2. gameState = "Wave" /\ wave > 0 /\ wave \in Nat
  BY <1>1, TypeParts DEF Inv, StageInv, WaveType
<1>3. spawnFinished <=> listIndex > Len(Waves[wave])
  BY <1>2 DEF Inv, StageInv
<1>4. spawnFinished' = spawnFinished
  <2>1. spawnFinished \in BOOLEAN
    BY DEF Inv, TypeOK
  <2>2. ListExhausted <=> spawnFinished
    BY <1>3 DEF ListExhausted
  <2>3. QED
    BY <1>1, <2>1, <2>2
<1>5. /\ Len(Waves[wave]) \in Nat
      /\ \A i \in 1 .. Len(Waves[wave]) : Waves[wave][i] \in Nat \ {0}
  BY <1>2, WaveList, TypeParts DEF Inv
<1>6. WaveType'
  <2>1. WaveType
    BY TypeParts DEF Inv
  <2>2. CASE ~spawnFinished /\ remaining = 0
    <3>1. remaining' = Waves[wave][listIndex] /\ listIndex \in 1 .. Len(Waves[wave])
      BY <1>1, <1>3, <1>4, <1>5, <2>1, <2>2 DEF WaveType
    <3>2. remaining' \in Nat
      BY <1>5, <3>1
    <3>3. QED
      BY <1>1, <1>4, <2>1, <3>1, <3>2 DEF WaveType
  <2>3. CASE ~(~spawnFinished /\ remaining = 0)
    <3>1. remaining' = remaining
      BY <1>1, <1>4, <2>3
    <3>2. QED
      BY <1>1, <1>4, <2>1, <3>1 DEF WaveType
  <2>4. QED
    BY <2>2, <2>3
<1>7. UNCHANGED <<seated, gameState, cleanup, wallHp, earned, enemies, removeQueue, hp,
                  burning, left, wave, listIndex, spawned, spawnFinished>>
  BY <1>1, <1>4 DEF roomVars, enemyVars
<1>8. EnemyType' /\ RoomType'
  BY <1>1, EnemyTypeStays, RoomTypeStays, TypeParts DEF Inv
<1>9. TickType'
  BY <1>1, TypesOf DEF TickType
<1>10. Alive' = Alive /\ Queued' = Queued /\ CountInv'
  BY <1>7, SameEnemies, SameCount DEF Inv
<1>11. QueueInv'
  BY <1>1, <1>7, <1>10 DEF Inv, QueueInv
<1>12. WalkInv'
  <2>1. \A e \in enemies : hp[e] > 0 => e \notin Queued
    BY <1>1, TypesOf DEF Inv, QueueInv
  <2>2. current = NoEnemy
    BY <1>1 DEF Inv, WalkInv
  <2>3. QED
    BY <1>1, <1>7, <1>10, <2>1, <2>2 DEF WalkInv
<1>13. StageInv'
  BY <1>1, <1>2, <1>7, SameStage DEF Inv
<1>14. QED
  BY <1>6, <1>8, <1>9, <1>10, <1>11, <1>12, <1>13, TypePartsNext DEF Inv

LEMMA SpawnNextEnemyInv == ASSUME Inv, SpawnNextEnemy PROVE Inv'
<1> DEFINE list == Waves[wave]
           count == IF remaining = 0 THEN list[listIndex] ELSE remaining
           next == IF count = 1 THEN listIndex + 1 ELSE listIndex
           e == spawned + 1
<1>1. /\ pc = "wave" /\ ~spawnFinished /\ ~ListExhausted
      /\ e \in Ids /\ spawned' = e /\ enemies' = enemies \cup {e}
      /\ hp' = [hp EXCEPT ![e] = EnemyHp] /\ left' = [left EXCEPT ![e] = PathLength]
      /\ remaining' = count - 1 /\ listIndex' = next
      /\ spawnFinished' = (next > Len(list))
      /\ pc' = "enemies" /\ todo' = enemies'
      /\ UNCHANGED <<current, wave, removeQueue, burning, roomVars, shots>>
  BY DEF SpawnNextEnemy
<1>2. gameState = "Wave" /\ wave > 0
  BY <1>1 DEF Inv, StageInv
<1>3. /\ Len(list) \in Nat
      /\ \A i \in 1 .. Len(list) : list[i] \in Nat \ {0}
  BY <1>2, WaveList, TypeParts DEF Inv
<1>4. /\ wave \in 0 .. NumWaves /\ listIndex \in Nat \ {0} /\ remaining \in Nat
      /\ remaining > 0 => remaining <= list[listIndex]
  BY <1>2, TypeParts DEF Inv, WaveType
<1>5. listIndex \in 1 .. Len(list) /\ list[listIndex] \in Nat \ {0}
  BY <1>1, <1>3, <1>4 DEF ListExhausted
<1>6. WaveType'
  <2>1. spawnFinished' \in BOOLEAN
    BY <1>1
  <2> HIDE DEF list
  <2>2. count \in Nat \ {0} /\ count <= list[listIndex]
    BY <1>4, <1>5
  <2>3. CASE count = 1
    <3>1. remaining' = 0 /\ listIndex' = listIndex + 1 /\ wave' = wave
      BY <1>1, <2>3
    <3>2. wave' = wave /\ wave \in 0 .. NumWaves /\ list' = Waves[wave'] /\ list = Waves[wave]
      BY <1>1, <1>4 DEF list
    <3>3. QED
      BY <1>3, <1>5, <2>1, <3>1, <3>2 DEF WaveType
  <2>4. CASE count # 1
    <3>1. remaining' = count - 1 /\ listIndex' = listIndex /\ remaining' \in Nat
          /\ remaining' <= list[listIndex]
      BY <1>1, <1>5, <2>2, <2>4
    <3>2. wave' = wave /\ wave \in 0 .. NumWaves /\ list = Waves[wave]
      BY <1>1, <1>4 DEF list
    <3>3. QED
      BY <1>3, <1>5, <2>1, <3>1, <3>2 DEF WaveType
  <2>5. QED
    BY <2>3, <2>4
<1> HIDE DEF list, count, next
<1>7. spawned \in 0 .. MaxEnemies /\ enemies \in SUBSET (1 .. spawned) /\ EnemyType
  BY TypeParts DEF Inv, EnemyType
<1>8. e \notin enemies /\ e \in 1 .. MaxEnemies /\ enemies' \in SUBSET (1 .. e)
  BY <1>1, <1>7 DEF Ids
<1>9. EnemyType'
  <2>1. e \in 0 .. MaxEnemies
    BY <1>8
  <2>2. hp' \in [Ids -> 0 .. EnemyHp] /\ left' \in [Ids -> 0 .. PathLength]
    BY <1>1, <1>7, StageAssumption DEF EnemyType
  <2>3. QED
    BY <1>1, <1>7, <1>8, <2>1, <2>2 DEF EnemyType
<1>10. RoomType' /\ TickType'
  <2>1. RoomType'
    BY <1>1, RoomTypeStays, TypeParts DEF Inv
  <2>2. enemies' \subseteq Ids
    BY <1>1, TypesOf
  <2>3. QED
    BY <1>1, <2>1, <2>2, TypesOf DEF TickType
<1>11. Queued' = Queued /\ e \notin Queued
  BY <1>1, <1>8 DEF Inv, QueueInv, Queued
<1> HIDE DEF e
<1>12. hp'[e] > 0 /\ \A x \in enemies : hp'[x] = hp[x]
  <2>1. hp'[e] = EnemyHp
    BY <1>1, TypesOf
  <2>2. \A x \in enemies : x \in Ids /\ x # e
    BY <1>8, TypesOf
  <2>3. QED
    BY <1>1, <2>1, <2>2, TypesOf, StageAssumption
<1>13. Alive' = Alive \cup {e} /\ e \notin Alive
  <2>1. Alive' = {x \in enemies \cup {e} : hp'[x] > 0} \ Queued
    BY <1>1, <1>11 DEF Alive, Queued
  <2>2. QED
    BY <1>8, <1>11, <1>12, <2>1 DEF Alive, Queued
<1>14. CountInv'
  <2>1. /\ IsFiniteSet(enemies) /\ Cardinality(enemies) \in Nat
        /\ IsFiniteSet(Alive) /\ Cardinality(Alive) \in Nat
    BY Finite DEF Inv
  <2>2. Cardinality(enemies') = Cardinality(enemies) + 1
    BY <1>1, <1>8, <2>1, FS_AddElement
  <2>3. Cardinality(Alive') = Cardinality(Alive) + 1
    BY <1>13, <2>1, FS_AddElement
  <2>4. Len(removeQueue) \in Nat /\ removeQueue' = removeQueue
    BY <1>1, <1>7 DEF EnemyType
  <2>5. Cardinality(enemies') = Cardinality(Alive') + Len(removeQueue')
    BY <2>1, <2>2, <2>3, <2>4 DEF Inv, CountInv
  <2>6. EveryEnemySettledOnce'
    <3>1. /\ spawned' = spawned + 1 /\ earned' = earned /\ wallHp' = wallHp
      BY <1>1 DEF roomVars, e
    <3>2. spawned \in Int /\ earned \in Int /\ wallHp \in Int /\ WallHp \in Int
      BY <1>7, TypeParts, StageAssumption DEF Inv, RoomType
    <3>3. spawned = earned + (WallHp - wallHp) + Cardinality(Alive)
      BY DEF Inv, CountInv, EveryEnemySettledOnce
    <3>4. spawned' = earned' + (WallHp - wallHp') + Cardinality(Alive')
      BY <2>1, <2>3, <3>1, <3>2, <3>3
    <3>5. QED
      BY <3>4 DEF EveryEnemySettledOnce
  <2>7. QED
    BY <2>5, <2>6 DEF CountInv
<1>15. QueueInv'
  <2>1. Queued' \subseteq enemies'
    BY <1>1, <1>11 DEF Inv, QueueInv
  <2>2. \A x \in enemies' \ Queued' : hp'[x] > 0
    BY <1>1, <1>11, <1>12 DEF Inv, QueueInv
  <2>3. QED
    BY <1>1, <2>1, <2>2 DEF Inv, QueueInv
<1>16. WalkInv'
  <2>1. \A x \in todo' : hp'[x] > 0 => x \notin Queued'
    BY <1>1, <1>11, <1>12, TypesOf DEF Inv, QueueInv
  <2>2. current' = NoEnemy
    BY <1>1 DEF Inv, WalkInv
  <2>3. QED
    BY <1>1, <2>1, <2>2 DEF WalkInv
<1>17. StageInv'
  <2>1. gameState' = "Wave" /\ cleanup' = cleanup /\ wave' = wave /\ Alive' # {} /\ ~cleanup
    BY <1>1, <1>2, <1>13 DEF roomVars, Inv, StageInv
  <2>2. wave \in Nat
    BY <1>4
  <2>3. (spawnFinished <=> listIndex > Len(Waves[wave]))'
    BY <1>1 DEF list
  <2>4. QED
    BY <1>1, <1>2, <2>1, <2>2, <2>3 DEF StageInv
<1>18. QED
  BY <1>6, <1>9, <1>10, <1>14, <1>15, <1>16, <1>17, TypePartsNext DEF Inv

-----------------------------------------------------------------------------
(* Enemies are settled *)

\* What CheckEndWave does once an enemy was settled in a wave.
LEMMA WaveOrOver ==
  ASSUME Inv, gameState = "Wave", CheckEndWave(removeQueue'),
         AliveEnemyCount(removeQueue') = Cardinality(Alive'),
         Cardinality(Alive') \in Nat, Cardinality(Alive') = 0 <=> Alive' = {}
  PROVE  \/ /\ gameState' = "Wave" /\ cleanup' = cleanup
            /\ ~(spawnFinished /\ Alive' = {})
         \/ /\ gameState' = "Intermission" /\ cleanup' = cleanup
            /\ spawnFinished /\ Alive' = {} /\ wave < NumWaves
         \/ /\ gameState' = "EndStage" /\ cleanup' = TRUE
            /\ spawnFinished /\ Alive' = {}
<1>1. AliveEnemyCount(removeQueue') <= 0 <=> Alive' = {}
  OBVIOUS
<1>2. wave \in Nat /\ NumWaves \in Nat
  BY NumWavesType, TypeParts DEF Inv, WaveType
<1>3. CASE spawnFinished /\ Alive' = {} /\ NumWaves <= wave
  BY <1>1, <1>3 DEF CheckEndWave, EndStage
<1>4. CASE spawnFinished /\ Alive' = {} /\ ~(NumWaves <= wave)
  BY <1>1, <1>2, <1>4 DEF CheckEndWave
<1>5. CASE ~(spawnFinished /\ Alive' = {})
  BY <1>1, <1>5 DEF CheckEndWave
<1>6. QED
  BY <1>3, <1>4, <1>5

\* The types after it.
LEMMA SettledTypes ==
  ASSUME Inv, gameState' \in {"Intermission", "Wave", "EndStage"},
         cleanup' = cleanup \/ cleanup' = TRUE
  PROVE  gameState' \in {"WaitingForPlayers", "Intermission", "Wave", "EndStage"}
         /\ cleanup' \in BOOLEAN
BY DEF Inv, TypeOK

\* In the minions' and the projectiles' part of an update an enemy that can be
\* hurt is alive, so the room is in a wave.
LEMMA HitInWave ==
  ASSUME Inv, NEW e \in enemies, hp[e] > 0, pc \in {"minions", "projectiles"}
  PROVE  gameState = "Wave" /\ e \in Alive
<1>a. \A x \in Queued : hp[x] = 0
  BY DEF Inv, QueueInv
<1>1. e \in Ids /\ e \notin Queued
  BY <1>a, TypesOf
<1>2. e \in Alive
  BY <1>1 DEF Alive, Queued
<1>3. enemies # {} /\ gameState \in {"WaitingForPlayers", "Intermission", "Wave", "EndStage"}
  BY DEF Inv, TypeOK
<1>4. QED
  BY <1>2, <1>3 DEF Inv, StageInv, WaitingRoomIsReset

\* TakeDamage there, with whatever happens to the shots.
LEMMA DamageInv ==
  ASSUME Inv, NEW e \in enemies, TakeDamage(e), pc \in {"minions", "projectiles"},
         UNCHANGED <<waveVars, enemies, left, burning, seated, wallHp, pc, current>>,
         shots' \in [Shots -> Shot \cup {NoShot}], todo' \subseteq Ids \cup Shots
  PROVE  /\ Inv' /\ gameState = "Wave"
         /\ \/ gameState' \in {"Wave", "EndStage"}
            \/ gameState' = "Intermission" /\ wave < NumWaves
<1>1. hp[e] > 0 /\ e \in Ids
  BY TypesOf DEF TakeDamage
<1>2. gameState = "Wave" /\ e \in Alive
  BY <1>1, HitInWave
<1>3. PICK rest \in 0 .. hp[e] - 1 :
        /\ hp' = [hp EXCEPT ![e] = rest]
        /\ IF rest = 0
           THEN DeadEnemyHandle(e)
           ELSE UNCHANGED <<earned, removeQueue, gameState, cleanup>>
  BY DEF TakeDamage
<1>4. hp[e] \in 0 .. EnemyHp /\ EnemyHp \in Nat
  BY <1>1, TypesOf, StageAssumption
<1>5. /\ hp' \in [Ids -> 0 .. EnemyHp] /\ hp'[e] = rest
      /\ \A x \in Ids \ {e} : hp'[x] = hp[x]
  <2>1. rest \in 0 .. EnemyHp
    BY <1>3, <1>4
  <2>2. QED
    BY <1>1, <1>3, <2>1, TypesOf
<1>6. WaveType' /\ TickType'
  BY WaveTypeStays, TypesOf, TypeParts DEF Inv, TickType
<1>7. UNCHANGED <<wave, listIndex, spawnFinished, spawned>>
  BY DEF waveVars
<1>8. ~cleanup
  BY <1>2 DEF Inv, StageInv
<1>9. CASE rest # 0
  <2>1. UNCHANGED <<earned, removeQueue, gameState, cleanup>>
    BY <1>3, <1>9
  <2>2. \A x \in enemies : (hp'[x] > 0) = (hp[x] > 0)
    BY <1>1, <1>3, <1>5, <1>9, TypesOf
  <2>3. Queued' = Queued /\ Alive' = Alive
    BY <2>1, <2>2 DEF Queued, Alive
  <2>4. EnemyType' /\ RoomType'
    <3>1. EnemyType'
      BY <1>5, <1>7, <2>1, TypeParts DEF Inv, EnemyType
    <3>2. RoomType'
      BY <2>1, TypeParts DEF Inv, RoomType
    <3>3. QED
      BY <3>1, <3>2
  <2>5. CountInv'
    BY <1>7, <2>1, <2>3 DEF Inv, CountInv, EveryEnemySettledOnce
  <2>6. QueueInv'
    <3>a. \A x \in Queued : x \in Ids /\ hp[x] = 0
      BY TypesOf DEF Inv, QueueInv
    <3>1. \A x \in Queued : hp'[x] = 0
      BY <1>1, <1>5, <3>a
    <3>2. QED
      BY <2>2, <2>3, <3>1 DEF Inv, QueueInv
  <2>7. WalkInv'
    BY DEF Inv, WalkInv
  <2>8. StageInv'
    BY <1>2, <1>7, <2>1, <2>3 DEF Inv, StageInv
  <2>9. QED
    BY <1>2, <1>6, <2>1, <2>4, <2>5, <2>6, <2>7, <2>8, TypePartsNext DEF Inv
<1>10. CASE rest = 0
  <2>1. /\ earned' = earned + 1 /\ removeQueue' = Append(removeQueue, e)
        /\ CheckEndWave(removeQueue')
    BY <1>3, <1>10 DEF DeadEnemyHandle
  <2>2. \A x \in enemies \ {e} : hp'[x] = hp[x]
    BY <1>5, TypesOf
  <2>3. /\ removeQueue' \in Seq(Ids) /\ Queued' = Queued \cup {e} /\ Alive' = Alive \ {e}
        /\ Cardinality(Alive') \in Nat /\ Cardinality(Alive') = Cardinality(Alive) - 1
        /\ Cardinality(enemies') = Cardinality(Alive') + Len(removeQueue')
        /\ AliveEnemyCount(removeQueue') = Cardinality(Alive')
        /\ Cardinality(Alive') = 0 <=> Alive' = {}
    BY <1>2, <2>1, <2>2, Settle DEF Inv
  <2>4. \/ /\ gameState' = "Wave" /\ cleanup' = cleanup
           /\ ~(spawnFinished /\ Alive' = {})
        \/ /\ gameState' = "Intermission" /\ cleanup' = cleanup
           /\ spawnFinished /\ Alive' = {} /\ wave < NumWaves
        \/ /\ gameState' = "EndStage" /\ cleanup' = TRUE
           /\ spawnFinished /\ Alive' = {}
    BY <1>2, <2>1, <2>3, WaveOrOver
  <2>5. EnemyType'
    BY <1>5, <1>7, <2>3, TypeParts DEF Inv, EnemyType
  <2>6. RoomType'
    <3>1. gameState' \in {"WaitingForPlayers", "Intermission", "Wave", "EndStage"}
          /\ cleanup' \in BOOLEAN
      BY <2>4, SettledTypes
    <3>2. earned' \in Nat
      BY <2>1, TypeParts DEF Inv, RoomType
    <3>3. QED
      BY <3>1, <3>2, TypeParts DEF Inv, RoomType
  <2>7. CountInv'
    <3>1. spawned \in Int /\ earned \in Int /\ wallHp \in Int /\ WallHp \in Int
      BY TypeParts, StageAssumption DEF Inv, RoomType, EnemyType
    <3>2. spawned = earned + (WallHp - wallHp) + Cardinality(Alive) /\ Cardinality(Alive) \in Nat
      BY Finite DEF Inv, CountInv, EveryEnemySettledOnce
    <3>3. spawned' = earned' + (WallHp - wallHp') + Cardinality(Alive')
      BY <1>7, <2>1, <2>3, <3>1, <3>2
    <3>4. QED
      BY <2>3, <3>3 DEF CountInv, EveryEnemySettledOnce
  <2>8. QueueInv'
    <3>1. \A x \in Queued' : hp'[x] = 0
      BY <1>5, <1>10, <2>2, <2>3, TypesOf DEF Inv, QueueInv
    <3>2. \A x \in enemies' \ Queued' : hp'[x] > 0
      BY <2>2, <2>3 DEF Inv, QueueInv
    <3>3. QED
      BY <2>3, <3>1, <3>2 DEF Inv, QueueInv
  <2>9. WalkInv'
    BY DEF Inv, WalkInv
  <2>10. StageInv'
    BY <1>2, <1>7, <1>8, <2>4 DEF Inv, StageInv
  <2>11. QED
    BY <1>2, <1>6, <2>4, <2>5, <2>6, <2>7, <2>8, <2>9, <2>10, TypePartsNext DEF Inv
<1>11. QED
  BY <1>9, <1>10

LEMMA MinionHitsInv ==
  ASSUME "burn" \notin HitEvents, Inv, NEW e \in Ids, MinionHits(e)
  PROVE  /\ Inv' /\ gameState = "Wave"
         /\ \/ gameState' \in {"Wave", "EndStage"}
            \/ gameState' = "Intermission" /\ wave < NumWaves
<1>1. /\ pc = "minions" /\ e \in enemies /\ TakeDamage(e) /\ burning' = burning
      /\ UNCHANGED <<waveVars, enemies, left, seated, wallHp, shots, tickVars>>
  BY DEF MinionHits, FindEnemyInRange, OnHitEvents
<1>2. UNCHANGED <<pc, todo, current>> /\ pc \in {"minions", "projectiles"}
  BY <1>1 DEF tickVars
<1>3. shots' \in [Shots -> Shot \cup {NoShot}] /\ todo' \subseteq Ids \cup Shots
  BY <1>1, <1>2, TypesOf DEF TickType
<1>4. QED
  BY <1>1, <1>2, <1>3, DamageInv

LEMMA ShotHitsInv ==
  ASSUME "burn" \notin HitEvents, Inv, NEW e \in Ids, NEW k \in Shots, ShotHits(k, e)
  PROVE  /\ Inv' /\ gameState = "Wave"
         /\ \/ gameState' \in {"Wave", "EndStage"}
            \/ gameState' = "Intermission" /\ wave < NumWaves
<1>1. /\ pc = "projectiles" /\ shots[k] # NoShot /\ e \in enemies /\ TakeDamage(e)
      /\ burning' = burning
      /\ UNCHANGED <<pc, current, waveVars, enemies, left, seated, wallHp>>
  BY DEF ShotHits, Flying, CheckCollision, GetActiveEnemiesSnapshot, OnHitEvents
<1>2. todo' \subseteq Ids \cup Shots
  BY TypesOf DEF ShotHits, TickType
<1>3. shots[k] \in Shot
  BY <1>1, TypesOf
<1>4. [shots[k] EXCEPT !.hit = @ \cup {e}] \in Shot
  BY <1>3 DEF Shot
<1>5. shots' \in [Shots -> Shot \cup {NoShot}]
  BY <1>4, TypesOf DEF ShotHits
<1>6. pc \in {"minions", "projectiles"}
  BY <1>1
<1>7. QED
  BY <1>1, <1>2, <1>5, <1>6, DamageInv

\* Whoever arrives is alive: it leaves the living, and the wall pays.
LEMMA ArriveInv ==
  ASSUME Inv, NEW e \in Ids, Arrive(e)
  PROVE  /\ Inv'
         /\ \/ gameState' = gameState
            \/ gameState = "Wave" /\ gameState' = "EndStage"
            \/ gameState = "Wave" /\ gameState' = "Intermission" /\ wave < NumWaves
<1>1. /\ pc = "enemies" /\ current = e /\ current' = NoEnemy /\ wallHp' = wallHp - 1
      /\ removeQueue' = Append(removeQueue, e)
      /\ IF wallHp' <= 0 THEN EndStage ELSE CheckEndWave(removeQueue')
      /\ UNCHANGED <<pc, todo, waveVars, enemies, hp, left, burning, seated, earned, shots>>
  BY DEF Arrive, ArrivalEnemyHandle
<1>2. e \in Alive /\ e \notin todo /\ Alive # {}
  BY <1>1, IdsType DEF Inv, WalkInv
<1>3. UNCHANGED <<wave, listIndex, spawnFinished, spawned>>
  BY <1>1 DEF waveVars
<1>4. /\ removeQueue' \in Seq(Ids) /\ Queued' = Queued \cup {e} /\ Alive' = Alive \ {e}
      /\ Cardinality(Alive') \in Nat /\ Cardinality(Alive') = Cardinality(Alive) - 1
      /\ Cardinality(enemies') = Cardinality(Alive') + Len(removeQueue')
      /\ AliveEnemyCount(removeQueue') = Cardinality(Alive')
      /\ Cardinality(Alive') = 0 <=> Alive' = {}
  BY <1>1, <1>2, Settle DEF Inv
<1>5. wallHp \in Int /\ wallHp' \in Int /\ wallHp' <= WallHp
  BY <1>1, TypeParts, StageAssumption DEF Inv, RoomType
<1>6. gameState \in {"Wave", "EndStage"}
  <2>1. gameState \in {"WaitingForPlayers", "Intermission", "Wave", "EndStage"}
    BY DEF Inv, TypeOK
  <2>2. QED
    BY <1>1, <1>2, <2>1 DEF Inv, StageInv
<1>7. gameState = "EndStage" => wallHp <= 0 /\ wallHp' <= 0
  BY <1>1, <1>2, <1>5 DEF Inv, StageInv
<1>8. \/ /\ gameState = "EndStage" /\ gameState' = "EndStage" /\ cleanup' = cleanup
         /\ wallHp' <= 0
      \/ /\ gameState = "Wave" /\ gameState' = "Wave" /\ cleanup' = cleanup
         /\ ~(spawnFinished /\ Alive' = {})
      \/ /\ gameState = "Wave" /\ gameState' = "Intermission" /\ cleanup' = cleanup
         /\ spawnFinished /\ Alive' = {} /\ wave < NumWaves
      \/ /\ gameState = "Wave" /\ gameState' = "EndStage" /\ cleanup' = TRUE
         /\ Alive' = {} \/ wallHp' <= 0
  <2>1. CASE gameState = "EndStage"
    BY <1>1, <1>7, <2>1 DEF EndStage
  <2>2. CASE gameState = "Wave" /\ wallHp' <= 0
    BY <1>1, <2>2 DEF EndStage
  <2>3. CASE gameState = "Wave" /\ ~(wallHp' <= 0)
    BY <1>1, <1>4, <2>3, WaveOrOver
  <2>4. QED
    BY <1>6, <2>1, <2>2, <2>3
<1>9. WaveType' /\ TickType'
  BY <1>1, WaveTypeStays, TypesOf, TypeParts DEF Inv, TickType
<1>10. EnemyType'
  BY <1>1, <1>3, <1>4, TypeParts DEF Inv, EnemyType
<1>11. RoomType'
  <2>1. gameState' \in {"WaitingForPlayers", "Intermission", "Wave", "EndStage"}
        /\ cleanup' \in BOOLEAN
    BY <1>8, SettledTypes
  <2>2. QED
    BY <1>1, <1>5, <2>1, TypeParts DEF Inv, RoomType
<1>12. CountInv'
  <2>1. spawned \in Int /\ earned \in Int /\ WallHp \in Int
    BY TypeParts, StageAssumption DEF Inv, RoomType, EnemyType
  <2>2. spawned = earned + (WallHp - wallHp) + Cardinality(Alive) /\ Cardinality(Alive) \in Nat
    BY Finite DEF Inv, CountInv, EveryEnemySettledOnce
  <2>3. spawned' = earned' + (WallHp - wallHp') + Cardinality(Alive')
    BY <1>1, <1>3, <1>4, <1>5, <2>1, <2>2
  <2>4. QED
    BY <1>4, <2>3 DEF CountInv, EveryEnemySettledOnce
<1>13. QueueInv'
  <2>1. Queued' \subseteq enemies' /\ \A x \in enemies' \ Queued' : hp'[x] > 0
    BY <1>1, <1>2, <1>4 DEF Inv, QueueInv, Alive
  <2>2. QED
    BY <1>1, <2>1 DEF Inv, QueueInv
<1>14. WalkInv'
  BY <1>1, <1>2, <1>4 DEF Inv, WalkInv
<1>15. StageInv'
  <2>1. cleanup <=> gameState = "EndStage"
    BY DEF Inv, StageInv
  <2>2. (cleanup <=> gameState = "EndStage")'
    BY <1>8, <2>1
  <2>3. (/\ gameState = "Intermission" => spawnFinished /\ Alive = {} /\ wave < NumWaves
         /\ gameState = "Wave" => wave > 0 /\ (spawnFinished => Alive # {})
         /\ gameState # "WaitingForPlayers")'
    BY <1>3, <1>8 DEF Inv, StageInv
  <2>4. (gameState = "EndStage" =>
         \/ Alive = {} /\ pc \in {"enemies", "minions", "projectiles", "cleanup"}
         \/ wallHp <= 0 /\ pc \in {"enemies", "cleanup"})'
    BY <1>1, <1>8
  <2>5. QED
    BY <1>1, <1>3, <2>2, <2>3, <2>4 DEF Inv, StageInv
<1>16. QED
  BY <1>8, <1>9, <1>10, <1>11, <1>12, <1>13, <1>14, <1>15, TypePartsNext DEF Inv

\* Once the walk is over the map holds the living, and the queue is empty.
LEMMA EraseInv == ASSUME Inv, EraseRemoved PROVE Inv'
<1>1. /\ pc = "enemies" /\ todo = {} /\ current = NoEnemy
      /\ enemies' = enemies \ Queued /\ removeQueue' = <<>>
      /\ hp' = [e \in Ids |-> IF e \in enemies' THEN hp[e] ELSE 0]
      /\ left' = [e \in Ids |-> IF e \in enemies' THEN left[e] ELSE 0]
      /\ burning' = [e \in Ids |-> e \in enemies' /\ burning[e]]
      /\ IF gameState = "Wave" THEN pc' = "minions" /\ UNCHANGED todo ELSE ToProjectiles
      /\ UNCHANGED <<current, waveVars, roomVars, shots>>
  BY DEF EraseRemoved, Queued
<1>2. Alive = enemies \ Queued /\ enemies' = Alive
  BY <1>1, AliveIs DEF Inv
<1>3. Queued' = {} /\ Len(removeQueue') = 0 /\ removeQueue' \in Seq(Ids)
  BY <1>1, EmptyRange DEF Queued
<1>4. \A e \in enemies' : e \in Ids /\ hp'[e] = hp[e] /\ hp'[e] > 0
  BY <1>1, <1>2, TypesOf DEF Alive
<1>5. Alive' = Alive
  BY <1>2, <1>3, <1>4 DEF Alive, Queued
<1>6. UNCHANGED <<wave, listIndex, spawnFinished, spawned, gameState, cleanup, wallHp, earned>>
  BY <1>1 DEF waveVars, roomVars
<1>7. WaveType' /\ RoomType'
  BY <1>1, WaveTypeStays, RoomTypeStays, TypeParts DEF Inv
<1>8. EnemyType'
  <2>1. spawned \in 0 .. MaxEnemies /\ enemies' \in SUBSET (1 .. spawned)
    BY <1>1, TypeParts DEF Inv, EnemyType
  <2>2. hp' \in [Ids -> 0 .. EnemyHp] /\ left' \in [Ids -> 0 .. PathLength]
    BY <1>1, StageAssumption, TypesOf
  <2>3. burning' \in [Ids -> BOOLEAN]
    BY <1>1
  <2>4. QED
    BY <1>3, <1>6, <2>1, <2>2, <2>3 DEF EnemyType
<1>9. /\ pc' \in {"minions", "projectiles", "cleanup"}
      /\ gameState = "EndStage" => pc' = "cleanup"
      /\ todo' \subseteq Shots
  BY <1>1, ToProjectilesIs
<1>10. TickType'
  BY <1>1, <1>9, TypesOf DEF TickType
<1>11. CountInv'
  <2>1. Cardinality(Alive) \in Nat
    BY Finite DEF Inv
  <2>2. Cardinality(enemies') = Cardinality(Alive') + Len(removeQueue')
    BY <1>2, <1>3, <1>5, <2>1
  <2>3. QED
    BY <1>5, <1>6, <2>2 DEF Inv, CountInv, EveryEnemySettledOnce
<1>12. QueueInv'
  BY <1>1, <1>3, <1>4 DEF Inv, QueueInv
<1>13. WalkInv'
  BY <1>1, <1>9 DEF WalkInv
<1>14. gameState # "WaitingForPlayers"
  BY <1>1 DEF Inv, StageInv
<1>15. StageInv'
  <2>1. (gameState = "EndStage" =>
         \/ Alive = {} /\ pc \in {"enemies", "minions", "projectiles", "cleanup"}
         \/ wallHp <= 0 /\ pc \in {"enemies", "cleanup"})'
    BY <1>5, <1>6, <1>9, <1>1 DEF Inv, StageInv
  <2>2. QED
    BY <1>5, <1>6, <1>9, <1>14, <2>1 DEF Inv, StageInv
<1>16. QED
  BY <1>7, <1>8, <1>10, <1>11, <1>12, <1>13, <1>15, TypePartsNext DEF Inv

-----------------------------------------------------------------------------
(* The invariant *)

LEMMA StutterInv == ASSUME Inv, UNCHANGED vars PROVE Inv'
<1>1. UNCHANGED <<waveVars, enemyVars, roomVars, shots, tickVars, wave, listIndex, remaining,
                  spawnFinished, spawned, enemies, removeQueue, hp, left, burning, seated,
                  gameState, wallHp, cleanup, earned, pc, todo, current>>
  BY DEF vars, waveVars, enemyVars, roomVars, tickVars
<1>2. TypeOK'
  BY <1>1 DEF Inv, TypeOK
<1>3. CountInv' /\ Alive' = Alive /\ Queued' = Queued
  BY <1>1, SameCount, SameEnemies DEF Inv
<1>4. QueueInv' /\ WalkInv'
  BY <1>1, <1>3 DEF Inv, QueueInv, WalkInv
<1>5. StageInv'
  BY <1>1, SameStage DEF Inv, StageInv
<1>6. QED
  BY <1>2, <1>3, <1>4, <1>5 DEF Inv

LEMMA StepInv == "burn" \notin HitEvents => (Inv /\ [Next]_vars => Inv')
<1> SUFFICES ASSUME "burn" \notin HitEvents, Inv, [Next]_vars PROVE Inv'
  OBVIOUS
<1>1. CASE Packet
  BY <1>1, JoinInv, LeaveInv, StartWaveInv DEF Packet
<1>2. CASE BeginUpdate \/ WaitToSpawn \/ SpawnNextEnemy
  BY <1>2, BeginUpdateInv, WaitToSpawnInv, SpawnNextEnemyInv
<1>3. CASE \E e \in Ids : SkipDead(e) \/ UpdateDebuffs(e) \/ Advance(e) \/ Arrive(e)
  BY <1>3, SkipDeadInv, UpdateDebuffsInv, MoveInv, ArriveInv
<1>4. CASE \E e \in Ids : MinionHits(e)
  BY <1>4, MinionHitsInv
<1>5. CASE Stay \/ EraseRemoved
  BY <1>5, MoveInv, EraseInv
<1>6. CASE \E e \in Ids, k \in Shots : MinionFires(e, k) \/ ShotHits(k, e)
  BY <1>6, MinionFiresInv, ShotHitsInv
<1>7. CASE \E k \in Shots : FlyOn(k) \/ Expire(k)
  BY <1>7, ShotInv
<1>8. CASE MinionsDone \/ ProjectilesDone \/ EndUpdate
  BY <1>8, MinionsDoneInv, ProjectilesDoneInv, EndUpdateInv
<1>9. CASE UNCHANGED vars
  BY <1>9, StutterInv
<1>10. QED
  BY <1>1, <1>2, <1>3, <1>4, <1>5, <1>6, <1>7, <1>8, <1>9 DEF Next, Update

\* The invariant of an update: every enemy is alive, or queued for removal, or
\* gone; the walk only comes to those who are not queued; and the state of the
\* stage says which of them there can be (Room::Update and what it calls).
THEOREM RoomTickInv == "burn" \notin HitEvents => (Spec => []Inv)
<1> SUFFICES ASSUME "burn" \notin HitEvents PROVE Spec => []Inv
  OBVIOUS
<1>1. Init => Inv
  BY InitInv
<1>2. Inv /\ [Next]_vars => Inv'
  BY StepInv
<1>3. QED
  BY <1>1, <1>2, PTL DEF Spec

\* Types; no entry of a wave's list is spawned more often than its count says.
THEOREM RoomTickTypes == "burn" \notin HitEvents => (Spec => []TypeOK)
<1> SUFFICES ASSUME "burn" \notin HitEvents PROVE Spec => []TypeOK
  OBVIOUS
<1>1. Inv => TypeOK
  BY DEF Inv
<1>2. Spec => []Inv
  BY RoomTickInv
<1>3. QED
  BY <1>1, <1>2, PTL

\* The difference of the two sizes is the number of living enemies at every
\* moment of every update.
THEOREM RoomTickCount == "burn" \notin HitEvents => (Spec => []AliveCountIsExact)
<1> SUFFICES ASSUME "burn" \notin HitEvents PROVE Spec => []AliveCountIsExact
  OBVIOUS
<1>1. Inv => AliveCountIsExact
  <2> SUFFICES ASSUME Inv PROVE AliveCountIsExact
    OBVIOUS
  <2>1. Cardinality(Alive) \in Nat /\ removeQueue \in Seq(Ids)
    BY Finite DEF Inv, TypeOK
  <2>2. Cardinality(enemies) = Cardinality(Alive) + Len(removeQueue)
    BY DEF Inv, CountInv
  <2>3. QED
    BY <2>1, <2>2, AliveCount DEF AliveCountIsExact
<1>2. Spec => []Inv
  BY RoomTickInv
<1>3. QED
  BY <1>1, <1>2, PTL

\* A wave that is over left nobody behind and nothing to spawn.
THEOREM RoomTickEndsClean == "burn" \notin HitEvents => (Spec => []WaveEndsClean)
<1> SUFFICES ASSUME "burn" \notin HitEvents PROVE Spec => []WaveEndsClean
  OBVIOUS
<1>1. Inv => WaveEndsClean
  BY DEF Inv, StageInv, WaveEndsClean
<1>2. Spec => []Inv
  BY RoomTickInv
<1>3. QED
  BY <1>1, <1>2, PTL

\* A wave that spawns no more has an enemy that will end it.
THEOREM RoomTickCanEnd == "burn" \notin HitEvents => (Spec => []WaveCanEnd)
<1> SUFFICES ASSUME "burn" \notin HitEvents PROVE Spec => []WaveCanEnd
  OBVIOUS
<1>1. Inv => WaveCanEnd
  BY DEF Inv, StageInv, WaveCanEnd
<1>2. Spec => []Inv
  BY RoomTickInv
<1>3. QED
  BY <1>1, <1>2, PTL

\* Every enemy paid its reward, or cost the wall, or is alive.
THEOREM RoomTickSettlesOnce == "burn" \notin HitEvents => (Spec => []EveryEnemySettledOnce)
<1> SUFFICES ASSUME "burn" \notin HitEvents PROVE Spec => []EveryEnemySettledOnce
  OBVIOUS
<1>1. Inv => EveryEnemySettledOnce
  BY DEF Inv, CountInv
<1>2. Spec => []Inv
  BY RoomTickInv
<1>3. QED
  BY <1>1, <1>2, PTL

\* Nothing of a stage is left in a room that waits for players.
THEOREM RoomTickReset == "burn" \notin HitEvents => (Spec => []WaitingRoomIsReset)
<1> SUFFICES ASSUME "burn" \notin HitEvents PROVE Spec => []WaitingRoomIsReset
  OBVIOUS
<1>1. Inv => WaitingRoomIsReset
  BY DEF Inv, StageInv, WaitingRoomIsReset
<1>2. Spec => []Inv
  BY RoomTickInv
<1>3. QED
  BY <1>1, <1>2, PTL

-----------------------------------------------------------------------------
(* RoomLife *)

LEMMA InitLife == Init => Life!Init
BY DEF Init, Life!Init

\* An enemy that is settled ends nothing, a wave, or the stage.
LEMMA SettledLife ==
  ASSUME Inv, wave' = wave, seated' = seated,
         \/ gameState' = gameState
         \/ gameState = "Wave" /\ gameState' \in {"Wave", "EndStage"}
         \/ gameState = "Wave" /\ gameState' = "Intermission" /\ wave < NumWaves
  PROVE  [Life!Next]_(Life!vars)
<1>1. CASE gameState' = gameState
  BY <1>1 DEF Life!vars
<1>2. CASE gameState = "Wave" /\ gameState' = "EndStage"
  BY <1>2 DEF Life!Next, Life!EndStage
<1>3. CASE gameState = "Wave" /\ gameState' = "Intermission" /\ wave < NumWaves
  BY <1>3 DEF Life!Next, Life!EndWave
<1>4. QED
  BY <1>1, <1>2, <1>3

LEMMA ResetLife ==
  ASSUME Inv, Inv', NEW p \in Players, Leave(p)
  PROVE  Life!Leave(p)
<1>1. p \in seated /\ seated' = seated \ {p} /\ Idle
  BY DEF Leave
<1>2. gameState # "EndStage"
  BY <1>1, IdleStates
<1>3. CASE seated' = {}
  <2>1. gameState' = "WaitingForPlayers" /\ wave' = 0
    BY <1>3 DEF Leave, ResetStageState
  <2>2. QED
    BY <1>1, <1>3, <2>1 DEF Life!Leave
<1>4. CASE seated' # {}
  <2>1. gameState' = gameState /\ wave' = wave
    BY <1>4 DEF Leave, waveVars
  <2>2. QED
    BY <1>1, <1>2, <1>4, <2>1 DEF Life!Leave
<1>5. QED
  BY <1>3, <1>4

LEMMA StepLife ==
  "burn" \notin HitEvents => (Inv /\ Inv' /\ [Next]_vars => [Life!Next]_(Life!vars))
<1> SUFFICES ASSUME "burn" \notin HitEvents, Inv, Inv', [Next]_vars
             PROVE  [Life!Next]_(Life!vars)
  OBVIOUS
<1>1. ASSUME NEW p \in Players, Join(p) PROVE Life!Join(p)
  <2>0. /\ Life!Cardinality(seated) = Cardinality(seated)
        /\ Life!Cardinality(seated') = Cardinality(seated')
    BY DEF Life!Cardinality, Cardinality
  <2>1. /\ gameState = "WaitingForPlayers" /\ Cardinality(seated) < 2
        /\ seated' = seated \cup {p} /\ wave' = wave
        /\ gameState' = IF Cardinality(seated') = 2 THEN "Intermission" ELSE gameState
    BY <1>1 DEF Join, waveVars
  <2>2. CASE Cardinality(seated') = 2
    <3>1. gameState' = "Intermission"
      BY <2>1, <2>2
    <3>2. QED
      BY <2>0, <2>1, <2>2, <3>1 DEF Life!Join
  <2>3. CASE Cardinality(seated') # 2
    <3>1. gameState' = "WaitingForPlayers"
      BY <2>1, <2>3
    <3>2. QED
      BY <2>0, <2>1, <2>3, <3>1 DEF Life!Join
  <2>4. QED
    BY <2>2, <2>3
<1>2. ASSUME StartWave PROVE Life!StartWave
  <2>1. /\ seated # {} /\ seated' = seated /\ gameState' = "Wave"
        /\ wave' = IF wave < NumWaves THEN wave + 1 ELSE wave
    BY <1>2 DEF StartWave
  <2>2. gameState # "EndStage"
    BY <1>2, IdleStates DEF StartWave
  <2>3. QED
    BY <2>1, <2>2 DEF Life!StartWave
<1>3. CASE Packet
  BY <1>1, <1>2, <1>3, ResetLife DEF Packet, Life!Next
<1>4. CASE BeginUpdate \/ WaitToSpawn \/ SpawnNextEnemy
  <2>1. UNCHANGED <<seated, gameState, wave>>
    BY <1>4 DEF BeginUpdate, WaitToSpawn, SpawnNextEnemy, waveVars, roomVars
  <2>2. QED
    BY <2>1, SettledLife
<1>5. ASSUME NEW e \in Ids, SkipDead(e) \/ UpdateDebuffs(e) \/ Advance(e) \/ Arrive(e)
      PROVE  [Life!Next]_(Life!vars)
  <2>1. CASE SkipDead(e) \/ Advance(e)
    <3>1. UNCHANGED <<seated, gameState, wave>>
      BY <2>1 DEF SkipDead, Advance, waveVars, roomVars
    <3>2. QED
      BY <3>1, SettledLife
  <2>2. CASE UpdateDebuffs(e)
    <3>1. burning[e] = FALSE
      BY DEF Inv, QueueInv
    <3>2. UNCHANGED <<seated, gameState, wave>>
      BY <2>2, <3>1 DEF UpdateDebuffs, waveVars
    <3>3. QED
      BY <3>2, SettledLife
  <2>3. CASE Arrive(e)
    <3>1. seated' = seated /\ wave' = wave
      BY <2>3 DEF Arrive, waveVars
    <3>2. QED
      BY <2>3, <3>1, ArriveInv, SettledLife
  <2>4. QED
    BY <1>5, <2>1, <2>2, <2>3
<1>6. ASSUME NEW e \in Ids, MinionHits(e) PROVE [Life!Next]_(Life!vars)
  <2>1. seated' = seated /\ wave' = wave
    BY <1>6 DEF MinionHits, waveVars
  <2>2. QED
    BY <1>6, <2>1, MinionHitsInv, SettledLife
<1>7. CASE Stay \/ EraseRemoved
  <2>1. UNCHANGED <<seated, gameState, wave>>
    BY <1>7 DEF Stay, EraseRemoved, waveVars, roomVars
  <2>2. QED
    BY <2>1, SettledLife
<1>8. ASSUME NEW e \in Ids, NEW k \in Shots, MinionFires(e, k) \/ ShotHits(k, e)
      PROVE  [Life!Next]_(Life!vars)
  <2>1. CASE MinionFires(e, k)
    <3>1. UNCHANGED <<seated, gameState, wave>>
      BY <2>1 DEF MinionFires, waveVars, roomVars
    <3>2. QED
      BY <3>1, SettledLife
  <2>2. CASE ShotHits(k, e)
    <3>1. seated' = seated /\ wave' = wave
      BY <2>2 DEF ShotHits, waveVars
    <3>2. QED
      BY <2>2, <3>1, ShotHitsInv, SettledLife
  <2>3. QED
    BY <1>8, <2>1, <2>2
<1>9. ASSUME NEW k \in Shots, FlyOn(k) \/ Expire(k) PROVE [Life!Next]_(Life!vars)
  <2>1. UNCHANGED <<seated, gameState, wave>>
    BY <1>9 DEF FlyOn, Expire, waveVars, roomVars
  <2>2. QED
    BY <2>1, SettledLife
<1>10. CASE MinionsDone \/ ProjectilesDone
  <2>1. UNCHANGED <<seated, gameState, wave>>
    BY <1>10 DEF MinionsDone, ProjectilesDone, waveVars, roomVars
  <2>2. QED
    BY <2>1, SettledLife
<1>11. CASE EndUpdate
  <2>1. CASE cleanup
    <3>1. gameState = "EndStage" /\ gameState' = "WaitingForPlayers" /\ wave' = 0 /\ seated' = seated
      BY <1>11, <2>1 DEF EndUpdate, ResetStageState, Inv, StageInv
    <3>2. QED
      BY <3>1 DEF Life!vars
  <2>2. CASE ~cleanup
    <3>1. UNCHANGED <<seated, gameState, wave>>
      BY <1>11, <2>2 DEF EndUpdate, waveVars
    <3>2. QED
      BY <3>1, SettledLife
  <2>3. QED
    BY <2>1, <2>2
<1>12. CASE UNCHANGED vars
  <2>1. UNCHANGED <<seated, gameState, wave>>
    BY <1>12 DEF vars, waveVars, roomVars
  <2>2. QED
    BY <2>1, SettledLife
<1>13. CASE Update
  BY <1>4, <1>5, <1>6, <1>7, <1>8, <1>9, <1>10, <1>11, <1>13 DEF Update
<1>14. QED
  BY <1>3, <1>12, <1>13 DEF Next

\* From outside, the tick of a room is the life of a room: waves end only when
\* they run, the last one ends the stage, and once the wall has fallen nothing
\* that the same update still reports brings the stage back.
THEOREM RoomTickLife == "burn" \notin HitEvents => (Spec => LifeSpec)
<1> SUFFICES ASSUME "burn" \notin HitEvents PROVE Spec => LifeSpec
  OBVIOUS
<1>1. Init => Life!Init
  BY InitLife
<1>2. Inv /\ Inv' /\ [Next]_vars => [Life!Next]_(Life!vars)
  BY StepLife
<1>3. Spec => []Inv
  BY RoomTickInv
<1>4. QED
  BY <1>1, <1>2, <1>3, PTL DEF Spec, LifeSpec, Life!Spec

=============================================================================
