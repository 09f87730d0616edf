SPECIFICATION Spec
CONSTANTS
  Players = {p1, p2}
  Waves <- TwoWaves
  MaxEnemies = 4
  EnemyHp = 1
  PathLength = 1
  WallHp = 2
  Shots = {k1}
  HitEvents = {"stun"}
  NoEnemy = NoEnemy
  NoShot = NoShot
SYMMETRY Symmetry
INVARIANTS
  TypeOK
  AliveCountIsExact
  WaveEndsClean
  WaveCanEnd
  EveryEnemySettledOnce
  WaitingRoomIsReset
PROPERTY LifeSpec
