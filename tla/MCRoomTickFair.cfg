SPECIFICATION FairSpec
CONSTANTS
  Players = {p1}
  Waves <- OneWave
  MaxEnemies = 2
  EnemyHp = 2
  PathLength = 1
  WallHp = 2
  Shots = {k1}
  HitEvents = {"burn"}
  NoEnemy = NoEnemy
  NoShot = NoShot
PROPERTY EveryWaveEnds
