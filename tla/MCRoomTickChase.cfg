SPECIFICATION ShotFairSpec
CONSTANTS
  Players = {p1}
  Waves <- ShortWaves
  MaxEnemies = 3
  EnemyHp = 1
  PathLength = 1
  WallHp = 3
  Shots = {k1}
  HitEvents = {}
  NoEnemy = NoEnemy
  NoShot = NoShot
PROPERTY EveryShotEnds
