SPECIFICATION FairSpec
CONSTANTS
  Players = {p1, p2}
  Rooms = {r1}
  Tiles <- SmallTiles
  StartGold = 3
  Cost = 2
  Price = 1
  MaxLevel = 1
  Reward = 1
  IntMax = 3
  Uses = {1, 6}
  MaxMinions = 2
  MaxAsked = 2
  MaxGold = 3
  NoRoom = NoRoom
  Polite = {p1}
INVARIANTS TypeOK TilesMirrorMinions GoldNeverNegative
PROPERTIES IsShop EveryCommandRuns
