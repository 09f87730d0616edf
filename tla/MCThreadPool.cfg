SPECIFICATION FairSpec
CONSTANTS
  Workers = {w1, w2}
  Rooms = {r1, r2, r3}
  MaxTicks = 2
  NoRoom = NoRoom
PROPERTIES
  IsBarrier
  EveryTickEnds
  PoolIsJoined
