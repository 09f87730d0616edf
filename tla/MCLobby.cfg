SPECIFICATION Spec
CONSTANTS
  Sessions = {s1, s2, s3}
  Polite = {s1, s2}
  MaxPlayers = 4
  MaxRooms = 2
  StageIds = {1, 2}
  Stages = {1}
  NumWaves = 2
  NoPlayer = NoPlayer
  NoSession = NoSession
  NoRoom = NoRoom
  NoStage = NoStage
SYMMETRY SessionSymmetry
INVARIANTS
  TypeOK
  MembershipMirror
  RoomOccupancy
  WaveMatchesState
  NoGhosts
PROPERTIES
  RoomsLive
  WaveNeedsEveryone
CHECK_DEADLOCK FALSE
