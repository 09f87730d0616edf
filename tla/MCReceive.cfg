SPECIFICATION FairReceiveSpec
CONSTANTS
  ClientPackets <- AllPackets
  Types <- HandledTypes
  Chunk = 3
  maxPacketsPerSecond = 3
  Second = 2
  packetBlockDuration = 3
  MaxSent = 4
  MaxTime = 4
INVARIANTS ReceiveTypeOK RateIsLimited OnlyFastOnesDropped
PROPERTIES IsStream EveryPacketTaken
CHECK_DEADLOCK FALSE
