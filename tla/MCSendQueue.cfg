SPECIFICATION FairSpec
CONSTANTS
  Main = main
  Workers = {w1, w2}
  MaxSends = 2
INVARIANT OneTokenHolder
PROPERTIES
  BufferStays
  IsOrderedChannel
  EveryPacketArrives
