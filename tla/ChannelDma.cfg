SPECIFICATION FairSpec
CONSTANTS
  Batch = 3
  ChannelSize = 2
  DmaDepth = 3
  MaxSend = 9
  EarlyStop = TRUE
CHECK_DEADLOCK FALSE
INVARIANTS QueuesBounded WaitEnds
PROPERTIES BothEnd ImplementsWindow
