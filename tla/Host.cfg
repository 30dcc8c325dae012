SPECIFICATION HSpec
CONSTANTS
  Batch = 3
  MaxMsgs = 5
  EarlyStop = TRUE
  Tasks = 2
  MaxJobs = 5
  EcConfigs <- MCEc
  Peers <- MCPeers
  Ids <- MCIds
  Resends = 3
  MaxNet = 3
  Reqs = 1
  MaxReqs = 2
  MaxPorts = 3
  AddrMod = 16
  Chunks <- MCChunks
  Cores = {1, 2}
  Clock = 8
  Low = 3
  SeqFloor = 10
  Gaps <- MCGaps
  MaxSent = 3
  Threads = {1, 2}
  Word = 32
  Epoch = 12
  Ticks = 2
  MaxStarts = 2
  MaxReports = 2
CHECK_DEADLOCK FALSE
INVARIANTS TimerMatches BuffersSafe TeardownOrder JobInputsOwn ForsakenOnlyByLoss HandshakesFit
INVARIANTS ObjectsOutlive TakenDown FoundExactly FileTrue LatencySurvivesWrap
PROPERTIES WorkersEnd ChannelsEnd GrantedReleased
