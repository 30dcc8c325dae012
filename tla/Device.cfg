CONSTANTS Depth = 2  Concurrency = 2  MaxArrive = 2  Batch = 2  StopNumber = 2  MAX_THREADS = 3
CONSTANTS Keys <- MCKeys  Configs <- MCConfigs
SPECIFICATION DSpec
INVARIANTS WindowRight WrittenBack NeedsMet EveryPacketAnswered PostedIntact HeadersPrepared 
CHECK_DEADLOCK FALSE
