SPECIFICATION Spec
CONSTANTS
  Clients = {1, 2}
  TxSlots = {1}
  Accounts = {1, 2}
  TypesUsed <- MCTypes
  MaxCommits = 2
  Big = 100
  Concurrency = 2
  Buffers = 4
  QueueSize = 4
  IndexMod = 8
  IdMod = 4
  DpaThreads = {1, 2}
  DpaConcurrency = 4
  DTxns <- MCDTxns
  DpaAccounts = {0, 1}
CHECK_DEADLOCK FALSE
INVARIANTS LocksExact SerialUnlessOverlapped
INVARIANTS SlotsDistinct NothingLost ExactUntilStolen
PROPERTIES StoresUnderLock
