SPECIFICATION SyncFairSpec
CONSTANT Rounds = 6
CHECK_DEADLOCK FALSE
INVARIANTS TakeTurns NoLateUpdate
PROPERTY AllRounds
