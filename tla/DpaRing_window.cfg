SPECIFICATION Spec
CONSTANTS
  Unit <- MCUnit
  IPv4 = "ip"
  Depth = 2
  WqeMod = 4
  CtrMod = 16
  Frames <- MCFrames
  MaxPackets = 6
  MaxInFlight = 6
INVARIANTS PollExact CqeKept
