SPECIFICATION Spec
CONSTANTS
  Unit <- MCUnit
  IPv4 = "ip"
  Depth = 2
  WqeMod = 4
  CtrMod = 16
  Frames <- MCFrames
  MaxPackets = 5
  MaxInFlight = 3
INVARIANTS EchoInOrder
