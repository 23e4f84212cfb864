SPECIFICATION Spec
CHECK_DEADLOCK FALSE
CONSTANTS
  s1 = s1
  s2 = s2
  w1 = w1
  w2 = w2
  p1 = p1
  p2 = p2
  Socks <- TwoSocks
  Workers <- TwoWorkers
  Homes <- MCHomes
  Peers <- TwoPeers
  Ports <- OnePort
  Ephemeral <- OnePort
  Steer <- MCSteer
  RcvMax = 1
  Threads = 2
  Uses <- MCUses
  Calls = 3
  Packets = 1
INVARIANTS
  
  
  ChaseEnds
