CONSTANTS
  A = A  B = B  m1 = m1  m2 = m2  m3 = m3  bc = bc  zero = zero
  Width = 3
  Mac <- MCMac
  Cards <- BridgeCards
  MaxIf = 3
  BROADCAST = bc
  ZeroMac = zero
  Slots <- MCSlots
  MACHASH <- MCMacHash
  IPHASH <- MCIpHash
  FibSize = 4
  Arrivals <- BothFrames
  RouteCmds <- NoRoutes
  TcpDsts <- NoAddr
  Answers <- L2AndBoth
  MaxBuf = 1
  MaxFib = 3
SPECIFICATION HSpec
INVARIANTS LearnedPortIsLatest BroadcastFloods
PROPERTIES SwitchedOrFlooded PacketsConserved
