CONSTANTS
  A = A  B = B  m1 = m1  m2 = m2  m3 = m3  bc = bc  zero = zero
  Width = 3
  Mac <- MCMac
  Cards <- RouterCards
  MaxIf = 2
  BROADCAST = bc
  ZeroMac = zero
  Slots <- MCSlots
  MACHASH <- MCMacHash
  IPHASH <- MCIpHash
  FibSize = 4
  Arrivals <- RouterFrames
  RouteCmds <- RouterRoutes
  TcpDsts <- RouterTcp
  Answers <- L3Only
  MaxBuf = 2
  MaxFib = 3
SPECIFICATION HSpec
INVARIANT LeavesOnRoutedInterface
