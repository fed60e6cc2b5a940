CONSTANTS
  A = A  B = B  C = C  D = D  E = E  F = F  bc = bc  zero = zero
  Width = 3
  Mac <- MCMac
  MaxIf = 2
  BROADCAST = bc
  ZeroMac = zero
  Slots <- MCSlots
  MACHASH <- MCMacHash
  IPHASH <- MCIpHash
  FibSize = 8
  MaxBuf = 6
  MaxFib = 8
  Path <- MCPath
  Scenarios <- Networks
SPECIFICATION FairSpec
INVARIANTS TypeOK NoPacketTwice TtlBoundsHops EntriesAreTrue
CHECK_DEADLOCK FALSE
PROPERTIES PromisedArrive FallsSilent
