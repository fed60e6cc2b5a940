CONSTANTS
  Width = 3
  NULL = NULL
  NextHop = {h1, h2}
  Routes <- ThreeRoutes
  FibSize = 3
  S = 1
  K = 1
  Operations = {"add", "update", "change", "del"}
  HostBits = FALSE
  Faults <- Faultless
SPECIFICATION TrieSpec
INVARIANTS TrieFollowsRib
