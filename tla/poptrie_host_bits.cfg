CONSTANTS
  Width = 3
  NULL = NULL
  NextHop = {h1, h2}
  Routes <- TwoRoutes
  FibSize = 3
  S = 1
  K = 1
  Operations = {"add"}
  HostBits = TRUE
  Faults <- Faultless
SPECIFICATION TrieSpec
INVARIANTS TrieFollowsRib
