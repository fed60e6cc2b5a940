CONSTANTS
  Width = 4
  NULL = NULL
  NextHop = {h1, h2, h3}
  Routes <- ManyRoutes
  FibSize = 3
  S = 1
  K = 2
  Operations = {"add"}
  HostBits = FALSE
  Faults <- Faultless
SPECIFICATION TrieSpec
SYMMETRY HopSymmetry
INVARIANTS TableFits TrieTypeOK TrieIntact NoArrayForgotten TrieFollowsRib
