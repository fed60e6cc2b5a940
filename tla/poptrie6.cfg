CONSTANTS
  Width = 6
  NULL = NULL
  NextHop = {h1, h2}
  Routes <- EndInside
  FibSize = 3
  S = 2
  K = 2
  Operations = {"add", "update", "change", "del"}
  HostBits = FALSE
  Faults <- OneRefused
  IntBits = 3
SPECIFICATION Spec6
SYMMETRY HopSymmetry
INVARIANTS TrieIntact NoArrayForgotten TrieFollowsRib6
