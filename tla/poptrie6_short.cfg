CONSTANTS
  Width = 6
  NULL = NULL
  NextHop = {h1, h2}
  Routes <- ShortAndRight
  FibSize = 3
  S = 3
  K = 2
  Operations = {"add"}
  HostBits = FALSE
  Faults <- Faultless
  IntBits = 3
SPECIFICATION Spec6
INVARIANTS TrieFollowsRib6
