CONSTANTS
  Width = 3
  NULL = NULL
  NextHop = {h1, h2}
  Routes <- ThreeRoutes
  FibSize = 3
  S = 1
  K = 1
  Operations = {"update", "change", "del"}
  HostBits = FALSE
  Faults <- OneRefused
SPECIFICATION TrieSpec
SYMMETRY HopSymmetry
INVARIANTS ExtIsNearestRoute LookupsAgree TrieIntact NoArrayForgotten
PROPERTIES RouteGetsItsHop ImplementsRouteTable AnswersOldOrNew NewRoutesFollowed
