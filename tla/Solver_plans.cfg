SPECIFICATION SolverSpec
CONSTANTS
  Stations <- SixStations
  Inputs <- SixInputs
  Edges <- SparseEdges
  Versions = {"rebal.greedy.v1", "rebal.global.v1"}
  Alpha = 45
  Beta = 55
  MinCapacity = 1
  Allowed <- Usable
  BikeBudget = 4
  MaxMoves = 3
  MaxStationsTouched = 5
CHECK_DEADLOCK FALSE
INVARIANTS BudgetsKept MovesExplainResult NeverOvershoots NoEdgeTwice NearestFirst
