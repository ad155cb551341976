SPECIFICATION PlanSpec
CONSTANTS
  Stations <- ThreeStations
  Inputs <- AnySnapshot
  Edges <- OneWay
  Versions = {"rebal.greedy.v1", "rebal.global.v1"}
  Alpha = 45
  Beta = 55
  MinCapacity = 3
  Allowed <- Usable
  BikeBudget = 60
  MaxMoves = 24
  MaxStationsTouched = 200
CHECK_DEADLOCK FALSE
INVARIANTS PreviewWithinStock UnconstrainedWithinBands NoOpIsHonest
