SPECIFICATION Spec
CONSTANTS
  Stations = {s1}
  NoStation = NoStation
  MaxRuns = 2
INVARIANT LastRunStands
