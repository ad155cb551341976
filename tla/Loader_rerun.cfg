SPECIFICATION Spec
CONSTANTS
  Loaders = {p1}
  Stations = {"s1", "s2"}
  Times = {1, 2}
  Specs = {"a", "b"}
  NoObject = NoObject
  Objects <- MCObjects
  TornObjects <- MCTorn
  Manifests <- MCManifests
  ReadsDates = FALSE
  MaxReloads = 1
  MaxNamed = 1
  MaxFaults = 0
PROPERTY RerunChangesNothing
CHECK_DEADLOCK FALSE
