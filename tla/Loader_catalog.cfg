SPECIFICATION Spec
CONSTANTS
  Loaders = {p1, p2}
  Stations = {"s1", "s2"}
  Times = {1, 2}
  Specs = {"a", "b"}
  NoObject = NoObject
  Objects <- MCObjects
  TornObjects <- MCTorn
  Manifests <- MCManifests
  ReadsDates = FALSE
  MaxReloads = 1
  MaxNamed = 1
  MaxFaults = 1
INVARIANTS LoaderTypeOK SnapshotHasRaw WatermarkIsNewest LifecycleIsNewest HistoryTiles NoLockCycle
PROPERTIES ImplementsCatalog
SYMMETRY LoaderSymmetry
CHECK_DEADLOCK FALSE
