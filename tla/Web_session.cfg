SPECIFICATION FairSpec
CONSTANTS
  Stations = {s1, s2}
  NoStation = NoStation
  MaxRuns = 3
INVARIANTS LockPauses DrawerHoldsLock PendingIsActive ResultIsLatest DetailsOfStation
PROPERTY RunsEnd
