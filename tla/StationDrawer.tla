----------------------------- MODULE StationDrawer -----------------------------
(***************************************************************************)
(* The drawer of a station (apps/web/src/components/hud/StationDrawer.tsx) *)
(* and the details it loads on demand.  The component stays mounted: what  *)
(* it holds outlives the station it was loaded for.  An aborted fetch      *)
(* rejects in the microtasks of the event that aborts it, so its catch     *)
(* block belongs to that event.                                            *)
(***************************************************************************)
CONSTANTS Stations, NoStation

ASSUME StationsAssumption == NoStation \notin Stations

VARIABLES selected,  \* the station the drawer is open for
          tier2,     \* its details: [status, station they were loaded for]
          debounce,  \* the station of the pending debounce timer
          fetch      \* the station of the fetch in flight

drawerVars == <<selected, tier2, debounce, fetch>>

SomeStation == Stations \cup {NoStation}

DrawerTypeOK ==
  /\ selected \in SomeStation /\ debounce \in SomeStation /\ fetch \in SomeStation
  /\ tier2 \in [status : {"idle", "loading", "success", "error"},
                station : SomeStation]

DrawerInit == /\ selected = NoStation /\ debounce = NoStation /\ fetch = NoStation
              /\ tier2 = [status |-> "idle", station |-> NoStation]

\* Mutant: the effect's cleanup clears the timer but lets the fetch finish.
MutSelect(s) ==
  /\ selected' = s /\ debounce' = NoStation /\ UNCHANGED fetch
  /\ tier2' = IF s = NoStation \/ s = selected THEN tier2
              ELSE [status |-> "idle", station |-> NoStation]

\* setSelected: when the station changes, the cleanup of the old one clears
\* the timer and aborts the fetch, whose catch block reports an error after
\* the effect of the new one has reset the details.
Select(s) ==
  /\ selected' = s
  /\ IF s = selected THEN UNCHANGED <<tier2, debounce, fetch>>
     ELSE /\ debounce' = NoStation /\ fetch' = NoStation
          /\ tier2' = CASE fetch # NoStation -> [status |-> "error", station |-> fetch]
                        [] fetch = NoStation /\ s = NoStation -> tier2
                        [] OTHER -> [status |-> "idle", station |-> NoStation]

\* onLoadTier2; the button is disabled while details load, so that no timer
\* and no fetch is pending here.
LoadTier2 ==
  /\ selected # NoStation /\ tier2.status # "loading"
  /\ tier2' = [status |-> "loading", station |-> selected]
  /\ debounce' = selected /\ UNCHANGED <<selected, fetch>>

FetchTier2 == /\ debounce # NoStation
              /\ fetch' = debounce /\ debounce' = NoStation
              /\ UNCHANGED <<selected, tier2>>

Tier2Answer == /\ fetch # NoStation /\ fetch' = NoStation
               /\ \E status \in {"success", "error"} :
                    tier2' = [status |-> status, station |-> fetch]
               /\ UNCHANGED <<selected, debounce>>

Drawer == FetchTier2 \/ Tier2Answer
=============================================================================
