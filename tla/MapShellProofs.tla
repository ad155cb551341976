---------------------------- MODULE MapShellProofs ----------------------------
(***************************************************************************)
(* The lock, the drawer and the optimisation session of the web client     *)
(* keep together, for any number of runs and stations.                     *)
(***************************************************************************)
EXTENDS MapShell, TLAPS

\* Nothing remembered from before the tab was hidden outlives its return, and
\* a locked clock remembers nothing to resume.
HudSafe ==
  /\ LockPauses
  /\ hud.inspectLocked => ~hud.wasPlayingBeforeHidden
  /\ hud.wasPlayingBeforeHidden => hidden

\* A timer or fetch of the drawer is for its station, and its badge says so.
DrawerSafe ==
  /\ DrawerHoldsLock /\ DetailsOfStation
  /\ fetch = NoStation \/ debounce = NoStation
  /\ fetch # NoStation => fetch = selected /\ tier2.status = "loading"
  /\ debounce # NoStation => debounce = selected /\ tier2.status = "loading"

\* Runs to come are untouched, and nothing is known of them.
RunsFresh ==
  /\ \A r \in Runs : r > nextRequest => request[r] = [at |-> "none", aborted |-> FALSE]
  /\ abortRef <= nextRequest /\ \A r \in dismissed : r <= nextRequest

\* An active request is the latest one, for the key the session is frozen at.
ActiveIsLatest ==
  session.activeRequestId # None =>
    /\ session.activeRequestId = nextRequest /\ session.frozenRunKey = nextRequest
    /\ nextRequest \notin dismissed

\* A live session shows nothing of a run, and a run is not played back while
\* another is pending.
ModesApart ==
  /\ session.mode = "live" => status = "idle"
  /\ status = "pending" => nextRequest # None /\ timer = None

SessionSafe == /\ RunsFresh /\ ActiveIsLatest /\ ModesApart
               /\ PendingIsActive /\ ResultIsLatest

ShellInv == WebTypeOK /\ HudSafe /\ DrawerSafe /\ SessionSafe

------------------------------------------------------------------------------

LEMMA InitShell == Init => ShellInv
<1> SUFFICES ASSUME Init PROVE ShellInv
  OBVIOUS
<1>1. WebTypeOK
  BY MaxRunsAssumption, StationsAssumption
  DEF Init, HudInit, DrawerInit, WebTypeOK, HudType, DrawerTypeOK, SomeStation,
      PolicyTypeOK, Runs, None, InFlight
<1>2. HudSafe /\ DrawerSafe
  BY DEF Init, HudInit, DrawerInit, HudSafe, LockPauses, DrawerSafe, DrawerHoldsLock,
         DetailsOfStation
<1>3. SessionSafe
  BY MaxRunsAssumption
  DEF Init, SessionSafe, RunsFresh, ActiveIsLatest, ModesApart, PendingIsActive,
      ResultIsLatest, Runs, None
<1> QED
  BY <1>1, <1>2, <1>3 DEF ShellInv

\* Selecting a station, or none, leaves the drawer consistent.
LEMMA SelectSafe ==
  ASSUME ShellInv, NEW s \in SomeStation, Select(s), hud' \in HudType,
         hud'.inspectLocked <=> s # NoStation
  PROVE  DrawerTypeOK' /\ DrawerSafe'
<1>1. DrawerTypeOK /\ DrawerSafe
  BY DEF ShellInv, WebTypeOK
<1>2. DrawerTypeOK'
  BY <1>1, StationsAssumption DEF DrawerTypeOK, Select, SomeStation
<1>3. DrawerSafe'
  BY <1>1, StationsAssumption
  DEF DrawerTypeOK, DrawerSafe, DrawerHoldsLock, DetailsOfStation, Select, SomeStation
<1> QED
  BY <1>2, <1>3

\* The hook's handlers keep its type.
LEMMA HandlerTypes ==
  ASSUME NEW h \in HudType, NEW u \in HudType
  PROVE  /\ EnterReplayPaused(u) \in HudType /\ Seek(h, u) \in HudType
         /\ TogglePlay(h, u) \in HudType /\ GoLive(h, u) \in HudType
         /\ OnInspectOpen(h, u) \in HudType /\ OnInspectClose(h, u) \in HudType
BY DEF HudType, EnterReplayPaused, Seek, TogglePlay, GoLive, OnInspectOpen, OnInspectClose

\* Aborting a controller's run touches no run to come.
LEMMA AbortedTyped ==
  ASSUME ShellInv
  PROVE  /\ Aborted(request) \in [Runs -> [at : {"none", "done", "local"} \cup InFlight,
                                          aborted : BOOLEAN]]
         /\ \A r \in Runs : r > nextRequest =>
              Aborted(request)[r] = [at |-> "none", aborted |-> FALSE]
         /\ \A r \in Runs : r # abortRef => Aborted(request)[r] = request[r]
         /\ \A r \in Runs : Aborted(request)[r].at = request[r].at
<1>1. request \in [Runs -> [at : {"none", "done", "local"} \cup InFlight,
                             aborted : BOOLEAN]]
  BY DEF ShellInv, WebTypeOK, PolicyTypeOK
<1>2. \A r \in Runs : /\ r # abortRef => Aborted(request)[r] = request[r]
                      /\ r = abortRef => Aborted(request)[r] = [request[r] EXCEPT !.aborted = TRUE]
  BY DEF Aborted
<1>3. \A r \in Runs : /\ Aborted(request)[r] \in [at : {"none", "done", "local"} \cup InFlight,
                                                   aborted : BOOLEAN]
                      /\ Aborted(request)[r].at = request[r].at
  BY <1>1, <1>2
<1>4. \A r \in Runs : r > nextRequest => r # abortRef
  BY DEF ShellInv, WebTypeOK, PolicyTypeOK, SessionSafe, RunsFresh, Runs, None
<1>5. Aborted(request) \in [Runs -> [at : {"none", "done", "local"} \cup InFlight,
                                    aborted : BOOLEAN]]
  BY <1>3, Zenon DEF Aborted
<1> QED
  BY <1>1, <1>2, <1>3, <1>4, <1>5 DEF ShellInv, SessionSafe, RunsFresh

------------------------------------------------------------------------------
(* The actions.                                                            *)

\* The session is left alone by what only moves the hook or the drawer.
LEMMA SessionUntouched ==
  ASSUME ShellInv, UNCHANGED policyVars
  PROVE  PolicyTypeOK' /\ SessionSafe'
BY DEF ShellInv, WebTypeOK, PolicyTypeOK, SessionSafe, RunsFresh, ActiveIsLatest,
       ModesApart, PendingIsActive, ResultIsLatest, policyVars

LEMMA DrawerUntouched ==
  ASSUME ShellInv, UNCHANGED drawerVars, hud'.inspectLocked = hud.inspectLocked
  PROVE  DrawerTypeOK' /\ DrawerSafe'
BY DEF ShellInv, WebTypeOK, DrawerTypeOK, DrawerSafe, DrawerHoldsLock, DetailsOfStation,
       drawerVars

\* A step of the hook that keeps the lock and starts nothing under it.
LEMMA HudSteps ==
  ASSUME ShellInv, hud' \in HudType, UNCHANGED hidden,
         hud'.inspectLocked = hud.inspectLocked,
         hud'.wasPlayingBeforeHidden = hud.wasPlayingBeforeHidden,
         hud'.playing => hud.playing \/ ~hud.inspectLocked
  PROVE  HudSafe'
BY DEF ShellInv, HudSafe, LockPauses

\* What RunPolicy does to the session.
LEMMA RunPolicySafe == ShellInv /\ RunPolicy => ShellInv'
<1> SUFFICES ASSUME ShellInv, RunPolicy PROVE ShellInv'
  OBVIOUS
<1> DEFINE r == nextRequest + 1
<1>1. hud \in HudType /\ hud' = Seek(hud, hud) /\ UNCHANGED <<hidden, drawerVars>>
  BY DEF RunPolicy, ShellInv, WebTypeOK
<1>2. hud' \in HudType
  BY <1>1, HandlerTypes
<1>3. /\ hud'.inspectLocked = hud.inspectLocked
      /\ hud'.wasPlayingBeforeHidden = hud.wasPlayingBeforeHidden
      /\ hud'.playing => hud.playing
  BY <1>1 DEF HudType, Seek, EnterReplayPaused
<1>4. HudSafe' /\ DrawerTypeOK' /\ DrawerSafe'
  BY <1>1, <1>2, <1>3, HudSteps, DrawerUntouched
<1>5. r \in Runs /\ r > nextRequest /\ r # None /\ nextRequest' = r
  BY MaxRunsAssumption DEF RunPolicy, ShellInv, WebTypeOK, PolicyTypeOK, Runs, None
<1>6. /\ request' \in [Runs -> [at : {"none", "done", "local"} \cup InFlight,
                                 aborted : BOOLEAN]]
      /\ request'[r].at = (IF hud.server THEN "posting" ELSE "local")
      /\ ~request'[r].aborted
      /\ \A i \in Runs : i > r => request'[i] = [at |-> "none", aborted |-> FALSE]
  <2>1. request' = [Aborted(request) EXCEPT
                      ![r].at = IF hud.server THEN "posting" ELSE "local"]
    BY DEF RunPolicy
  <2>2. (IF hud.server THEN "posting" ELSE "local")
          \in {"none", "done", "local"} \cup InFlight
    BY DEF InFlight
  <2>3. ~Aborted(request)[r].aborted
    BY <1>5, AbortedTyped
  <2>4. \A i \in Runs : i > r => i > nextRequest /\ i # r
    BY <1>5 DEF ShellInv, WebTypeOK, PolicyTypeOK, Runs, None
  <2> QED
    BY <1>5, <2>1, <2>2, <2>3, <2>4, AbortedTyped
<1>7. /\ abortRef' \in {r, None} /\ status' = "pending" /\ timer' = None
      /\ session' = [mode |-> "computing", activeRequestId |-> r, frozenRunKey |-> r]
      /\ readyKey' = readyKey /\ dismissed' = dismissed
  BY DEF RunPolicy
<1>8. PolicyTypeOK'
  BY <1>5, <1>6, <1>7 DEF ShellInv, WebTypeOK, PolicyTypeOK
<1>9. r \notin dismissed
  BY <1>5 DEF ShellInv, WebTypeOK, PolicyTypeOK, SessionSafe, RunsFresh, Runs, None
<1>10. RunsFresh'
  BY <1>5, <1>6, <1>7 DEF ShellInv, WebTypeOK, PolicyTypeOK, SessionSafe, RunsFresh, Runs, None
<1>11. SessionSafe'
  BY <1>5, <1>6, <1>7, <1>9, <1>10
  DEF SessionSafe, ActiveIsLatest, ModesApart, PendingIsActive, ResultIsLatest, InFlight
<1> QED
  BY <1>1, <1>2, <1>4, <1>8, <1>11 DEF ShellInv, WebTypeOK

\* Cancelling, changing the strategy and leaving the preview end the latest run.
LEMMA AbandonSafe ==
  ASSUME ShellInv, Abandon, status' = "idle", UNCHANGED nextRequest,
         session' \in [mode : {"live", "frozen", "computing", "playback", "error"},
                       activeRequestId : {None}, frozenRunKey : Runs \cup {None}],
         readyKey' \in Runs \cup {None}
  PROVE  PolicyTypeOK' /\ SessionSafe'
<1>1. /\ request' = Aborted(request) /\ abortRef' = None /\ timer' = None
      /\ dismissed' = dismissed \cup (Runs \cap {nextRequest})
  BY DEF Abandon
<1>2. PolicyTypeOK'
  BY <1>1, AbortedTyped DEF ShellInv, WebTypeOK, PolicyTypeOK
<1>3. RunsFresh'
  BY <1>1, AbortedTyped
  DEF ShellInv, WebTypeOK, PolicyTypeOK, SessionSafe, RunsFresh, Runs, None
<1>4. SessionSafe'
  BY <1>1, <1>3
  DEF SessionSafe, ActiveIsLatest, ModesApart, PendingIsActive, ResultIsLatest
<1> QED
  BY <1>2, <1>4

LEMMA ExitPreviewSafe == ShellInv /\ ExitPreview => ShellInv'
<1> SUFFICES ASSUME ShellInv, ExitPreview PROVE ShellInv'
  OBVIOUS
<1>1. /\ hud \in HudType /\ hud' = GoLive(hud, OnInspectClose(hud, hud))
      /\ hidden' = hidden /\ hidden \in BOOLEAN /\ Select(NoStation) /\ NoStation \in SomeStation
  BY DEF ExitPreview, ShellInv, WebTypeOK, SomeStation
<1>2. hud' \in HudType
  BY <1>1, HandlerTypes
<1>3. /\ ~hud'.inspectLocked
      /\ hud'.wasPlayingBeforeHidden = hud.wasPlayingBeforeHidden
  BY <1>1 DEF HudType, GoLive, OnInspectClose
<1>4. HudSafe'
  BY <1>1, <1>3 DEF ShellInv, HudSafe, LockPauses
<1>5. DrawerTypeOK' /\ DrawerSafe'
  BY <1>1, <1>2, <1>3, SelectSafe
<1>6. PolicyTypeOK' /\ SessionSafe'
  <2>1. /\ Abandon /\ status' = "idle" /\ session' = LiveSession
        /\ UNCHANGED <<readyKey, nextRequest>>
    BY DEF ExitPreview
  <2>2. readyKey \in Runs \cup {None}
    BY DEF ShellInv, WebTypeOK, PolicyTypeOK
  <2>3. session' \in [mode : {"live", "frozen", "computing", "playback", "error"},
                      activeRequestId : {None}, frozenRunKey : Runs \cup {None}]
    BY <2>1 DEF LiveSession
  <2> QED
    BY <2>1, <2>2, <2>3, AbandonSafe
<1> QED
  BY <1>1, <1>2, <1>4, <1>5, <1>6 DEF ShellInv, WebTypeOK

\* A step that leaves hook and drawer alone.
LEMMA OnlySession ==
  ASSUME ShellInv, UNCHANGED <<hud, hidden, drawerVars>>, PolicyTypeOK', SessionSafe'
  PROVE  ShellInv'
<1>1. DrawerTypeOK' /\ DrawerSafe'
  BY DrawerUntouched
<1>2. hud' \in HudType /\ hidden' \in BOOLEAN /\ HudSafe'
  BY DEF ShellInv, WebTypeOK, HudSafe, LockPauses
<1> QED
  BY <1>1, <1>2 DEF ShellInv, WebTypeOK

LEMMA CancelSafe == ShellInv /\ (CancelPolicy \/ ChangeStrategy) => ShellInv'
<1> SUFFICES ASSUME ShellInv, CancelPolicy \/ ChangeStrategy PROVE ShellInv'
  OBVIOUS
<1>1. /\ Abandon /\ status' = "idle" /\ UNCHANGED nextRequest
      /\ UNCHANGED <<hud, hidden, drawerVars>> /\ readyKey' \in {readyKey, None}
      /\ session' = [session EXCEPT !.mode = session'.mode, !.activeRequestId = None]
      /\ session'.mode \in {"live", "frozen"}
  <2>1. session \in [mode : {"live", "frozen", "computing", "playback", "error"},
                     activeRequestId : Runs \cup {None}, frozenRunKey : Runs \cup {None}]
    BY DEF ShellInv, WebTypeOK, PolicyTypeOK
  <2> QED
    BY <2>1 DEF CancelPolicy, ChangeStrategy
<1>2. session' \in [mode : {"live", "frozen", "computing", "playback", "error"},
                    activeRequestId : {None}, frozenRunKey : Runs \cup {None}]
  BY <1>1 DEF ShellInv, WebTypeOK, PolicyTypeOK
<1>3. readyKey' \in Runs \cup {None}
  BY <1>1 DEF ShellInv, WebTypeOK, PolicyTypeOK
<1>4. PolicyTypeOK' /\ SessionSafe'
  BY <1>1, <1>2, <1>3, AbandonSafe
<1> QED
  BY <1>1, <1>4, OnlySession

LEMMA HudOnlySafe ==
  ShellInv /\ (TogglePlayback \/ SeekOrStep \/ LiveKey) => ShellInv'
<1> SUFFICES ASSUME ShellInv, TogglePlayback \/ SeekOrStep \/ LiveKey PROVE ShellInv'
  OBVIOUS
<1>1. /\ hud \in HudType /\ hidden \in BOOLEAN /\ UNCHANGED <<hidden, drawerVars, policyVars>>
      /\ hud' \in {TogglePlay(hud, hud), Seek(hud, hud), GoLive(hud, hud)}
  BY DEF TogglePlayback, SeekOrStep, LiveKey, HudOnly, ShellInv, WebTypeOK
<1>2. hud' \in HudType
  BY <1>1, HandlerTypes
<1>3. /\ hud'.inspectLocked = hud.inspectLocked
      /\ hud'.wasPlayingBeforeHidden = hud.wasPlayingBeforeHidden
      /\ hud'.playing => hud.playing \/ ~hud.inspectLocked
  BY <1>1 DEF HudType, TogglePlay, Seek, EnterReplayPaused, GoLive
<1>4. HudSafe' /\ DrawerTypeOK' /\ DrawerSafe'
  BY <1>1, <1>2, <1>3, HudSteps, DrawerUntouched
<1>5. PolicyTypeOK' /\ SessionSafe'
  BY <1>1, SessionUntouched
<1> QED
  BY <1>1, <1>2, <1>4, <1>5 DEF ShellInv, WebTypeOK

\* "Go Live" is shown while the session is live, and then nothing of a run is.
LEMMA GoLiveSafe == ShellInv /\ ClickGoLive => ShellInv'
<1> SUFFICES ASSUME ShellInv, ClickGoLive PROVE ShellInv'
  OBVIOUS
<1>1. /\ hud \in HudType /\ hidden \in BOOLEAN /\ UNCHANGED <<hidden, drawerVars>>
      /\ hud' = GoLive(hud, hud) /\ ~hud.inspectLocked
  BY DEF ClickGoLive, ShellInv, WebTypeOK
<1>2. hud' \in HudType
  BY <1>1, HandlerTypes
<1>3. /\ hud'.inspectLocked = hud.inspectLocked
      /\ hud'.wasPlayingBeforeHidden = hud.wasPlayingBeforeHidden
  BY <1>1 DEF HudType, GoLive
<1>4. HudSafe' /\ DrawerTypeOK' /\ DrawerSafe'
  BY <1>1, <1>2, <1>3, HudSteps, DrawerUntouched
<1>5. /\ session.mode = "live" /\ session' = LiveSession /\ timer' = None
      /\ UNCHANGED <<status, readyKey, abortRef, request, nextRequest, dismissed>>
  BY DEF ClickGoLive, PreviewMode
<1>6. status = "idle"
  BY <1>5 DEF ShellInv, SessionSafe, ModesApart
<1>7. PolicyTypeOK'
  BY <1>5 DEF ShellInv, WebTypeOK, PolicyTypeOK, LiveSession
<1>8. SessionSafe'
  BY <1>5, <1>6
  DEF ShellInv, SessionSafe, RunsFresh, ActiveIsLatest, ModesApart, PendingIsActive,
      ResultIsLatest, LiveSession
<1> QED
  BY <1>1, <1>2, <1>4, <1>7, <1>8 DEF ShellInv, WebTypeOK

\* A session that stays out of live and keeps its ids keeps what is known of it.
LEMMA ModeOnly ==
  ASSUME ShellInv, NEW m \in {"frozen", "playback"},
         session' = [session EXCEPT !.mode = m],
         UNCHANGED <<status, readyKey, timer, abortRef, request, nextRequest, dismissed>>
  PROVE  PolicyTypeOK' /\ SessionSafe'
<1>1. PolicyTypeOK'
  BY DEF ShellInv, WebTypeOK, PolicyTypeOK
<1>2. /\ session'.activeRequestId = session.activeRequestId
      /\ session'.frozenRunKey = session.frozenRunKey /\ session'.mode = m
  BY DEF ShellInv, WebTypeOK, PolicyTypeOK
<1>3. SessionSafe'
  BY <1>2
  DEF ShellInv, SessionSafe, RunsFresh, ActiveIsLatest, ModesApart, PendingIsActive,
      ResultIsLatest
<1> QED
  BY <1>1, <1>3

LEMMA OpenInspectSafe ==
  ASSUME ShellInv, NEW s \in Stations, OpenInspect(s)
  PROVE  ShellInv'
<1>1. /\ hud \in HudType /\ hidden' = hidden /\ hidden = FALSE /\ Select(s) /\ s \in SomeStation
      /\ s # NoStation
      /\ UNCHANGED <<status, readyKey, timer, abortRef, request, nextRequest, dismissed>>
  BY StationsAssumption DEF OpenInspect, UserEvent, ShellInv, WebTypeOK, SomeStation
<1>2. CASE selected = NoStation
  <2>1. /\ hud' = OnInspectOpen(hud, hud)
        /\ session' = [session EXCEPT !.mode = IF @ = "playback" THEN @ ELSE "frozen"]
    BY <1>2 DEF OpenInspect
  <2>2. hud' \in HudType
    BY <1>1, <2>1, HandlerTypes
  <2>3. /\ hud'.inspectLocked /\ ~hud'.playing
        /\ hud'.wasPlayingBeforeHidden = hud.wasPlayingBeforeHidden
    BY <1>1, <2>1 DEF HudType, OnInspectOpen
  <2>4. HudSafe'
    BY <1>1, <2>3 DEF ShellInv, HudSafe, LockPauses
  <2>5. DrawerTypeOK' /\ DrawerSafe'
    BY <1>1, <2>2, <2>3, SelectSafe
  <2>6. PolicyTypeOK' /\ SessionSafe'
    BY <1>1, <2>1, ModeOnly
  <2> QED
    BY <1>1, <2>2, <2>4, <2>5, <2>6 DEF ShellInv, WebTypeOK
<1>3. CASE selected # NoStation
  <2>1. UNCHANGED <<hud, session>> /\ hud.inspectLocked
    BY <1>3 DEF OpenInspect, ShellInv, DrawerSafe, DrawerHoldsLock
  <2>2. hud' \in HudType /\ HudSafe'
    BY <1>1, <2>1 DEF ShellInv, HudSafe, LockPauses
  <2>3. DrawerTypeOK' /\ DrawerSafe'
    BY <1>1, <2>1, <2>2, SelectSafe
  <2>4. PolicyTypeOK' /\ SessionSafe'
    BY <1>1, <2>1, SessionUntouched DEF policyVars
  <2> QED
    BY <1>1, <2>2, <2>3, <2>4 DEF ShellInv, WebTypeOK
<1> QED
  BY <1>2, <1>3

\* The lock has kept the playback still, so the session does not become live.
LEMMA CloseInspectSafe == ShellInv /\ CloseInspect => ShellInv'
<1> SUFFICES ASSUME ShellInv, CloseInspect PROVE ShellInv'
  OBVIOUS
<1>1. /\ hud \in HudType /\ hidden' = hidden /\ hidden \in BOOLEAN /\ Select(NoStation)
      /\ NoStation \in SomeStation /\ hud' = OnInspectClose(hud, hud) /\ ~hud.playing
      /\ UNCHANGED <<status, readyKey, timer, abortRef, request, nextRequest, dismissed>>
  BY DEF CloseInspect, ShellInv, WebTypeOK, SomeStation, HudSafe, LockPauses, DrawerSafe,
         DrawerHoldsLock
<1>2. hud' \in HudType
  BY <1>1, HandlerTypes
<1>3. /\ ~hud'.inspectLocked
      /\ hud'.wasPlayingBeforeHidden = hud.wasPlayingBeforeHidden
  BY <1>1 DEF HudType, OnInspectClose
<1>4. HudSafe'
  BY <1>1, <1>3 DEF ShellInv, HudSafe, LockPauses
<1>5. DrawerTypeOK' /\ DrawerSafe'
  BY <1>1, <1>2, <1>3, SelectSafe
<1>6. PolicyTypeOK' /\ SessionSafe'
  <2>1. session' = [session EXCEPT !.mode = "frozen"]
    BY <1>1 DEF CloseInspect
  <2> QED
    BY <1>1, <2>1, ModeOnly
<1> QED
  BY <1>1, <1>2, <1>4, <1>5, <1>6 DEF ShellInv, WebTypeOK

\* The drawer's own steps.
LEMMA DrawerSteps ==
  ShellInv /\ (LoadTier2 \/ Drawer) /\ UNCHANGED <<hud, hidden, policyVars>> => ShellInv'
<1> SUFFICES ASSUME ShellInv, LoadTier2 \/ Drawer, UNCHANGED <<hud, hidden, policyVars>>
             PROVE  ShellInv'
  OBVIOUS
<1>1. DrawerTypeOK /\ DrawerSafe
  BY DEF ShellInv, WebTypeOK
<1>2. hud'.inspectLocked = hud.inspectLocked
  OBVIOUS
<1>3. DrawerTypeOK' /\ DrawerSafe'
  <2>1. CASE LoadTier2
    <3>1. DrawerTypeOK'
      BY <1>1, <2>1 DEF DrawerTypeOK, LoadTier2
    <3>2. DrawerSafe'
      BY <1>1, <1>2, <2>1
      DEF DrawerTypeOK, DrawerSafe, DrawerHoldsLock, DetailsOfStation, LoadTier2
    <3> QED
      BY <3>1, <3>2
  <2>2. CASE FetchTier2
    <3>1. /\ fetch' = debounce /\ debounce' = NoStation /\ debounce # NoStation
          /\ UNCHANGED <<selected, tier2>>
      BY <2>2 DEF FetchTier2
    <3>2. DrawerTypeOK'
      BY <1>1, <3>1 DEF DrawerTypeOK, SomeStation
    <3>3. DrawerSafe'
      BY <1>1, <1>2, <3>1 DEF DrawerSafe, DrawerHoldsLock, DetailsOfStation
    <3> QED
      BY <3>2, <3>3
  <2>3. CASE Tier2Answer
    <3>1. PICK a \in {"success", "error"} :
            tier2' = [status |-> a, station |-> fetch]
      BY <2>3 DEF Tier2Answer
    <3>2. /\ fetch # NoStation /\ fetch' = NoStation
          /\ UNCHANGED <<selected, debounce>>
      BY <2>3 DEF Tier2Answer
    <3>3. DrawerTypeOK'
      BY <1>1, <3>1, <3>2 DEF DrawerTypeOK, SomeStation
    <3>4. fetch = selected /\ selected # NoStation
      BY <1>1, <3>2 DEF DrawerSafe
    <3>5. debounce = NoStation
      BY <1>1, <3>2 DEF DrawerSafe
    <3>6. DrawerSafe'
      BY <1>1, <1>2, <3>1, <3>2, <3>4, <3>5 DEF DrawerSafe, DrawerHoldsLock, DetailsOfStation
    <3> QED
      BY <3>3, <3>6
  <2> QED
    BY <2>1, <2>2, <2>3 DEF Drawer
<1>4. PolicyTypeOK' /\ SessionSafe'
  BY SessionUntouched
<1>5. hud' \in HudType /\ hidden' \in BOOLEAN /\ HudSafe'
  BY DEF ShellInv, WebTypeOK, HudSafe, LockPauses
<1> QED
  BY <1>3, <1>4, <1>5 DEF ShellInv, WebTypeOK

\* What timers and the browser do to the hook.
LEMMA BrowserSafe == ShellInv /\ Browser /\ UNCHANGED <<drawerVars, policyVars>> => ShellInv'
<1> SUFFICES ASSUME ShellInv, Browser, UNCHANGED <<drawerVars, policyVars>>
             PROVE  ShellInv'
  OBVIOUS
<1>1. hud \in HudType /\ hidden \in BOOLEAN /\ HudSafe
  BY DEF ShellInv, WebTypeOK
<1>2. /\ hud' \in HudType /\ hidden' \in BOOLEAN
      /\ hud'.inspectLocked = hud.inspectLocked /\ HudSafe'
  <2>1. CASE PollTime
    BY <1>1, <2>1 DEF HudType, PollTime, HudSafe, LockPauses
  <2>2. CASE ReachEnd
    BY <1>1, <2>2 DEF HudType, ReachEnd, HudSafe, LockPauses
  <2>3. CASE Hide
    BY <1>1, <2>3 DEF HudType, Hide, HudSafe, LockPauses
  <2>4. CASE Show
    <3>1. hud.playing \in BOOLEAN /\ hud.wasPlayingBeforeHidden \in BOOLEAN
      BY <1>1 DEF HudType
    <3>2. hud.inspectLocked => ~hud.playing /\ ~hud.wasPlayingBeforeHidden
      BY <1>1, Zenon DEF HudSafe, LockPauses
    <3>3. CASE hud.playing \/ hud.wasPlayingBeforeHidden
      <4>1. hud' = [hud EXCEPT !.wasPlayingBeforeHidden = FALSE, !.playing = TRUE]
        BY <2>4, <3>1, <3>3, Zenon DEF Show
      <4>2. hidden' = FALSE /\ ~hud.inspectLocked
        BY <2>4, <3>2, <3>3, Zenon DEF Show
      <4> QED
        BY <1>1, <4>1, <4>2 DEF HudType, HudSafe, LockPauses
    <3>4. CASE ~(hud.playing \/ hud.wasPlayingBeforeHidden)
      <4>1. hud' = [hud EXCEPT !.wasPlayingBeforeHidden = FALSE, !.playing = FALSE]
        BY <2>4, <3>1, <3>4, Zenon DEF Show
      <4>2. hidden' = FALSE
        BY <2>4 DEF Show
      <4> QED
        BY <1>1, <4>1, <4>2 DEF HudType, HudSafe, LockPauses
    <3> QED
      BY <3>3, <3>4
  <2> QED
    BY <2>1, <2>2, <2>3, <2>4 DEF Browser
<1>4. DrawerTypeOK' /\ DrawerSafe' /\ PolicyTypeOK' /\ SessionSafe'
  BY <1>2, DrawerUntouched, SessionUntouched
<1> QED
  BY <1>2, <1>4 DEF ShellInv, WebTypeOK

\* What is known of a run at an await.
LEMMA RunInFlight ==
  ASSUME ShellInv, NEW r \in Runs, request[r].at \in InFlight
  PROVE  /\ r <= nextRequest /\ r # None
         /\ request \in [Runs -> [at : {"none", "done", "local"} \cup InFlight,
                                 aborted : BOOLEAN]]
BY DEF ShellInv, WebTypeOK, PolicyTypeOK, SessionSafe, RunsFresh, Runs, None, InFlight

\* A poll that goes on moves only its own request, which stays in flight.
LEMMA PollSafe ==
  ASSUME ShellInv, NEW r \in Runs, Posted(r) \/ Wake(r)
  PROVE  ShellInv'
<1>1. PICK at \in InFlight : request' = [request EXCEPT ![r].at = at]
  BY DEF Posted, Wake, InFlight
<1>2. /\ request[r].at \in InFlight /\ ~request[r].aborted
      /\ UNCHANGED <<hud, hidden, drawerVars, session, status, readyKey, timer,
                     abortRef, nextRequest, dismissed>>
  BY DEF Posted, Wake, InFlight
<1>3. PolicyTypeOK /\ SessionSafe
  BY DEF ShellInv, WebTypeOK
<1>4. /\ r <= nextRequest
      /\ request' \in [Runs -> [at : {"none", "done", "local"} \cup InFlight,
                               aborted : BOOLEAN]]
      /\ \A i \in Runs : i # r => request'[i] = request[i]
      /\ request'[r].at \in InFlight /\ ~request'[r].aborted
  BY <1>1, <1>2, RunInFlight
<1>5. PolicyTypeOK'
  BY <1>2, <1>3, <1>4 DEF PolicyTypeOK
<1>6. RunsFresh'
  BY <1>2, <1>3, <1>4 DEF PolicyTypeOK, SessionSafe, RunsFresh, Runs, None
<1>7. PendingIsActive'
  <2>1. status = "pending" => nextRequest \in Runs
    BY <1>3 DEF PolicyTypeOK, SessionSafe, ModesApart
  <2>2. request[r].at # "local"
    BY <1>2 DEF InFlight
  <2> QED
    BY <1>2, <1>3, <1>4, <2>1, <2>2 DEF SessionSafe, PendingIsActive
<1>8. ActiveIsLatest' /\ ModesApart' /\ ResultIsLatest'
  BY <1>2, <1>3 DEF SessionSafe, ActiveIsLatest, ModesApart, ResultIsLatest
<1> QED
  BY <1>2, <1>5, <1>6, <1>7, <1>8, OnlySession DEF SessionSafe

\* The end of a run: its request is done, its controller let go.
LEMMA ContinuesSafe ==
  ASSUME ShellInv, NEW r \in Runs, request[r].at \in InFlight, Continues(r),
         session' \in [mode : {"live", "frozen", "computing", "playback", "error"},
                       activeRequestId : Runs \cup {None},
                       frozenRunKey : Runs \cup {None}],
         status' \in {"idle", "pending", "ready", "error"},
         readyKey' \in Runs \cup {None}, timer' \in Runs \cup {None}
  PROVE  /\ PolicyTypeOK' /\ RunsFresh'
         /\ \A i \in Runs : i # r => request'[i] = request[i]
<1>1. /\ request' = [request EXCEPT ![r].at = "done"] /\ abortRef' \in {abortRef, None}
      /\ UNCHANGED <<hud, hidden, drawerVars, nextRequest, dismissed>>
  BY DEF Continues
<1>2. PolicyTypeOK /\ RunsFresh
  BY DEF ShellInv, WebTypeOK, SessionSafe
<1>3. /\ r <= nextRequest
      /\ request' \in [Runs -> [at : {"none", "done", "local"} \cup InFlight,
                               aborted : BOOLEAN]]
      /\ \A i \in Runs : i # r => request'[i] = request[i]
  BY <1>1, RunInFlight
<1>4. PolicyTypeOK'
  BY <1>1, <1>2, <1>3 DEF PolicyTypeOK
<1>5. RunsFresh'
  <2>1. nextRequest \in Nat /\ abortRef' <= nextRequest
    BY <1>1, <1>2 DEF PolicyTypeOK, RunsFresh, Runs, None
  <2>2. \A i \in Runs : i > nextRequest => i # r
    BY <1>3, <2>1 DEF Runs
  <2> QED
    BY <1>1, <1>2, <1>3, <2>1, <2>2 DEF RunsFresh
<1> QED
  BY <1>3, <1>4, <1>5

\* An answer settles the session only for the active run, the latest one.
LEMMA AnswerSafe ==
  ASSUME ShellInv, NEW r \in Runs, Answer(r) \/ Timeout(r)
  PROVE  ShellInv'
<1>1. /\ request[r].at \in InFlight /\ ~request[r].aborted /\ Continues(r)
      /\ Settle(r, ApplyMoves(r)) \/ Settle(r, Mismatch)
  BY DEF Answer, Timeout, InFlight
<1>2. PolicyTypeOK /\ SessionSafe
  BY DEF ShellInv, WebTypeOK
<1>3. UNCHANGED <<hud, hidden, drawerVars, nextRequest, dismissed>>
  BY <1>1 DEF Continues
<1>4. CASE session.activeRequestId # r
  <2>1. UNCHANGED <<session, status, readyKey, timer>>
    BY <1>1, <1>4 DEF Settle
  <2>2. /\ PolicyTypeOK' /\ RunsFresh'
        /\ \A i \in Runs : i # r => request'[i] = request[i]
    BY <1>1, <1>2, <2>1, ContinuesSafe DEF PolicyTypeOK
  <2>3. PendingIsActive'
    <3>1. status = "pending" => nextRequest \in Runs
      BY <1>2 DEF PolicyTypeOK, SessionSafe, ModesApart
    <3>2. request[r].at # "local"
      BY <1>1 DEF InFlight
    <3> QED
      BY <1>2, <1>3, <1>4, <2>1, <2>2, <3>1, <3>2 DEF SessionSafe, PendingIsActive
  <2>4. ActiveIsLatest' /\ ModesApart' /\ ResultIsLatest'
    BY <1>2, <1>3, <2>1 DEF SessionSafe, ActiveIsLatest, ModesApart, ResultIsLatest
  <2> QED
    BY <1>3, <2>2, <2>3, <2>4, OnlySession DEF SessionSafe
<1>5. CASE session.activeRequestId = r
  <2>1. r = nextRequest /\ session.frozenRunKey = r /\ r \notin dismissed
    BY <1>1, <1>2, <1>5, RunInFlight DEF SessionSafe, ActiveIsLatest
  <2>2. CASE ApplyMoves(r)
    <3>1. /\ status' = "ready" /\ readyKey' = r /\ timer' \in {r, None}
          /\ session'.mode \in {"playback", "frozen"}
          /\ session'.activeRequestId \in {r, None} /\ session'.frozenRunKey = r
          /\ session' \in [mode : {"live", "frozen", "computing", "playback", "error"},
                            activeRequestId : Runs \cup {None},
                            frozenRunKey : Runs \cup {None}]
      BY <1>2, <1>5, <2>1, <2>2 DEF ApplyMoves, PolicyTypeOK
    <3>2. PolicyTypeOK' /\ RunsFresh'
      BY <1>1, <3>1, ContinuesSafe
    <3>3. ActiveIsLatest' /\ ModesApart' /\ PendingIsActive' /\ ResultIsLatest'
      BY <1>3, <2>1, <3>1 DEF ActiveIsLatest, ModesApart, PendingIsActive, ResultIsLatest
    <3> QED
      BY <1>3, <3>2, <3>3, OnlySession DEF SessionSafe
  <2>3. CASE Mismatch
    <3>1. /\ status' = "error" /\ UNCHANGED <<readyKey, timer>>
          /\ session'.mode = "error" /\ session'.activeRequestId = None
          /\ session' \in [mode : {"live", "frozen", "computing", "playback", "error"},
                            activeRequestId : Runs \cup {None},
                            frozenRunKey : Runs \cup {None}]
      BY <1>2, <2>3 DEF Mismatch, PolicyTypeOK
    <3>2. PolicyTypeOK' /\ RunsFresh'
      BY <1>1, <1>2, <3>1, ContinuesSafe DEF PolicyTypeOK
    <3>3. ActiveIsLatest' /\ ModesApart' /\ PendingIsActive' /\ ResultIsLatest'
      BY <1>2, <1>3, <3>1
      DEF SessionSafe, ActiveIsLatest, ModesApart, PendingIsActive, ResultIsLatest
    <3> QED
      BY <1>3, <3>2, <3>3, OnlySession DEF SessionSafe
  <2> QED
    BY <1>1, <1>5, <2>2, <2>3 DEF Settle
<1> QED
  BY <1>4, <1>5

\* The catch block of an aborted run and the end of a playback leave nothing
\* active; what is ready stays what it was.
LEMMA SettlesSafe ==
  ASSUME ShellInv, PlaybackEnds \/ \E r \in Runs : AbortSettles(r)
  PROVE  ShellInv'
<1>1. PolicyTypeOK /\ SessionSafe
  BY DEF ShellInv, WebTypeOK
<1>2. session' = [session EXCEPT !.mode = "frozen", !.activeRequestId = None]
  BY DEF PlaybackEnds, AbortSettles
<1>3. /\ session'.mode = "frozen" /\ session'.activeRequestId = None
      /\ session'.frozenRunKey = session.frozenRunKey
      /\ session' \in [mode : {"live", "frozen", "computing", "playback", "error"},
                        activeRequestId : Runs \cup {None},
                        frozenRunKey : Runs \cup {None}]
  BY <1>1, <1>2 DEF PolicyTypeOK
<1>4. CASE PlaybackEnds
  <2>1. /\ timer # None /\ timer' = None
        /\ UNCHANGED <<hud, hidden, drawerVars, status, readyKey, abortRef, request,
                       nextRequest, dismissed>>
    BY <1>4 DEF PlaybackEnds
  <2>2. PolicyTypeOK'
    BY <1>1, <1>3, <2>1 DEF PolicyTypeOK
  <2>3. SessionSafe'
    BY <1>1, <1>3, <2>1
    DEF SessionSafe, RunsFresh, ActiveIsLatest, ModesApart, PendingIsActive, ResultIsLatest
  <2> QED
    BY <2>1, <2>2, <2>3, OnlySession
<1>5. ASSUME NEW r \in Runs, AbortSettles(r) PROVE ShellInv'
  <2>1. /\ request[r].at \in InFlight /\ Continues(r) /\ status' = "idle"
        /\ UNCHANGED <<readyKey, timer>>
        /\ UNCHANGED <<hud, hidden, drawerVars, nextRequest, dismissed>>
    BY <1>5 DEF AbortSettles, Continues
  <2>2. PolicyTypeOK' /\ RunsFresh'
    BY <1>1, <1>3, <2>1, ContinuesSafe DEF PolicyTypeOK
  <2>3. ActiveIsLatest' /\ ModesApart' /\ PendingIsActive' /\ ResultIsLatest'
    BY <1>1, <1>3, <2>1
    DEF SessionSafe, ActiveIsLatest, ModesApart, PendingIsActive, ResultIsLatest
  <2> QED
    BY <2>1, <2>2, <2>3, OnlySession DEF SessionSafe
<1> QED
  BY <1>4, <1>5

------------------------------------------------------------------------------
(* The specification.                                                      *)

\* Every step keeps the invariant.
LEMMA ShellStep == ShellInv /\ [Next]_vars => ShellInv'
<1> SUFFICES ASSUME ShellInv, [Next]_vars PROVE ShellInv'
  OBVIOUS
<1>1. CASE UNCHANGED vars
  <2>1. UNCHANGED <<hud, hidden, drawerVars, policyVars>>
    BY <1>1 DEF vars
  <2> QED
    BY <2>1, SessionUntouched, OnlySession
<1>2. CASE User
  <2>1. CASE ClickRun \/ ClickSync
    BY <2>1, RunPolicySafe DEF ClickRun, ClickSync
  <2>2. CASE CancelPolicy \/ ChangeStrategy
    BY <2>2, CancelSafe
  <2>3. CASE TogglePlayback \/ SeekOrStep \/ LiveKey
    BY <2>3, HudOnlySafe
  <2>4. CASE ClickGoLive
    BY <2>4, GoLiveSafe
  <2>5. CASE ClickReturnLive \/ PressEscape \/ CloseInspect
    BY <2>5, ExitPreviewSafe, CloseInspectSafe DEF ClickReturnLive, PressEscape
  <2>6. CASE \E s \in Stations : OpenInspect(s)
    BY <2>6, OpenInspectSafe
  <2>7. CASE PressLoadTier2
    BY <2>7, DrawerSteps DEF PressLoadTier2
  <2> QED
    BY <1>2, <2>1, <2>2, <2>3, <2>4, <2>5, <2>6, <2>7 DEF User
<1>3. CASE Task
  <2>1. CASE \E r \in Runs : Posted(r) \/ Wake(r) \/ Answer(r) \/ Timeout(r)
    BY <2>1, PollSafe, AnswerSafe
  <2>2. CASE PlaybackEnds
    BY <2>2, SettlesSafe
  <2>3. CASE Browser /\ UNCHANGED <<drawerVars, policyVars>>
    BY <2>3, BrowserSafe
  <2>4. CASE Drawer /\ UNCHANGED <<hud, hidden, policyVars>>
    BY <2>4, DrawerSteps
  <2> QED
    BY <1>3, <2>1, <2>2, <2>3, <2>4 DEF Task
<1>4. CASE \E r \in Runs : AbortSettles(r)
  BY <1>4, SettlesSafe
<1> QED
  BY <1>1, <1>2, <1>3, <1>4 DEF Next

LEMMA ShellInvariant == Spec => []ShellInv
<1> QED
  BY InitShell, ShellStep, PTL DEF Spec

\* The hook, the drawer and the session keep their types.
THEOREM ShellTypeCorrect == Spec => []WebTypeOK
<1>1. ShellInv => WebTypeOK
  BY DEF ShellInv
<1> QED
  BY <1>1, ShellInvariant, PTL

\* Nothing plays under an open drawer's lock, whatever key, timer or return of
\* the tab comes.
THEOREM PlaybackLocked == Spec => []LockPauses
<1>1. ShellInv => LockPauses
  BY DEF ShellInv, HudSafe
<1> QED
  BY <1>1, ShellInvariant, PTL

\* The lock is held exactly while a drawer is open.
THEOREM LockIsDrawers == Spec => []DrawerHoldsLock
<1>1. ShellInv => DrawerHoldsLock
  BY DEF ShellInv, DrawerSafe
<1> QED
  BY <1>1, ShellInvariant, PTL

\* A pending run that was sent is the latest one, active and not aborted, so
\* that its answer or its timer ends the "pending" on the screen.
THEOREM PendingHasOwner == Spec => []PendingIsActive
<1>1. ShellInv => PendingIsActive
  BY DEF ShellInv, SessionSafe
<1> QED
  BY <1>1, ShellInvariant, PTL

\* What is shown or played back is the latest run's, and nobody dismissed it.
THEOREM LatestOnly == Spec => []ResultIsLatest
<1>1. ShellInv => ResultIsLatest
  BY DEF ShellInv, SessionSafe
<1> QED
  BY <1>1, ShellInvariant, PTL

\* The details an open drawer shows are its station's.
THEOREM DetailsMatch == Spec => []DetailsOfStation
<1>1. ShellInv => DetailsOfStation
  BY DEF ShellInv, DrawerSafe
<1> QED
  BY <1>1, ShellInvariant, PTL
=============================================================================
