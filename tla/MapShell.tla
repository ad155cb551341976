-------------------------------- MODULE MapShell --------------------------------
(***************************************************************************)
(* The optimisation session of the web client                              *)
(* (apps/web/src/components/map/MapShell.tsx) over the playback controls,  *)
(* the drawer and the policy client (lib/policy/client.ts).  The page has  *)
(* one thread: a click or key press is one step with every state update of *)
(* its handlers, and the continuation of an await is a later step.  A run  *)
(* is named by its request id; a run key by the run it was frozen for.     *)
(***************************************************************************)
EXTENDS HudControls, StationDrawer, Naturals

CONSTANTS MaxRuns   \* bound of the model

ASSUME MaxRunsAssumption == MaxRuns \in Nat \ {0}

Runs == 1..MaxRuns
None == 0

VARIABLES session,    \* optimizationSession
          status,     \* policyStatus
          readyKey,   \* the run whose key policyReadyRunKeySerialized is
          timer,      \* the run whose playback interval is running
          abortRef,   \* policyAbortRef: the run whose controller it holds
          request,    \* the request of each run, at its next await
          nextRequest,\* nextPolicyRequestIdRef
          dismissed   \* history: runs the user cancelled, left or replaced

policyVars == <<session, status, readyKey, timer, abortRef, request, nextRequest,
                dismissed>>
vars == <<hud, hidden, drawerVars, policyVars>>

InFlight == {"posting", "sleeping", "fetching"}

PolicyTypeOK ==
  /\ session \in [mode : {"live", "frozen", "computing", "playback", "error"},
                  activeRequestId : Runs \cup {None},
                  frozenRunKey : Runs \cup {None}]
  /\ status \in {"idle", "pending", "ready", "error"}
  /\ {readyKey, timer, abortRef, nextRequest} \subseteq Runs \cup {None}
  /\ request \in [Runs -> [at : {"none", "done", "local"} \cup InFlight,
                           aborted : BOOLEAN]]
  /\ dismissed \subseteq Runs

WebTypeOK == /\ hud \in HudType /\ hidden \in BOOLEAN
             /\ DrawerTypeOK /\ PolicyTypeOK

Init == /\ HudInit /\ DrawerInit
        /\ session = [mode |-> "live", activeRequestId |-> None, frozenRunKey |-> None]
        /\ status = "idle" /\ readyKey = None /\ timer = None /\ abortRef = None
        /\ request = [r \in Runs |-> [at |-> "none", aborted |-> FALSE]]
        /\ nextRequest = None /\ dismissed = {}

\* fetch and sleep: an aborted fetch rejects before the next event, an aborted
\* sleep only when the fetch after it is tried.
Rejecting == {r \in Runs : request[r].aborted /\ request[r].at \in {"posting", "fetching"}}

Event == Rejecting = {}
UserEvent == Event /\ ~hidden

\* policyAbortRef.current.abort()
Aborted(q) == [r \in Runs |-> IF r = abortRef THEN [q[r] EXCEPT !.aborted = TRUE]
                              ELSE q[r]]

\* deriveEffectivePolicyStatus, against activeRunKey: the frozen key unless
\* the session is live, when the key of the moving view is nobody's.
EffectiveStatus ==
  IF status = "ready" /\ readyKey # None
     /\ (session.mode = "live" \/ session.frozenRunKey # readyKey)
  THEN "stale" ELSE status

PreviewMode == session.mode # "live"

------------------------------------------------------------------------------
(* The handlers of the policy card.                                        *)

\* Mutant: the playback of the run before goes on.
MutRunPolicy ==
  LET r == nextRequest + 1 IN
  /\ nextRequest < MaxRuns /\ nextRequest' = r
  /\ request' = [Aborted(request) EXCEPT
                   ![r].at = IF hud.server THEN "posting" ELSE "local"]
  /\ abortRef' = IF hud.server THEN r ELSE None
  /\ session' = [mode |-> "computing", activeRequestId |-> r, frozenRunKey |-> r]
  /\ hud' = Seek(hud, hud) /\ status' = "pending"
  /\ UNCHANGED <<hidden, drawerVars, timer, readyKey, dismissed>>

\* runPolicy up to its first await.  While sv is a local one no await comes:
\* the check against optimizationSessionRef, which an effect updates after
\* this event, fails, and the local fallback is dropped.
RunPolicy ==
  LET r == nextRequest + 1 IN
  /\ nextRequest < MaxRuns /\ nextRequest' = r
  /\ request' = [Aborted(request) EXCEPT
                   ![r].at = IF hud.server THEN "posting" ELSE "local"]
  /\ abortRef' = IF hud.server THEN r ELSE None
  /\ session' = [mode |-> "computing", activeRequestId |-> r, frozenRunKey |-> r]
  /\ hud' = Seek(hud, hud)
  /\ status' = "pending" /\ timer' = None
  /\ UNCHANGED <<hidden, drawerVars, readyKey, dismissed>>

\* "Optimize (Preview)"; and "Sync Snapshot", shown after a mismatch, which is
\* when the status is error.
ClickRun == /\ UserEvent /\ ~hud.inspectLocked /\ EffectiveStatus # "pending"
            /\ RunPolicy
ClickSync == UserEvent /\ EffectiveStatus = "error" /\ RunPolicy

\* What cancel, a change of strategy and leaving the preview have in common.
Abandon == /\ abortRef' = None /\ timer' = None
           /\ request' = Aborted(request)
           /\ dismissed' = dismissed \cup (Runs \cap {nextRequest})

CancelPolicy ==
  /\ UserEvent /\ EffectiveStatus = "pending"
  /\ Abandon /\ status' = "idle"
  /\ session' = [session EXCEPT !.mode = "frozen", !.activeRequestId = None]
  /\ UNCHANGED <<hud, hidden, drawerVars, readyKey, nextRequest>>

\* handlePolicyStrategyChange; the version in the frozen key is data.
ChangeStrategy ==
  /\ UserEvent /\ EffectiveStatus # "pending"
  /\ Abandon /\ status' = "idle" /\ readyKey' = None
  /\ session' = [session EXCEPT !.mode = IF @ = "live" THEN "live" ELSE "frozen",
                                !.activeRequestId = None]
  /\ UNCHANGED <<hud, hidden, drawerVars, nextRequest>>

------------------------------------------------------------------------------
(* Playback, live and the drawer.                                          *)

HudOnly == UNCHANGED <<hidden, drawerVars, policyVars>>

\* The buttons and keys that reach the hook alone; L goes to its goLive.
TogglePlayback == UserEvent /\ hud' = TogglePlay(hud, hud) /\ HudOnly
SeekOrStep == UserEvent /\ hud' = Seek(hud, hud) /\ HudOnly
LiveKey == UserEvent /\ hud' = GoLive(hud, hud) /\ HudOnly

LiveSession == [mode |-> "live", activeRequestId |-> None, frozenRunKey |-> None]

\* handleGoLive: the "Go Live" buttons while the session is live.
ClickGoLive == /\ UserEvent /\ ~PreviewMode /\ ~hud.inspectLocked
               /\ hud' = GoLive(hud, hud) /\ session' = LiveSession /\ timer' = None
               /\ UNCHANGED <<hidden, drawerVars, status, readyKey, abortRef, request,
                              nextRequest, dismissed>>

\* Mutant: leaving the preview closes the drawer but not the lock.
MutExitPreview ==
  /\ Select(NoStation)
  /\ hud' = GoLive(hud, hud)
  /\ Abandon /\ status' = "idle" /\ session' = LiveSession
  /\ UNCHANGED <<hidden, readyKey, nextRequest>>

\* handleExitPreview.  goLive still sees the lock of the last render.
ExitPreview ==
  /\ Select(NoStation)
  /\ hud' = GoLive(hud, OnInspectClose(hud, hud))
  /\ Abandon /\ status' = "idle" /\ session' = LiveSession
  /\ UNCHANGED <<hidden, readyKey, nextRequest>>

\* goLiveAction of the scrubber; CommandStack hides its button in a preview.
ClickReturnLive == UserEvent /\ PreviewMode /\ ~hud.inspectLocked /\ ExitPreview

OpenInspect(s) ==
  /\ UserEvent /\ Select(s)
  /\ IF selected = NoStation
     THEN /\ hud' = OnInspectOpen(hud, hud)
          /\ session' = [session EXCEPT !.mode = IF @ = "playback" THEN @ ELSE "frozen"]
     ELSE UNCHANGED <<hud, session>>
  /\ UNCHANGED <<hidden, status, readyKey, timer, abortRef, request, nextRequest, dismissed>>

\* Mutant: the request in flight loses the session when the drawer closes.
MutCloseInspect ==
  /\ UserEvent /\ selected # NoStation /\ Select(NoStation)
  /\ hud' = OnInspectClose(hud, hud)
  /\ session' = [session EXCEPT !.mode = IF hud.mode = "live" /\ hud.playing
                                         THEN "live" ELSE "frozen",
                                !.activeRequestId = None]
  /\ UNCHANGED <<hidden, status, readyKey, timer, abortRef, request, nextRequest, dismissed>>

\* closeInspect.
CloseInspect ==
  /\ UserEvent /\ selected # NoStation /\ Select(NoStation)
  /\ hud' = OnInspectClose(hud, hud)
  /\ session' = [session EXCEPT !.mode = IF hud.mode = "live" /\ hud.playing
                                         THEN "live" ELSE "frozen"]
  /\ UNCHANGED <<hidden, status, readyKey, timer, abortRef, request, nextRequest, dismissed>>

\* The second branch is dead: an open drawer has frozen the session.
PressEscape == UserEvent /\ IF PreviewMode THEN ExitPreview ELSE CloseInspect

PressLoadTier2 == UserEvent /\ LoadTier2 /\ UNCHANGED <<hud, hidden, policyVars>>

------------------------------------------------------------------------------
(* runPolicyForView and what runPolicy does after its awaits.              *)

Posted(r) == /\ request[r].at = "posting" /\ ~request[r].aborted
             /\ \E at \in {"sleeping", "fetching"} :
                  request' = [request EXCEPT ![r].at = at]
             /\ UNCHANGED <<hud, hidden, drawerVars, session, status, readyKey, timer,
                            abortRef, nextRequest, dismissed>>

Wake(r) == /\ request[r].at = "sleeping" /\ ~request[r].aborted
           /\ request' = [request EXCEPT ![r].at = "posting"]
           /\ UNCHANGED <<hud, hidden, drawerVars, session, status, readyKey, timer,
                          abortRef, nextRequest, dismissed>>

\* The continuation of run r; finally clears the controller if it is r's.
Continues(r) == /\ request' = [request EXCEPT ![r].at = "done"]
                /\ abortRef' = IF abortRef = r THEN None ELSE abortRef
                /\ UNCHANGED <<hud, hidden, drawerVars, nextRequest, dismissed>>

\* applyPolicyMoves: played back, or shown at once when there are no moves or
\* the device is slow.
ApplyMoves(r) ==
  /\ status' = "ready" /\ readyKey' = r
  /\ \/ timer' = r /\ session' = [session EXCEPT !.mode = "playback"]
     \/ timer' = None
        /\ session' = [session EXCEPT !.mode = "frozen", !.activeRequestId = None]

Mismatch == /\ status' = "error" /\ UNCHANGED <<readyKey, timer>>
            /\ session' = [session EXCEPT !.mode = "error", !.activeRequestId = None]

\* isActiveSessionRequest; the session id is a new one with each request id.
Settle(r, Apply) == IF session.activeRequestId = r THEN Apply
                    ELSE UNCHANGED <<session, status, readyKey, timer>>

\* An answer that ends the poll: the moves, the attempts used up or a failure,
\* for which the local moves are applied; or a mismatch of the view.
Answer(r) == /\ request[r].at \in {"posting", "fetching"} /\ ~request[r].aborted
             /\ Continues(r)
             /\ Settle(r, ApplyMoves(r)) \/ Settle(r, Mismatch)

\* Mutant: only the first request of the poll races the timer.
MutTimeout(r) == /\ request[r].at = "posting" /\ ~request[r].aborted
                 /\ Continues(r) /\ Settle(r, ApplyMoves(r))

\* policy_run_timeout, 15 s after the run began.
Timeout(r) == /\ request[r].at \in InFlight /\ ~request[r].aborted
              /\ Continues(r) /\ Settle(r, ApplyMoves(r))

\* The catch block of an aborted run resets the session, whoever it is of.
AbortSettles(r) ==
  /\ request[r].at \in InFlight /\ request[r].aborted
  /\ Continues(r) /\ status' = "idle"
  /\ session' = [session EXCEPT !.mode = "frozen", !.activeRequestId = None]
  /\ UNCHANGED <<readyKey, timer>>

PlaybackEnds ==
  /\ timer # None /\ timer' = None
  /\ session' = [session EXCEPT !.mode = "frozen", !.activeRequestId = None]
  /\ UNCHANGED <<hud, hidden, drawerVars, status, readyKey, abortRef, request,
                 nextRequest, dismissed>>

------------------------------------------------------------------------------
User == \/ ClickRun \/ ClickSync \/ CancelPolicy \/ ChangeStrategy
        \/ TogglePlayback \/ SeekOrStep \/ LiveKey \/ ClickGoLive \/ ClickReturnLive
        \/ \E s \in Stations : OpenInspect(s)
        \/ CloseInspect \/ PressEscape \/ PressLoadTier2

Task == \/ \E r \in Runs : Posted(r) \/ Wake(r) \/ Answer(r) \/ Timeout(r)
        \/ PlaybackEnds
        \/ Browser /\ UNCHANGED <<drawerVars, policyVars>>
        \/ Drawer /\ UNCHANGED <<hud, hidden, policyVars>>

Next == \/ User
        \/ Event /\ Task
        \/ \E r \in Runs : AbortSettles(r)

Spec == Init /\ [][Next]_vars

\* The timers of the page fire and its promises settle, also in a hidden tab;
\* nothing is assumed of the server or of the user.
FairSpec == /\ Spec /\ WF_vars(PlaybackEnds /\ Event)
            /\ \A r \in Runs : WF_vars(Timeout(r) /\ Event) /\ WF_vars(AbortSettles(r))

------------------------------------------------------------------------------
(* Properties.                                                             *)

\* While a drawer holds the clock nothing plays: no key, timer or return of
\* the tab starts it (useHudControls.ts:309, :335, :513).
LockPauses == hud.inspectLocked => ~hud.playing

\* The lock is held exactly while a drawer is open, so that no path that
\* closes one leaves the controls dead (MapShell.tsx:1306, :1447).
DrawerHoldsLock == hud.inspectLocked <=> selected # NoStation

\* A "pending" on the screen always has somebody to end it: the latest run is
\* in flight and its answer would be accepted (MapShell.tsx:1070-1248).  The
\* run of a client that has no server token yet is the known exception.
PendingIsActive ==
  status = "pending" =>
    \/ request[nextRequest].at = "local"
    \/ /\ session.activeRequestId = nextRequest
       /\ request[nextRequest].at \in InFlight /\ ~request[nextRequest].aborted

\* The moves on the map are the latest run's, for the key the view is frozen
\* at, and neither they nor their playback outlive a dismissal (stale.ts:8).
ResultIsLatest ==
  /\ status = "ready" => /\ readyKey = nextRequest /\ session.frozenRunKey = nextRequest
                         /\ nextRequest \notin dismissed
  /\ timer # None => timer = nextRequest /\ nextRequest \notin dismissed

\* The details in an open drawer are those of its station, whatever answer
\* was on its way when the station changed (StationDrawer.tsx:162-239).
DetailsOfStation ==
  selected # NoStation /\ tier2.status = "success" => tier2.station = selected

\* A run that was sent stops being pending, also if the server never answers.
RunsEnd == status = "pending" /\ request[nextRequest].at # "local" ~> status # "pending"

\* "Ignore aborted responses without triggering `Error`" and "Late responses
\* are ignored unless `(sessionId, requestId)` matches": a run nobody dismissed
\* is pending, shown or has failed (POLICY_WORK_PLAN.md:348, :138).
LastRunStands == nextRequest # None /\ nextRequest \notin dismissed => status # "idle"
=============================================================================
