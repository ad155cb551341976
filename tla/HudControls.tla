------------------------------ MODULE HudControls ------------------------------
(***************************************************************************)
(* The playback controls of the web client                                 *)
(* (apps/web/src/lib/useHudControls.ts).  A handler is a function of h,    *)
(* the state of the last render it closed over, and u, the updates already *)
(* queued in the same event; handlers of one event compose on u.  The      *)
(* position on the timeline, its bounds, the speed and the comparison      *)
(* settings are data: no guard outside them depends on their values.       *)
(***************************************************************************)

VARIABLES hud, hidden   \* the hook's state; document.hidden

HudType == [mode : {"live", "replay"}, playing : BOOLEAN,
            server : BOOLEAN,            \* sv is a token of the server's
            inspectLocked : BOOLEAN,
            wasPlayingBeforeInspect : BOOLEAN,
            wasPlayingBeforeHidden : BOOLEAN]

HudInit == /\ hud = [mode |-> "live", playing |-> TRUE, server |-> FALSE,
                     inspectLocked |-> FALSE, wasPlayingBeforeInspect |-> FALSE,
                     wasPlayingBeforeHidden |-> FALSE]
           /\ hidden = FALSE

EnterReplayPaused(u) == [u EXCEPT !.mode = "replay", !.playing = FALSE]

\* seekTo, stepBack, stepForward.
Seek(h, u) == IF h.inspectLocked THEN u ELSE EnterReplayPaused(u)

\* Mutant: play works while the drawer is open.
MutTogglePlay(h, u) == [u EXCEPT !.playing = ~u.playing]

TogglePlay(h, u) ==
  IF h.inspectLocked THEN u ELSE [u EXCEPT !.playing = ~u.playing]

GoLive(h, u) ==
  IF h.inspectLocked THEN u ELSE [u EXCEPT !.mode = "live", !.playing = TRUE]

OnInspectOpen(h, u) ==
  [u EXCEPT !.inspectLocked = TRUE, !.wasPlayingBeforeInspect = h.playing,
            !.playing = u.playing /\ ~h.playing]

OnInspectClose(h, u) ==
  [u EXCEPT !.inspectLocked = FALSE,
            !.playing = u.playing \/ h.wasPlayingBeforeInspect]

------------------------------------------------------------------------------
(* What reaches the hook from timers and the browser.                      *)

\* The first answer with a recommended_live_sv; a failed poll moves the clock
\* only, and the timeline is not polled before there is such a token.
PollTime == ~hud.server /\ hud' = [hud EXCEPT !.server = TRUE] /\ UNCHANGED hidden

\* A replay that has reached the bound of the timeline pauses.
ReachEnd == /\ hud.playing /\ hud.mode = "replay"
            /\ hud' = [hud EXCEPT !.playing = FALSE] /\ UNCHANGED hidden

\* autoPausedByHidden and wasPlayingBeforeHidden are set and reset together.
Hide == /\ ~hidden /\ hidden' = TRUE
        /\ hud' = [hud EXCEPT !.wasPlayingBeforeHidden = hud.playing,
                              !.playing = FALSE]

Show == /\ hidden /\ hidden' = FALSE
        /\ hud' = [hud EXCEPT !.wasPlayingBeforeHidden = FALSE,
                              !.playing = hud.playing \/ hud.wasPlayingBeforeHidden]

Browser == PollTime \/ ReachEnd \/ Hide \/ Show
=============================================================================
