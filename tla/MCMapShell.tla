------------------------------- MODULE MCMapShell -------------------------------
(***************************************************************************)
(* Two stations to switch between, and three runs: one to dismiss, one     *)
(* that its late abort can meet, and one that answers after both.          *)
(***************************************************************************)
EXTENDS MapShell
=============================================================================
