------------------------------- MODULE WorkQueue -------------------------------
(***************************************************************************)
(* What the job queue promises (PLAN.md, "Queue + DLQ"): at-least-once     *)
(* delivery, one piece of waiting work per dedupe key, and work that       *)
(* leaves the queue once: done after a delivery, dead after at least       *)
(* MaxAttempts of them, or canceled.  Leases, visibility, consumers and    *)
(* the statements of the code do not appear.                               *)
(***************************************************************************)
EXTENDS Integers

CONSTANTS Keys, MaxAttempts

VARIABLES waiting,   \* [job_id, key, deliveries] of the work in the queue
          done, dead, canceled,  \* the ids that left it, by how they left
          issued     \* the last id given out

workVars == <<waiting, done, dead, canceled, issued>>

Init == /\ waiting = {} /\ done = {} /\ dead = {} /\ canceled = {}
        /\ issued = 0

Add(k) ==
  /\ \A w \in waiting : w.key # k
  /\ issued' = issued + 1
  /\ waiting' = waiting \cup
                  {[job_id |-> issued + 1, key |-> k, deliveries |-> 0]}
  /\ UNCHANGED <<done, dead, canceled>>

Deliver(w) ==
  /\ waiting' = (waiting \ {w}) \cup {[w EXCEPT !.deliveries = @ + 1]}
  /\ UNCHANGED <<done, dead, canceled, issued>>

Finish(w) ==
  /\ w.deliveries >= 1
  /\ waiting' = waiting \ {w}
  /\ done' = done \cup {w.job_id}
  /\ UNCHANGED <<dead, canceled, issued>>

GiveUp(w) ==
  /\ w.deliveries >= MaxAttempts
  /\ waiting' = waiting \ {w}
  /\ dead' = dead \cup {w.job_id}
  /\ UNCHANGED <<done, canceled, issued>>

Cancel(w) ==
  /\ waiting' = waiting \ {w}
  /\ canceled' = canceled \cup {w.job_id}
  /\ UNCHANGED <<done, dead, issued>>

Next == \/ \E k \in Keys : Add(k)
        \/ \E w \in waiting : Deliver(w) \/ Finish(w) \/ GiveUp(w) \/ Cancel(w)

Spec == Init /\ [][Next]_workVars

=============================================================================
