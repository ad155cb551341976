----------------------------- MODULE MCJobQueue -----------------------------
(* Small instances of JobQueue. *)
EXTENDS JobQueue, TLC

CONSTANTS k1, k2, c1, c2

MCKeys == {k1, k2}
MCConsumers == {c1, c2}
MCSymmetry == Permutations(MCKeys) \cup Permutations(MCConsumers)

=============================================================================
