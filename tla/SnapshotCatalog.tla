---------------------------- MODULE SnapshotCatalog ----------------------------
(***************************************************************************)
(* What loading promises (PLAN.md, "Idempotency rule"): a catalog of       *)
(* snapshots, at most one of a key, each of one raw object, with every row *)
(* of that object from the moment it is there and never another.           *)
(***************************************************************************)
CONSTANTS Keys, Objects,
          Listed(_)    \* the stations an object lists

VARIABLE catalog       \* from the keys loaded: [object, stations]

Init == catalog = <<>>

Admit(k, o) ==
  /\ k \notin DOMAIN catalog
  /\ catalog' = [j \in DOMAIN catalog \cup {k} |->
       IF j = k THEN [object |-> o, stations |-> Listed(o)] ELSE catalog[j]]

Next == \E k \in Keys, o \in Objects : Admit(k, o)

Spec == Init /\ [][Next]_catalog

=============================================================================
