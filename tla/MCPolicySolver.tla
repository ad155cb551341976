---------------------------- MODULE MCPolicySolver ----------------------------
(* Small instances of PolicySolver. *)
EXTENDS PolicySolver

\* One station per capacity given, with any number of bikes on its docks.
InputsOf(capacity, qualities) ==
  {[s \in Stations |-> [capacity |-> capacity[s], bikes |-> b[s],
                        docks |-> capacity[s] - b[s], bucket_quality |-> q[s]]] :
     b \in {f \in [Stations -> 0..8] : \A s \in Stations : f[s] <= capacity[s]},
     q \in [Stations -> qualities]}

SixStations == 1..6
SixInputs == InputsOf([s \in 1..6 |-> IF s = 1 THEN 8 ELSE IF s < 4 THEN 4 ELSE 2], {"ok"})

Edge(from, to, dist) == [from |-> from, to |-> to, dist_m |-> dist]
SparseEdges == {Edge(1, 2, 1), Edge(1, 3, 2), Edge(2, 3, 1), Edge(3, 2, 1),
                Edge(4, 3, 3), Edge(4, 1, 2), Edge(2, 4, 2), Edge(1, 4, 2),
                Edge(1, 5, 3), Edge(5, 2, 2), Edge(6, 3, 2), Edge(4, 6, 1)}
Usable == {"ok", "degraded"}

=============================================================================
