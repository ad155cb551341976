--------------------------- MODULE MCPolicyPipeline ---------------------------
(* Small instances of PolicyPipeline. *)
EXTENDS PolicyPipeline, TLC

CONSTANTS k1, k2, w1, w2, q1, q2, NoKeyValue

OneKey == {k1}
TwoKeys == {k1, k2}   \* with k1 the only supported one where both are used
OneWorker == {w1}
TwoWorkers == {w1, w2}
OneRequest == {q1}
TwoRequests == {q1, q2}

MCMoves == {"a1", "a2", "b1", "b2"}
MCSpecs == {"base", "fallback"}
PlanA == [spec |-> "base", moves |-> <<"a1", "a2">>]
PlanB == [spec |-> "base", moves |-> <<"b1">>]
NoMoves == [spec |-> "base", moves |-> <<>>]
Fallback == [spec |-> "fallback", moves |-> <<"b2">>]

OnePlan == {PlanA}
TwoOfOneSpec == {PlanA, NoMoves}
SameSpec == {PlanA, PlanB, NoMoves}
TwoSpecs == {PlanA, Fallback}

AllRoutes == Routes
NoCancel == Routes \ {"cancel"}
Symmetry == Permutations(TwoWorkers) \cup Permutations(TwoRequests)

=============================================================================
