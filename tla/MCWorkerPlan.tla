----------------------------- MODULE MCWorkerPlan -----------------------------
(* Small instances of WorkerPlan. *)
EXTENDS WorkerPlan

ThreeStations == 1..3
AnySnapshot ==
  [ThreeStations -> {[capacity |-> c, bikes |-> b, docks |-> d,
                      bucket_quality |-> "ok"] :
                       c \in {5}, b \in 0..4, d \in {0, 1}}
                    \cup {[capacity |-> 2, bikes |-> b, docks |-> 2 - b,
                          bucket_quality |-> "unknown"] : b \in 0..2}]
TwoStations == 1..2
PairSnapshot == {[s \in TwoStations |->
                    [capacity |-> 6 * s - 4, bikes |-> b[s],
                     docks |-> 6 * s - 4 - b[s], bucket_quality |-> "ok"]] :
                   b \in {f \in [TwoStations -> 0..8] : f[1] <= 2}}
OneWay == {[from |-> 1, to |-> 2, dist_m |-> 1]}
Usable == {"ok", "degraded"}

=============================================================================
