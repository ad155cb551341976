----------------------------- MODULE PolicySolver -----------------------------
(***************************************************************************)
(* The two strategies that plan bike moves, runGreedyPolicyV1 and          *)
(* runGlobalPolicyV1 (packages/policy/src/greedy_v1.ts, global_v1.ts).     *)
(* They are one loop: list the edges from a station above its band to one  *)
(* below, take the first in the strategy's order that stays within the     *)
(* number of stations a plan may touch, move what fits, repeat.  A step of *)
(* the model is one round of that loop.  The target fractions alpha and    *)
(* beta are percentages here; the code multiplies floating-point numbers.  *)
(***************************************************************************)
EXTENDS Integers, Sequences, FiniteSets, FiniteSetsExt

CONSTANTS Stations,     \* station keys, numbered in the order of localeCompare
          Inputs,       \* the snapshots planned for
          Edges,        \* neighborhood.edges
          Versions,     \* the policy versions asked for
          Alpha, Beta, MinCapacity, Allowed,         \* targets, missing_data
          BikeBudget, MaxMoves, MaxStationsTouched   \* effort

Station == [capacity : Nat \ {0}, bikes : Nat, docks : Nat,
            bucket_quality : STRING]

ASSUME SolverAssumption ==
  /\ Stations \subseteq Nat /\ IsFiniteSet(Stations)
  /\ Inputs \subseteq [Stations -> Station]
  /\ Edges \subseteq [from : Stations, to : Stations, dist_m : Nat]
  /\ Versions \subseteq {"rebal.greedy.v1", "rebal.global.v1"}
  /\ Alpha \in 0..100 /\ Beta \in 0..100
  /\ {MinCapacity, BikeBudget, MaxMoves, MaxStationsTouched} \subseteq Nat

VARIABLES station,      \* the snapshot
          policy_version,
          bikes_after,
          bikesBudgetRemaining, movesRemaining,
          touched, moves,
          done          \* the loop has ended

problem == <<station, policy_version>>
plan == <<bikes_after, bikesBudgetRemaining, movesRemaining, touched, moves>>
solverVars == <<problem, plan, done>>

MoveRecord == [edge : Edges, bikes_moved : Nat \ {0}]

SolverTypeOK ==
  /\ station \in Inputs /\ policy_version \in Versions
  /\ bikes_after \in [Stations -> Nat]
  /\ bikesBudgetRemaining \in Nat /\ movesRemaining \in Nat
  /\ touched \subseteq Stations
  /\ moves \in Seq(MoveRecord)
  /\ done \in {"no", "yes"}

SolverInit ==
  /\ station \in Inputs /\ policy_version \in Versions
  /\ bikes_after = [s \in Stations |-> station[s].bikes]
  /\ bikesBudgetRemaining = BikeBudget /\ movesRemaining = MaxMoves
  /\ touched = {} /\ moves = <<>>
  /\ done = "no"

------------------------------------------------------------------------------

\* computeBand: alpha * capacity rounded up, beta * capacity rounded down.
L(s) == (Alpha * station[s].capacity + 99) \div 100
U(s) == (Beta * station[s].capacity) \div 100

eligible(s) == /\ station[s].capacity >= MinCapacity
               /\ station[s].bucket_quality \in Allowed

Least(a, b) == IF a <= b THEN a ELSE b
Positive(n) == IF n > 0 THEN n ELSE 0

remainingNeed(s) == Positive(L(s) - bikes_after[s])
remainingExcess(s) == Positive(bikes_after[s] - U(s))

\* Mutant: what the receiver needs is not asked for.
MutTransferable(e) == remainingExcess(e.from)

transferable(e) == Least(remainingExcess(e.from), remainingNeed(e.to))

\* buildCandidates.
Candidates == {e \in Edges : /\ eligible(e.from) /\ eligible(e.to)
                             /\ transferable(e) > 0}

ByName(e, f) == e.from < f.from \/ (e.from = f.from /\ e.to < f.to)
ByTransfer(e, f) == \/ transferable(e) > transferable(f)
                    \/ transferable(e) = transferable(f) /\ ByName(e, f)
ByDistance(e, f) == \/ e.dist_m < f.dist_m
                    \/ e.dist_m = f.dist_m /\ ByTransfer(e, f)

\* candidateSort of global_v1.ts: most bikes per meter first.
Yield(e, f) == transferable(e) * (IF f.dist_m > 1 THEN f.dist_m ELSE 1)
ByEfficiency(e, f) == \/ Yield(e, f) > Yield(f, e)
                      \/ Yield(e, f) = Yield(f, e) /\ ByDistance(e, f)

\* Mutant: the larger transfer goes before the shorter distance.
MutFirst(e, f) == ByTransfer(e, f)

First(e, f) == IF policy_version = "rebal.greedy.v1" THEN ByDistance(e, f)
                                                     ELSE ByEfficiency(e, f)

\* Mutant: the stations of the edge itself are not counted.
MutWithinStations(e) == Cardinality(touched) <= MaxStationsTouched

WithinStations(e) ==
  Cardinality(touched \cup {e.from, e.to}) <= MaxStationsTouched

Selected == {e \in Candidates :
               /\ WithinStations(e)
               /\ \A f \in Candidates \ {e} : WithinStations(f) => First(e, f)}

Goes == bikesBudgetRemaining > 0 /\ movesRemaining > 0

\* Mutant: a round moves a single bike.
MutAmountOne(e) == 1

Amount(e) == Least(transferable(e), bikesBudgetRemaining)

\* Mutant: the donor is left as it was.
MutTransfer(e) == [bikes_after EXCEPT ![e.to] = @ + Amount(e)]

Transfer(e) == [s \in Stations |-> bikes_after[s]
                                    - (IF s = e.from THEN Amount(e) ELSE 0)
                                    + (IF s = e.to THEN Amount(e) ELSE 0)]

MoveBikes ==
  /\ done = "no" /\ Goes
  /\ \E e \in Selected :
       /\ bikes_after' = Transfer(e)
       /\ bikesBudgetRemaining' = bikesBudgetRemaining - Amount(e)
       /\ movesRemaining' = movesRemaining - 1
       /\ touched' = touched \cup {e.from, e.to}
       /\ moves' = Append(moves, [edge |-> e, bikes_moved |-> Amount(e)])
  /\ UNCHANGED <<problem, done>>

Stop ==
  /\ done = "no" /\ (Goes => Selected = {})
  /\ done' = "yes"
  /\ UNCHANGED <<problem, plan>>

SolverNext == MoveBikes \/ Stop

SolverSpec == SolverInit /\ [][SolverNext]_solverVars

------------------------------------------------------------------------------

\* alpha <= beta does not give this: at 45 and 55 percent a station of
\* capacity 5 has L = 3 and U = 2.
ProperBands == \A s \in Stations : eligible(s) => L(s) <= U(s)

Out(s) == {i \in DOMAIN moves : moves[i].edge.from = s}
In(s) == {i \in DOMAIN moves : moves[i].edge.to = s}
MovedBy(I) == MapThenSumSet(LAMBDA i : moves[i].bikes_moved, I)

\* PLAN.md:252 "Conservation": the list of moves is exactly what takes the
\* snapshot to the result, station by station, so no bike appears or vanishes.
MovesExplainResult ==
  \A s \in Stations :
    bikes_after[s] = station[s].bikes - MovedBy(Out(s)) + MovedBy(In(s))

\* No plan drives a station past its band: one above it comes down to U at
\* most, one below it comes up to L at most, and the others are not touched,
\* however many moves share a station.
NeverOvershoots ==
  ProperBands => \A s \in Stations :
    LET b == station[s].bikes
        a == bikes_after[s]
    IN IF eligible(s) /\ b > U(s) THEN U(s) <= a /\ a <= b
       ELSE IF eligible(s) /\ b < L(s) THEN b <= a /\ a <= L(s)
       ELSE a = b

\* No edge is used twice, nor is there a move back: a plan is no longer than
\* the pairs it serves, and it does not move bikes to and fro.
NoEdgeTwice ==
  ProperBands => \A i, j \in DOMAIN moves :
    i # j => /\ moves[i].edge # moves[j].edge
             /\ moves[i].edge.to # moves[j].edge.from

\* The greedy plan is the one its README promises (minimum distance first)
\* as a whole, not only round by round: no candidate passed over for touching
\* too many stations becomes admissible later.
NearestFirst ==
  ProperBands /\ policy_version = "rebal.greedy.v1" =>
    \A i, j \in DOMAIN moves :
      i < j => moves[i].edge.dist_m <= moves[j].edge.dist_m

EndsOf(I) == UNION {{moves[i].edge.from, moves[i].edge.to} : i \in I}

\* PLAN.md:253 "Never exceed step budgets": whatever the order in which the
\* three budgets run out, the list of moves alone stays within each of them.
\* The loop asks only whether bikes are left, and passes edges over by stations.
BudgetsKept == /\ MovedBy(DOMAIN moves) <= BikeBudget
               /\ Len(moves) <= MaxMoves
               /\ Cardinality(EndsOf(DOMAIN moves)) <= MaxStationsTouched

=============================================================================
