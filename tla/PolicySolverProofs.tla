-------------------------- MODULE PolicySolverProofs --------------------------
(***************************************************************************)
(* Safety of the two strategies for every network, snapshot, target and    *)
(* budget.                                                                 *)
(***************************************************************************)
EXTENDS WorkerPlan, ListsAndSums, TLAPS

\* What the moves made so far leave of the two ends of their edges.
Spent(e) == \/ remainingExcess(e.from) = 0
            \/ remainingNeed(e.to) = 0
            \/ bikesBudgetRemaining = 0

\* Where the two ends of every move made stood in the snapshot.
Ends(e) == /\ eligible(e.from) /\ station[e.from].bikes > U(e.from)
           /\ eligible(e.to) /\ station[e.to].bikes < L(e.to)

EdgesServed == ProperBands => \A i \in DOMAIN moves :
                                Spent(moves[i].edge) /\ Ends(moves[i].edge)

IInv == SolverTypeOK /\ NeverOvershoots /\ EdgesServed /\ NoEdgeTwice

------------------------------------------------------------------------------

\* The bounds of a band are integers, the upper one not negative.
LEMMA BandType ==
  ASSUME station \in Inputs, NEW s \in Stations
  PROVE  L(s) \in Int /\ U(s) \in Nat /\ station[s].bikes \in Nat
<1>1. station[s] \in Station
  BY SolverAssumption
<1>2. station[s].capacity \in Nat /\ station[s].bikes \in Nat
  BY <1>1 DEF Station
<1>3. Alpha \in Int /\ Beta \in Nat
  BY SolverAssumption
<1>4. Alpha * station[s].capacity \in Int /\ Beta * station[s].capacity \in Nat
  BY <1>2, <1>3
<1> QED
  BY <1>2, <1>4 DEF L, U

\* A candidate has a donor above its band and a receiver below, and what is
\* moved is positive and within the donor's excess, the receiver's need and
\* the budget.
LEMMA Candidate ==
  ASSUME SolverTypeOK, Goes, NEW e \in Selected
  PROVE  /\ e \in Edges /\ e.from \in Stations /\ e.to \in Stations
         /\ eligible(e.from) /\ eligible(e.to)
         /\ bikes_after[e.from] \in Nat /\ bikes_after[e.to] \in Nat
         /\ bikes_after[e.from] > U(e.from) /\ bikes_after[e.to] < L(e.to)
         /\ Amount(e) \in Nat \ {0}
         /\ Amount(e) <= bikesBudgetRemaining
         /\ Amount(e) <= bikes_after[e.from] - U(e.from)
         /\ Amount(e) <= L(e.to) - bikes_after[e.to]
         /\ \/ Amount(e) = bikesBudgetRemaining
            \/ Amount(e) = bikes_after[e.from] - U(e.from)
            \/ Amount(e) = L(e.to) - bikes_after[e.to]
<1>1. /\ e \in Edges /\ eligible(e.from) /\ eligible(e.to)
      /\ transferable(e) > 0
  BY DEF Selected, Candidates
<1>2. e.from \in Stations /\ e.to \in Stations
  BY <1>1, SolverAssumption
<1>3. bikes_after[e.from] \in Nat /\ bikes_after[e.to] \in Nat
  BY <1>2 DEF SolverTypeOK
<1>4. /\ L(e.from) \in Int /\ U(e.from) \in Int
      /\ L(e.to) \in Int /\ U(e.to) \in Int
  BY <1>2, BandType DEF SolverTypeOK
<1>5. bikesBudgetRemaining \in Nat /\ bikesBudgetRemaining > 0
  BY DEF Goes, SolverTypeOK
<1> QED
  BY <1>1, <1>2, <1>3, <1>4, <1>5
     DEF transferable, remainingExcess, remainingNeed, Positive, Least, Amount

\* The tables of a run that holds no move yet.
LEMMA InitIInv == SolverInit => IInv
<1> SUFFICES ASSUME SolverInit PROVE IInv
  OBVIOUS
<1>1. SolverTypeOK
  <2>1. \A s \in Stations : station[s].bikes \in Nat
    BY BandType DEF SolverInit
  <2> QED
    BY <2>1, SolverAssumption DEF SolverInit, SolverTypeOK
<1>2. NeverOvershoots
  <2> SUFFICES ASSUME ProperBands, NEW s \in Stations
               PROVE  LET b == station[s].bikes
                          a == bikes_after[s]
                      IN IF eligible(s) /\ b > U(s) THEN U(s) <= a /\ a <= b
                         ELSE IF eligible(s) /\ b < L(s) THEN b <= a /\ a <= L(s)
                         ELSE a = b
    BY DEF NeverOvershoots
  <2>1. bikes_after[s] = station[s].bikes
    BY DEF SolverInit
  <2> QED
    BY <2>1, BandType DEF SolverInit
<1>3. EdgesServed /\ NoEdgeTwice
  BY DEF SolverInit, EdgesServed, NoEdgeTwice
<1> QED
  BY <1>1, <1>2, <1>3 DEF IInv

\* A round keeps the types: the donor does not go below zero.
LEMMA MoveType ==
  ASSUME SolverTypeOK, MoveBikes PROVE SolverTypeOK'
<1>1. PICK e \in Selected :
        /\ bikes_after' = Transfer(e)
        /\ bikesBudgetRemaining' = bikesBudgetRemaining - Amount(e)
        /\ touched' = touched \cup {e.from, e.to}
        /\ moves' = Append(moves, [edge |-> e, bikes_moved |-> Amount(e)])
  BY DEF MoveBikes
<1>2. /\ e \in Edges /\ e.from \in Stations /\ e.to \in Stations
      /\ Amount(e) \in Nat \ {0}
      /\ Amount(e) <= bikesBudgetRemaining
      /\ Amount(e) <= bikes_after[e.from] - U(e.from)
  BY Candidate DEF MoveBikes
<1>3. U(e.from) \in Nat
  BY <1>2, BandType DEF SolverTypeOK
<1>4. bikes_after' \in [Stations -> Nat]
  <2> DEFINE n == Amount(e)
  <2>1. \A s \in Stations : bikes_after[s] \in Nat
    BY DEF SolverTypeOK
  <2>2. n \in Nat /\ n <= bikes_after[e.from] - U(e.from)
    BY <1>2
  <2> HIDE DEF n
  <2>3. \A s \in Stations : bikes_after[s] - (IF s = e.from THEN n ELSE 0)
                                            + (IF s = e.to THEN n ELSE 0) \in Nat
    BY <1>2, <1>3, <2>1, <2>2
  <2> QED
    BY <1>1, <2>3 DEF Transfer, n
<1>5. moves' \in Seq(MoveRecord)
  <2>1. [edge |-> e, bikes_moved |-> Amount(e)] \in MoveRecord
    BY <1>2 DEF MoveRecord
  <2> QED
    BY <1>1, <2>1 DEF SolverTypeOK
<1>6. bikesBudgetRemaining' \in Nat /\ movesRemaining' \in Nat
  BY <1>1, <1>2 DEF SolverTypeOK, MoveBikes, Goes
<1> QED
  BY <1>1, <1>2, <1>4, <1>5, <1>6 DEF SolverTypeOK, MoveBikes, problem

\* A round moves its donor down towards U and its receiver up towards L, and
\* serves an edge that no move has served.
LEMMA MoveKeeps ==
  ASSUME IInv, MoveBikes PROVE NeverOvershoots' /\ EdgesServed' /\ NoEdgeTwice'
<1> SUFFICES ASSUME ProperBands
             PROVE  NeverOvershoots' /\ EdgesServed' /\ NoEdgeTwice'
  BY DEF NeverOvershoots, EdgesServed, NoEdgeTwice, ProperBands, MoveBikes,
         eligible, L, U, problem
<1> USE DEF IInv
<1>1. PICK e \in Selected :
        /\ bikes_after' = Transfer(e)
        /\ bikesBudgetRemaining' = bikesBudgetRemaining - Amount(e)
        /\ moves' = Append(moves, [edge |-> e, bikes_moved |-> Amount(e)])
  BY DEF MoveBikes
<1> DEFINE n == Amount(e)  d == e.from  r == e.to
<1>2. /\ e \in Edges /\ d \in Stations /\ r \in Stations
      /\ eligible(d) /\ eligible(r)
      /\ bikes_after[d] \in Nat /\ bikes_after[r] \in Nat
      /\ bikes_after[d] > U(d) /\ bikes_after[r] < L(r)
      /\ n \in Nat \ {0}
      /\ n <= bikesBudgetRemaining
      /\ n <= bikes_after[d] - U(d) /\ n <= L(r) - bikes_after[r]
      /\ \/ n = bikesBudgetRemaining
         \/ n = bikes_after[d] - U(d)
         \/ n = L(r) - bikes_after[r]
  BY Candidate DEF MoveBikes
<1>3. /\ station' = station
      /\ \A s \in Stations : L(s)' = L(s) /\ U(s)' = U(s) /\ (eligible(s)' <=> eligible(s))
  BY DEF MoveBikes, L, U, eligible, problem
<1>4. \A s \in Stations : /\ L(s) \in Int /\ U(s) \in Nat
                          /\ station[s].bikes \in Nat /\ bikes_after[s] \in Nat
                          /\ eligible(s) => L(s) <= U(s)
  BY BandType DEF SolverTypeOK, ProperBands
<1>5. \A s \in Stations :
        IF eligible(s) /\ station[s].bikes > U(s)
          THEN U(s) <= bikes_after[s] /\ bikes_after[s] <= station[s].bikes
        ELSE IF eligible(s) /\ station[s].bikes < L(s)
          THEN station[s].bikes <= bikes_after[s] /\ bikes_after[s] <= L(s)
        ELSE bikes_after[s] = station[s].bikes
  BY DEF NeverOvershoots
<1>6. station[d].bikes > U(d) /\ station[r].bikes < L(r) /\ d # r
  <2>1. station[d].bikes > U(d)
    <3> HIDE DEF d
    <3> QED
      BY <1>2, <1>4, <1>5
  <2>2. station[r].bikes < L(r)
    <3> HIDE DEF r
    <3> QED
      BY <1>2, <1>4, <1>5
  <2>3. d # r
    <3> HIDE DEF d, r
    <3> QED
      BY <1>2, <1>4
  <2> QED
    BY <2>1, <2>2, <2>3
<1>7. \A s \in Stations : bikes_after'[s] = IF s = d THEN bikes_after[d] - n
                                           ELSE IF s = r THEN bikes_after[r] + n
                                           ELSE bikes_after[s]
  <2>1. \A s \in Stations : bikes_after'[s] = bikes_after[s] - (IF s = d THEN n ELSE 0)
                                             + (IF s = r THEN n ELSE 0)
    BY <1>1 DEF Transfer
  <2> HIDE DEF n, d, r
  <2> QED
    BY <1>2, <1>4, <1>6, <2>1
<1> HIDE DEF n, d, r
<1>8. \A s \in Stations :
        IF eligible(s) /\ station[s].bikes > U(s)
          THEN U(s) <= bikes_after'[s] /\ bikes_after'[s] <= station[s].bikes
        ELSE IF eligible(s) /\ station[s].bikes < L(s)
          THEN station[s].bikes <= bikes_after'[s] /\ bikes_after'[s] <= L(s)
        ELSE bikes_after'[s] = station[s].bikes
  BY <1>2, <1>4, <1>5, <1>6, <1>7
<1>9. NeverOvershoots'
  BY <1>3, <1>8 DEF NeverOvershoots, L, U, eligible
<1> DEFINE E(i) == moves[i].edge  last == Len(moves) + 1
<1>10. /\ DOMAIN moves' = DOMAIN moves \cup {last} /\ last \notin DOMAIN moves
       /\ \A i \in DOMAIN moves : moves'[i].edge = E(i) /\ E(i) \in Edges
       /\ moves'[last].edge = e
  <2>1. moves \in Seq(MoveRecord)
    BY DEF SolverTypeOK
  <2>2. \A i \in DOMAIN moves : moves[i] \in MoveRecord
    BY <2>1
  <2> QED
    BY <1>1, <2>1, <2>2 DEF MoveRecord
<1>11. \A i \in DOMAIN moves :
         /\ E(i).from \in Stations /\ E(i).to \in Stations
         /\ Spent(E(i)) /\ Ends(E(i))
  BY <1>10, SolverAssumption DEF EdgesServed
<1> HIDE DEF E, last
<1>12. \A i \in DOMAIN moves :
         /\ station[E(i).from].bikes > U(E(i).from)
         /\ station[E(i).to].bikes < L(E(i).to)
         /\ L(E(i).from) <= U(E(i).from) /\ L(E(i).to) <= U(E(i).to)
  BY <1>4, <1>11 DEF Ends
<1>13. \A i \in DOMAIN moves : E(i).to # d /\ E(i).from # r
  BY <1>2, <1>4, <1>6, <1>11, <1>12
<1>14. bikesBudgetRemaining \in Nat /\ bikesBudgetRemaining > 0
  BY DEF MoveBikes, Goes, SolverTypeOK
<1>15. \A i \in DOMAIN moves : E(i) # e
  <2>1. ~Spent(e)
    <3>1. remainingExcess(d) # 0 /\ remainingNeed(r) # 0
      BY <1>2, <1>4 DEF remainingExcess, remainingNeed, Positive
    <3> QED
      BY <1>14, <3>1 DEF Spent, d, r
  <2> QED
    BY <1>11, <2>1
<1>16. \A i \in DOMAIN moves : E(i).from # e.to /\ E(i).to # e.from
  BY <1>13 DEF d, r
<1>17. e.to # e.from
  BY <1>6 DEF d, r
<1>18. NoEdgeTwice'
  BY <1>10, <1>15, <1>16 DEF NoEdgeTwice, E
<1>19. ASSUME NEW f \in Edges, NEW i \in DOMAIN moves, f = E(i)
       PROVE  Spent(f)' /\ Ends(f)'
  <2> DEFINE x == f.from  y == f.to
  <2>1. x \in Stations /\ y \in Stations /\ x # r /\ y # d /\ Spent(f) /\ Ends(f)
    BY <1>11, <1>13, <1>19
  <2>2. Ends(f)'
    BY <1>3, <2>1 DEF Ends
  <2>3. /\ remainingExcess(x) = 0 \/ remainingNeed(y) = 0
        /\ remainingExcess(x)' = Positive(bikes_after'[x] - U(x))
        /\ remainingNeed(y)' = Positive(L(y) - bikes_after'[y])
    BY <1>3, <1>14, <2>1 DEF Spent, remainingExcess, remainingNeed
  <2>4. remainingExcess(x)' = 0 \/ remainingNeed(y)' = 0
    <3> HIDE DEF x, y
    <3>1. /\ bikes_after'[x] <= bikes_after[x] /\ bikes_after'[y] >= bikes_after[y]
          /\ bikes_after'[x] \in Int /\ bikes_after'[y] \in Int
          /\ bikes_after[x] \in Int /\ bikes_after[y] \in Int
          /\ U(x) \in Int /\ L(y) \in Int
      BY <1>2, <1>4, <1>7, <2>1
    <3> QED
      BY <2>3, <3>1 DEF remainingExcess, remainingNeed, Positive
  <2> QED
    BY <2>2, <2>4 DEF Spent
<1>20. Spent(e)' /\ Ends(e)'
  <2>1. Ends(e)'
    BY <1>2, <1>3, <1>6 DEF Ends, d, r
  <2>2. /\ bikes_after'[d] = bikes_after[d] - n /\ bikes_after'[r] = bikes_after[r] + n
        /\ bikesBudgetRemaining' = bikesBudgetRemaining - n
    BY <1>1, <1>2, <1>6, <1>7 DEF n
  <2>3. \/ bikesBudgetRemaining' = 0
        \/ Positive(bikes_after'[d] - U(d)) = 0
        \/ Positive(L(r) - bikes_after'[r]) = 0
    <3>1. U(d) \in Int /\ L(r) \in Int
      BY <1>2, <1>4
    <3>2. CASE n = bikesBudgetRemaining
      BY <1>14, <2>2, <3>2
    <3>3. CASE n = bikes_after[d] - U(d)
      BY <1>2, <2>2, <3>1, <3>3 DEF Positive
    <3>4. CASE n = L(r) - bikes_after[r]
      BY <1>2, <2>2, <3>1, <3>4 DEF Positive
    <3> QED
      BY <1>2, <3>2, <3>3, <3>4
  <2> QED
    BY <1>2, <1>3, <2>1, <2>3 DEF Spent, remainingExcess, remainingNeed, d, r
<1>21. EdgesServed'
  BY <1>2, <1>10, <1>19, <1>20 DEF EdgesServed
<1> QED
  BY <1>9, <1>18, <1>21

\* A step that changes no solver variable changes no conjunct.
LEMMA StutterIInv ==
  ASSUME IInv, UNCHANGED <<problem, plan>>,
         done' \in {"no", "yes"}
  PROVE  IInv'
<1>1. SolverTypeOK'
  BY DEF IInv, SolverTypeOK, problem, plan
<1>2. NeverOvershoots'
  BY DEF IInv, NeverOvershoots, ProperBands, eligible, L, U, problem, plan
<1>3. NoEdgeTwice'
  BY DEF IInv, NoEdgeTwice, ProperBands, eligible, L, U, problem, plan
<1>4. EdgesServed'
  BY DEF IInv, EdgesServed, ProperBands, eligible, L, U, Spent, Ends,
         remainingExcess, remainingNeed, problem, plan
<1> QED
  BY <1>1, <1>2, <1>3, <1>4 DEF IInv

------------------------------------------------------------------------------

\* The invariant is inductive for both strategies.
THEOREM SolverInductive == SolverSpec => []IInv
<1>1. SolverInit => IInv
  BY InitIInv
<1>2. IInv /\ [SolverNext]_solverVars => IInv'
  <2> SUFFICES ASSUME IInv, [SolverNext]_solverVars PROVE IInv'
    OBVIOUS
  <2>1. CASE MoveBikes
    BY <2>1, MoveType, MoveKeeps DEF IInv
  <2>2. CASE Stop
    BY <2>2, StutterIInv DEF Stop
  <2>3. CASE UNCHANGED solverVars
    BY <2>3, StutterIInv DEF solverVars, IInv, SolverTypeOK
  <2> QED
    BY <2>1, <2>2, <2>3 DEF SolverNext
<1> QED
  BY <1>1, <1>2, PTL DEF SolverSpec

\* Counts of bikes and budgets never become negative: a donor has what it
\* gives, whatever the bands are.
THEOREM SolverTypeCorrect == SolverSpec => []SolverTypeOK
<1>1. IInv => SolverTypeOK
  BY DEF IInv
<1> QED
  BY <1>1, SolverInductive, PTL

\* With proper bands no station is driven past its band.
THEOREM NoOvershoot == SolverSpec => []NeverOvershoots
<1>1. IInv => NeverOvershoots
  BY DEF IInv
<1> QED
  BY <1>1, SolverInductive, PTL

\* With proper bands no edge is served twice and nothing is moved back.
THEOREM EdgesOnce == SolverSpec => []NoEdgeTwice
<1>1. IInv => NoEdgeTwice
  BY DEF IInv
<1> QED
  BY <1>1, SolverInductive, PTL

------------------------------------------------------------------------------

\* What a round could still choose.
Admissible == {e \in Candidates : WithinStations(e)}

\* No edge is nearer than one already used, of those that can still be chosen.
NearLeft == ProperBands /\ policy_version = "rebal.greedy.v1" =>
              \A i \in DOMAIN moves : \A e \in Admissible :
                moves[i].edge.dist_m <= e.dist_m

\* The stations touched so far are finitely many.
TouchedFinite == touched \subseteq Stations /\ IsFiniteSet(touched)

\* Touching more stations does not make an edge fit the bound.
LEMMA StationsGrow ==
  ASSUME NEW S, NEW T, IsFiniteSet(T), S \subseteq T
  PROVE  Cardinality(S) \in Nat /\ Cardinality(T) \in Nat
         /\ Cardinality(S) <= Cardinality(T)
BY FS_Subset, FS_CardinalityType

\* A round makes no edge a candidate: donors only come down towards their band
\* and receivers only up to it.
LEMMA CandidatesShrink ==
  ASSUME IInv, TouchedFinite, ProperBands, MoveBikes
  PROVE  Admissible' \subseteq Admissible
<1>1. PICK e \in Selected :
        bikes_after' = Transfer(e) /\ touched' = touched \cup {e.from, e.to}
  BY DEF MoveBikes
<1> DEFINE n == Amount(e)  d == e.from  r == e.to
<1>2. /\ d \in Stations /\ r \in Stations /\ eligible(d) /\ eligible(r)
      /\ bikes_after[d] > U(d) /\ bikes_after[r] < L(r)
      /\ n \in Nat \ {0}
      /\ n <= bikes_after[d] - U(d) /\ n <= L(r) - bikes_after[r]
  BY Candidate DEF MoveBikes, IInv
<1>3. \A s \in Stations : L(s)' = L(s) /\ U(s)' = U(s) /\ (eligible(s)' <=> eligible(s))
  BY DEF MoveBikes, L, U, eligible, problem
<1>4. \A s \in Stations : /\ L(s) \in Int /\ U(s) \in Int /\ bikes_after[s] \in Int
                          /\ eligible(s) => L(s) <= U(s)
  BY BandType DEF IInv, SolverTypeOK, ProperBands
<1>5. \A s \in Stations : bikes_after'[s] = bikes_after[s] - (IF s = d THEN n ELSE 0)
                                             + (IF s = r THEN n ELSE 0)
  BY <1>1 DEF Transfer
<1> HIDE DEF n, d, r
<1>6. \A s \in Stations : eligible(s) =>
        /\ bikes_after'[s] > U(s) => bikes_after[s] > U(s)
        /\ bikes_after'[s] < L(s) => bikes_after[s] < L(s)
        /\ bikes_after'[s] \in Int
  BY <1>2, <1>4, <1>5
<1>7. ASSUME NEW f \in Admissible' PROVE f \in Admissible
  <2>1. /\ f \in Edges /\ f.from \in Stations /\ f.to \in Stations
        /\ eligible(f.from) /\ eligible(f.to) /\ transferable(f)' > 0
    BY <1>3, SolverAssumption DEF Admissible, Candidates
  <2>2. bikes_after'[f.from] > U(f.from) /\ bikes_after'[f.to] < L(f.to)
    <3>1. /\ remainingExcess(f.from)' = Positive(bikes_after'[f.from] - U(f.from))
          /\ remainingNeed(f.to)' = Positive(L(f.to) - bikes_after'[f.to])
      BY <1>3, <2>1 DEF remainingExcess, remainingNeed
    <3> DEFINE x == Positive(bikes_after'[f.from] - U(f.from))
               y == Positive(L(f.to) - bikes_after'[f.to])
    <3>2. Least(x, y) > 0
      BY <2>1, <3>1 DEF transferable, Least
    <3>3. x \in Int /\ y \in Int
      BY <1>4, <1>6, <2>1 DEF Positive
    <3> HIDE DEF x, y
    <3>4. x > 0 /\ y > 0
      BY <3>2, <3>3 DEF Least
    <3>5. bikes_after'[f.from] - U(f.from) > 0
      BY <3>4 DEF x, Positive
    <3>6. L(f.to) - bikes_after'[f.to] > 0
      BY <3>4 DEF y, Positive
    <3> QED
      BY <1>4, <1>6, <2>1, <3>5, <3>6
  <2>3. f \in Candidates
    BY <1>4, <1>6, <2>1, <2>2
       DEF Candidates, transferable, Least, remainingExcess, remainingNeed, Positive
  <2>4. WithinStations(f)
    <3>1. IsFiniteSet(touched' \cup {f.from, f.to})
      <4>1. touched' \cup {f.from, f.to} \subseteq Stations
        BY <1>1, <1>2, <2>1 DEF TouchedFinite, d, r
      <4> QED
        BY <4>1, FS_Subset, SolverAssumption
    <3>2. Cardinality(touched \cup {f.from, f.to}) \in Nat
          /\ Cardinality(touched' \cup {f.from, f.to}) \in Nat
          /\ Cardinality(touched \cup {f.from, f.to})
               <= Cardinality(touched' \cup {f.from, f.to})
      BY <1>1, <3>1, StationsGrow
    <3>3. Cardinality(touched' \cup {f.from, f.to}) <= MaxStationsTouched
          /\ MaxStationsTouched \in Nat
      BY SolverAssumption DEF Admissible, WithinStations
    <3> QED
      BY <3>2, <3>3 DEF WithinStations
  <2> QED
    BY <2>3, <2>4 DEF Admissible
<1> QED
  BY <1>7

\* A round of the greedy strategy uses the nearest edge that is left.
LEMMA MoveNearest ==
  ASSUME IInv, TouchedFinite, NearLeft, NearestFirst, MoveBikes
  PROVE  NearLeft' /\ NearestFirst'
<1> SUFFICES ASSUME ProperBands, policy_version = "rebal.greedy.v1"
             PROVE  NearLeft' /\ NearestFirst'
  BY DEF NearLeft, NearestFirst, ProperBands, MoveBikes, eligible, L, U, problem
<1>1. PICK e \in Selected : moves' = Append(moves, [edge |-> e, bikes_moved |-> Amount(e)])
  BY DEF MoveBikes
<1>2. e \in Admissible
  BY DEF Selected, Admissible
<1>3. \A f \in Admissible : e.dist_m <= f.dist_m
  <2>1. ASSUME NEW f \in Admissible, f # e PROVE e.dist_m <= f.dist_m
    <3>1. First(e, f)
      BY <2>1 DEF Selected, Admissible
    <3>2. e.dist_m \in Nat /\ f.dist_m \in Nat
      BY SolverAssumption DEF Selected, Admissible, Candidates
    <3> QED
      BY <3>1, <3>2 DEF First, ByDistance
  <2>2. e.dist_m \in Nat
    BY SolverAssumption DEF Selected, Candidates
  <2> QED
    BY <2>1, <2>2
<1> DEFINE last == Len(moves) + 1
<1>4. /\ DOMAIN moves = 1..Len(moves) /\ Len(moves) \in Nat
      /\ DOMAIN moves' = 1..last /\ moves'[last].edge = e
      /\ \A i \in DOMAIN moves : moves'[i].edge = moves[i].edge
  <2>1. moves \in Seq(MoveRecord)
    BY DEF IInv, SolverTypeOK
  <2> QED
    BY <1>1, <2>1
<1>5. \A i \in DOMAIN moves' : i = last \/ i \in DOMAIN moves
  BY <1>4
<1>6. \A i \in DOMAIN moves : \A f \in Admissible : moves[i].edge.dist_m <= f.dist_m
  BY DEF NearLeft
<1>7. NearLeft'
  BY <1>3, <1>4, <1>5, <1>6, CandidatesShrink DEF NearLeft
<1>8. NearestFirst'
  <2>1. ASSUME NEW i \in DOMAIN moves', NEW j \in DOMAIN moves', i < j
        PROVE  moves'[i].edge.dist_m <= moves'[j].edge.dist_m
    <3>1. i \in DOMAIN moves
      BY <1>4, <2>1
    <3>2. CASE j = last
      BY <1>2, <1>4, <1>6, <3>1, <3>2
    <3>3. CASE j \in DOMAIN moves
      BY <1>4, <2>1, <3>1, <3>3 DEF NearestFirst
    <3> QED
      BY <1>5, <3>2, <3>3
  <2> QED
    BY <2>1 DEF NearestFirst
<1> QED
  BY <1>7, <1>8

\* The greedy plan takes its edges in the order of their distance, as a whole: no
\* candidate passed over becomes admissible later.
THEOREM GreedyNearest == SolverSpec => []NearestFirst
<1> DEFINE Inv == IInv /\ TouchedFinite /\ NearLeft /\ NearestFirst
<1>1. SolverInit => Inv
  <2>1. SolverInit => TouchedFinite /\ NearLeft /\ NearestFirst
    BY FS_EmptySet DEF SolverInit, TouchedFinite, NearLeft, NearestFirst
  <2> QED
    BY <2>1, InitIInv
<1>2. Inv /\ [SolverNext]_solverVars => Inv'
  <2> SUFFICES ASSUME Inv, [SolverNext]_solverVars PROVE Inv'
    OBVIOUS
  <2>1. CASE MoveBikes
    <3>1. TouchedFinite'
      <4>1. PICK e \in Selected : touched' = touched \cup {e.from, e.to}
        BY <2>1 DEF MoveBikes
      <4>2. e.from \in Stations /\ e.to \in Stations
        BY SolverAssumption DEF Selected, Candidates
      <4>3. touched' \subseteq Stations
        BY <4>1, <4>2 DEF TouchedFinite
      <4> QED
        BY <4>3, FS_Subset, SolverAssumption DEF TouchedFinite
    <3> QED
      BY <2>1, <3>1, MoveType, MoveKeeps, MoveNearest DEF IInv
  <2>2. ASSUME UNCHANGED <<problem, plan>>, done' \in {"no", "yes"} PROVE Inv'
    BY <2>2, StutterIInv DEF TouchedFinite, NearLeft, NearestFirst, ProperBands,
       Admissible, Candidates, WithinStations, transferable, remainingExcess,
       remainingNeed, eligible, L, U, problem, plan
  <2>3. CASE Stop
    BY <2>2, <2>3 DEF Stop
  <2>4. CASE UNCHANGED solverVars
    BY <2>2, <2>4 DEF solverVars, IInv, SolverTypeOK
  <2> QED
    BY <2>1, <2>3, <2>4 DEF SolverNext
<1>3. Inv => NearestFirst
  OBVIOUS
<1> HIDE DEF Inv
<1> QED
  BY <1>1, <1>2, <1>3, PTL DEF SolverSpec

------------------------------------------------------------------------------
(* Conservation: what the list of moves adds up to.                        *)

\* What the moves numbered I bring, of a list of moves.
Moved(m, I) == MapThenSumSet(LAMBDA i : m[i].bikes_moved, I)

\* It is a sum in the sense of ListsAndSums.
LEMMA MovedIsSum ==
  ASSUME NEW m, NEW I, IsFiniteSet(I)
  PROVE  Moved(m, I) = SumOf([i \in I |-> m[i].bikes_moved], I)
<1> DEFINE w == [i \in I |-> m[i].bikes_moved]
           H(g) == [s \in SUBSET I |-> IF s = {} THEN 0
                      ELSE m[Chosen(s)].bikes_moved + g[Rest(s)]]
           h == CHOOSE g : g = H(g)
<1>1. Moved(m, I) = h[I]
  BY DEF Moved, MapThenSumSet, MapThenFoldSet, Chosen, Rest
<1>2. \A g : g = H(g) <=> Adds(g, w, I)
  <2> TAKE g
  <2> DEFINE K == [s \in SUBSET I |-> IF s = {} THEN 0 ELSE w[Chosen(s)] + g[Rest(s)]]
  <2>1. \A s \in SUBSET I : s # {} => Chosen(s) \in I
    BY DEF Chosen
  <2>2. \A s \in SUBSET I : H(g)[s] = K[s]
    BY <2>1
  <2>3. H(g) = K
    BY <2>2
  <2> HIDE DEF H
  <2> QED
    BY <2>3 DEF Adds
<1>3. Adds(Adder(w, I), w, I)
  BY AddsExists
<1>4. h = H(h)
  <2>1. \E g : g = H(g)
    BY <1>2, <1>3
  <2> HIDE DEF H
  <2> QED
    BY <2>1
<1> HIDE DEF h, H
<1>5. Adds(h, w, I)
  BY <1>2, <1>4
<1> HIDE DEF w
<1>6. h[I] = Adder(w, I)[I]
  BY <1>3, <1>5, AddsAgree
<1> QED
  BY <1>1, <1>6, SumIsFold DEF w

\* The list n has the moves I of the list m, and one more of number k.
Continues(n, m, I, k) ==
  /\ IsFiniteSet(I) /\ k \notin I
  /\ \A i \in I : n[i] = m[i] /\ m[i].bikes_moved \in Int
  /\ n[k].bikes_moved \in Int

\* What one more move adds to it.
LEMMA MovedAppend ==
  ASSUME NEW m, NEW n, NEW I, NEW k, Continues(n, m, I, k)
  PROVE  /\ Moved(m, I) \in Int
         /\ Moved(n, I) = Moved(m, I)
         /\ Moved(n, I \cup {k}) = Moved(m, I) + n[k].bikes_moved
<1> DEFINE J == I \cup {k}
           v == [i \in I |-> m[i].bikes_moved]
           w == [i \in J |-> n[i].bikes_moved]
           u == [i \in I |-> n[i].bikes_moved]
<1>1. IsFiniteSet(I) /\ IsFiniteSet(J) /\ k \notin I
  BY FS_AddElement DEF Continues
<1>2. /\ \A i \in I : v[i] = w[i] /\ u[i] = w[i] /\ w[i] \in Int
      /\ w[k] = n[k].bikes_moved /\ w[k] \in Int
  BY DEF Continues
<1>3. /\ Moved(m, I) = SumOf(v, I) /\ Moved(n, I) = SumOf(u, I)
      /\ Moved(n, J) = SumOf(w, J)
  BY <1>1, MovedIsSum
<1> HIDE DEF u, v, w
<1>4. SumOf(v, I) = SumOf(w, I) /\ SumOf(u, I) = SumOf(w, I)
  BY <1>1, <1>2, SumSame
<1>5. SumOf(w, I) \in Int
  BY <1>1, <1>2, SumTakesOut
<1>6. SumOf(w, J) = SumOf(w, I) + w[k]
  BY <1>1, <1>2, SumPutsIn
<1> QED
  BY <1>2, <1>3, <1>4, <1>5, <1>6

\* No moves bring nothing.
LEMMA MovedNone ==
  ASSUME NEW m PROVE Moved(m, {}) = 0
<1> DEFINE w == [i \in {} |-> m[i].bikes_moved]
<1>1. IsFiniteSet({})
  BY FS_EmptySet
<1>2. Moved(m, {}) = SumOf(w, {})
  BY <1>1, MovedIsSum
<1> HIDE DEF w
<1>3. SumOf(w, {}) = 0
  BY <1>1, SumUnfolds
<1> QED
  BY <1>2, <1>3

\* The indices of a list of moves that satisfy anything are finitely many.
LEMMA IndicesFinite ==
  ASSUME NEW T, NEW m \in Seq(T), NEW I, I \subseteq DOMAIN m
  PROVE  IsFiniteSet(I)
<1>1. Len(m) \in Nat /\ DOMAIN m = 1..Len(m)
  OBVIOUS
<1>2. IsFiniteSet(1..Len(m))
  BY <1>1, FS_Interval
<1> QED
  BY <1>1, <1>2, FS_Subset

\* A round changes every station by what its move says.
LEMMA MoveExplains ==
  ASSUME SolverTypeOK, MovesExplainResult, MoveBikes
  PROVE  MovesExplainResult'
<1>1. PICK e \in Selected :
        /\ bikes_after' = Transfer(e)
        /\ moves' = Append(moves, [edge |-> e, bikes_moved |-> Amount(e)])
  BY DEF MoveBikes
<1> DEFINE n == Amount(e)  k == Len(moves) + 1
<1>2. n \in Int /\ e.from \in Stations /\ e.to \in Stations
  BY Candidate DEF MoveBikes
<1> SUFFICES ASSUME NEW s \in Stations
             PROVE  bikes_after'[s]
                      = station'[s].bikes - MovedBy(Out(s))' + MovedBy(In(s))'
  BY DEF MovesExplainResult
<1>3. station' = station /\ station[s].bikes \in Int /\ bikes_after[s] \in Int
  BY BandType DEF MoveBikes, problem, SolverTypeOK
<1>4. moves \in Seq(MoveRecord)
  BY DEF SolverTypeOK
<1>5. /\ k \notin DOMAIN moves /\ DOMAIN moves' = DOMAIN moves \cup {k}
      /\ \A i \in DOMAIN moves : /\ moves'[i] = moves[i]
                                 /\ moves[i].bikes_moved \in Int
      /\ moves'[k].edge = e /\ moves'[k].bikes_moved = n
  <2>1. \A i \in DOMAIN moves : moves[i] \in MoveRecord
    BY <1>4
  <2> QED
    BY <1>1, <1>4, <2>1 DEF MoveRecord
<1> HIDE DEF n, k
<1>6. /\ IsFiniteSet(Out(s)) /\ IsFiniteSet(In(s))
      /\ Out(s) \subseteq DOMAIN moves /\ In(s) \subseteq DOMAIN moves
  BY <1>4, IndicesFinite DEF Out, In
<1>7. /\ Out(s)' = IF e.from = s THEN Out(s) \cup {k} ELSE Out(s)
      /\ In(s)' = IF e.to = s THEN In(s) \cup {k} ELSE In(s)
  BY <1>5 DEF Out, In
<1> DEFINE o == Moved(moves, Out(s))  i == Moved(moves, In(s))
<1>8. /\ o \in Int
      /\ MovedBy(Out(s))' = IF e.from = s THEN o + n ELSE o
  <2>1. /\ o \in Int /\ Moved(moves', Out(s)) = o
        /\ Moved(moves', Out(s) \cup {k}) = o + n
    <3>1. Continues(moves', moves, Out(s), k)
      BY <1>2, <1>5, <1>6 DEF Continues
    <3>2. /\ Moved(moves, Out(s)) \in Int
          /\ Moved(moves', Out(s)) = Moved(moves, Out(s))
          /\ Moved(moves', Out(s) \cup {k})
               = Moved(moves, Out(s)) + moves'[k].bikes_moved
      BY <3>1, MovedAppend
    <3> QED
      BY <1>5, <3>2
  <2>2. MovedBy(Out(s))' = Moved(moves', Out(s)')
    BY DEF MovedBy, Moved, MapThenSumSet, MapThenFoldSet
  <2> HIDE DEF o
  <2> QED
    BY <1>7, <2>1, <2>2
<1>9. /\ i \in Int
      /\ MovedBy(In(s))' = IF e.to = s THEN i + n ELSE i
  <2>1. /\ i \in Int /\ Moved(moves', In(s)) = i
        /\ Moved(moves', In(s) \cup {k}) = i + n
    <3>1. Continues(moves', moves, In(s), k)
      BY <1>2, <1>5, <1>6 DEF Continues
    <3>2. /\ Moved(moves, In(s)) \in Int
          /\ Moved(moves', In(s)) = Moved(moves, In(s))
          /\ Moved(moves', In(s) \cup {k})
               = Moved(moves, In(s)) + moves'[k].bikes_moved
      BY <3>1, MovedAppend
    <3> QED
      BY <1>5, <3>2
  <2>2. MovedBy(In(s))' = Moved(moves', In(s)')
    BY DEF MovedBy, Moved, MapThenSumSet, MapThenFoldSet
  <2> HIDE DEF i
  <2> QED
    BY <1>7, <2>1, <2>2
<1>10. bikes_after[s] = station[s].bikes - o + i
  BY DEF MovesExplainResult, MovedBy, Moved, MapThenSumSet, MapThenFoldSet
<1>11. bikes_after'[s] = bikes_after[s] - (IF s = e.from THEN n ELSE 0)
                                         + (IF s = e.to THEN n ELSE 0)
  BY <1>1 DEF Transfer, n
<1> HIDE DEF o, i
<1>12. bikes_after'[s] = station[s].bikes - (IF e.from = s THEN o + n ELSE o)
                                           + (IF e.to = s THEN i + n ELSE i)
  BY <1>2, <1>3, <1>8, <1>9, <1>10, <1>11
<1> QED
  BY <1>3, <1>8, <1>9, <1>12

\* Station by station the list of moves is exactly what takes the snapshot to
\* the result: no bike appears or vanishes.
THEOREM MovesConserve == SolverSpec => []MovesExplainResult
<1>1. SolverInit => MovesExplainResult
  <2> SUFFICES ASSUME SolverInit, NEW s \in Stations
               PROVE  bikes_after[s] = station[s].bikes - MovedBy(Out(s)) + MovedBy(In(s))
    BY DEF MovesExplainResult
  <2>1. Out(s) = {} /\ In(s) = {}
    BY DEF SolverInit, Out, In
  <2>2. MovedBy({}) = 0
    BY MovedNone DEF MovedBy, Moved, MapThenSumSet, MapThenFoldSet
  <2>3. bikes_after[s] = station[s].bikes /\ station[s].bikes \in Int
    BY BandType DEF SolverInit
  <2> QED
    BY <2>1, <2>2, <2>3
<1>2. SolverTypeOK /\ MovesExplainResult /\ [SolverNext]_solverVars => MovesExplainResult'
  <2> SUFFICES ASSUME SolverTypeOK, MovesExplainResult, [SolverNext]_solverVars
               PROVE  MovesExplainResult'
    OBVIOUS
  <2>1. CASE MoveBikes
    BY <2>1, MoveExplains
  <2>2. ASSUME UNCHANGED <<problem, plan>> PROVE MovesExplainResult'
    <3> SUFFICES ASSUME NEW s \in Stations
                 PROVE  bikes_after'[s]
                          = station'[s].bikes - MovedBy(Out(s))' + MovedBy(In(s))'
      BY DEF MovesExplainResult
    <3>1. /\ station' = station /\ bikes_after' = bikes_after /\ moves' = moves
          /\ Out(s)' = Out(s) /\ In(s)' = In(s)
      BY <2>2 DEF Out, In, problem, plan
    <3>2. /\ MovedBy(Out(s))' = Moved(moves', Out(s)')
          /\ MovedBy(In(s))' = Moved(moves', In(s)')
          /\ MovedBy(Out(s)) = Moved(moves, Out(s))
          /\ MovedBy(In(s)) = Moved(moves, In(s))
      BY DEF MovedBy, Moved, MapThenSumSet, MapThenFoldSet
    <3> QED
      BY <3>1, <3>2 DEF MovesExplainResult
  <2> QED
    BY <2>1, <2>2 DEF SolverNext, Stop, solverVars
<1> QED
  BY <1>1, <1>2, SolverTypeCorrect, PTL DEF SolverSpec

------------------------------------------------------------------------------
(* Budgets: what the loop counts down is what the list of moves has used.  *)

BudgetInv ==
  /\ MovedBy(DOMAIN moves) + bikesBudgetRemaining = BikeBudget
  /\ Len(moves) + movesRemaining = MaxMoves
  /\ touched = EndsOf(DOMAIN moves)
  /\ Cardinality(touched) <= MaxStationsTouched

\* A round takes from each budget what its move uses.
LEMMA MoveSpends ==
  ASSUME SolverTypeOK, BudgetInv, MoveBikes PROVE BudgetInv'
<1>1. PICK e \in Selected :
        /\ bikesBudgetRemaining' = bikesBudgetRemaining - Amount(e)
        /\ movesRemaining' = movesRemaining - 1
        /\ touched' = touched \cup {e.from, e.to}
        /\ moves' = Append(moves, [edge |-> e, bikes_moved |-> Amount(e)])
  BY DEF MoveBikes
<1> DEFINE n == Amount(e)  k == Len(moves) + 1  I == DOMAIN moves
<1>2. n \in Int
  BY Candidate DEF MoveBikes
<1>3. /\ moves \in Seq(MoveRecord)
      /\ bikesBudgetRemaining \in Int /\ movesRemaining \in Int
      /\ BikeBudget \in Int /\ MaxMoves \in Int
  BY SolverAssumption DEF SolverTypeOK
<1>4. /\ k \notin I /\ DOMAIN moves' = I \cup {k}
      /\ \A i \in I : moves'[i] = moves[i] /\ moves[i].bikes_moved \in Int
      /\ moves'[k].edge = e /\ moves'[k].bikes_moved = n
      /\ Len(moves) \in Int /\ Len(moves') = Len(moves) + 1
  <2>1. \A i \in I : moves[i] \in MoveRecord
    BY <1>3
  <2> QED
    BY <1>1, <1>3, <2>1 DEF MoveRecord
<1>5. bikesBudgetRemaining' = bikesBudgetRemaining - n
  BY <1>1
<1>6. IsFiniteSet(I)
  BY <1>3, IndicesFinite
<1> HIDE DEF n, k, I
<1>7. MovedBy(DOMAIN moves)' + bikesBudgetRemaining' = BikeBudget
  <2>1. Continues(moves', moves, I, k)
    BY <1>2, <1>4, <1>6 DEF Continues
  <2>2. /\ Moved(moves, I) \in Int
        /\ Moved(moves', DOMAIN moves') = Moved(moves, I) + n
    <3>1. /\ Moved(moves, I) \in Int
          /\ Moved(moves', I \cup {k}) = Moved(moves, I) + moves'[k].bikes_moved
      BY <2>1, MovedAppend
    <3> QED
      BY <1>4, <3>1
  <2>3. /\ MovedBy(DOMAIN moves)' = Moved(moves', DOMAIN moves')
        /\ MovedBy(DOMAIN moves) = Moved(moves, I)
    BY DEF MovedBy, Moved, MapThenSumSet, MapThenFoldSet, I
  <2>4. Moved(moves, I) + bikesBudgetRemaining = BikeBudget
    BY <2>3 DEF BudgetInv
  <2> DEFINE a == Moved(moves, I)
  <2>5. a \in Int /\ a + bikesBudgetRemaining = BikeBudget
        /\ MovedBy(DOMAIN moves)' = a + n
    BY <2>2, <2>3, <2>4
  <2> HIDE DEF a
  <2> QED
    BY <1>2, <1>3, <1>5, <2>5
<1>8. Len(moves)' + movesRemaining' = MaxMoves
  BY <1>1, <1>3, <1>4 DEF BudgetInv
<1>9. touched' = EndsOf(DOMAIN moves)'
  <2>1. touched = UNION {{moves[i].edge.from, moves[i].edge.to} : i \in I}
    BY DEF BudgetInv, EndsOf, I
  <2>2. UNION {{moves'[i].edge.from, moves'[i].edge.to} : i \in I \cup {k}}
          = (UNION {{moves[i].edge.from, moves[i].edge.to} : i \in I})
              \cup {e.from, e.to}
    <3>1. /\ \A i \in I : moves'[i].edge = moves[i].edge
          /\ moves'[k].edge = e
      BY <1>4
    <3> QED
      BY <3>1
  <2>3. EndsOf(DOMAIN moves)'
          = UNION {{moves'[i].edge.from, moves'[i].edge.to} : i \in DOMAIN moves'}
    BY DEF EndsOf
  <2> QED
    BY <1>1, <1>4, <2>1, <2>2, <2>3
<1>10. Cardinality(touched') <= MaxStationsTouched
  BY <1>1 DEF Selected, WithinStations
<1> QED
  BY <1>7, <1>8, <1>9, <1>10 DEF BudgetInv

\* The list of moves stays within the bikes, the moves and the stations that a
\* plan may use.
THEOREM BudgetsHold == SolverSpec => []BudgetsKept
<1>1. SolverInit => BudgetInv
  <2> SUFFICES ASSUME SolverInit PROVE BudgetInv
    OBVIOUS
  <2>1. DOMAIN moves = {} /\ Len(moves) = 0 /\ touched = {}
    BY DEF SolverInit
  <2>2. MovedBy({}) = 0
    BY MovedNone DEF MovedBy, Moved, MapThenSumSet, MapThenFoldSet
  <2>3. EndsOf({}) = {}
    BY DEF EndsOf
  <2>4. Cardinality(touched) = 0
    BY <2>1, FS_EmptySet
  <2>5. BikeBudget \in Nat /\ MaxMoves \in Nat /\ MaxStationsTouched \in Nat
    BY SolverAssumption
  <2> QED
    BY <2>1, <2>2, <2>3, <2>4, <2>5 DEF SolverInit, BudgetInv
<1>2. SolverTypeOK /\ BudgetInv /\ [SolverNext]_solverVars => BudgetInv'
  <2> SUFFICES ASSUME SolverTypeOK, BudgetInv, [SolverNext]_solverVars
               PROVE  BudgetInv'
    OBVIOUS
  <2>1. CASE MoveBikes
    BY <2>1, MoveSpends
  <2>2. ASSUME UNCHANGED plan PROVE BudgetInv'
    <3>1. /\ MovedBy(DOMAIN moves)' = Moved(moves', DOMAIN moves')
          /\ MovedBy(DOMAIN moves) = Moved(moves, DOMAIN moves)
      BY DEF MovedBy, Moved, MapThenSumSet, MapThenFoldSet
    <3>2. /\ moves' = moves /\ touched' = touched /\ movesRemaining' = movesRemaining
          /\ bikesBudgetRemaining' = bikesBudgetRemaining
      BY <2>2 DEF plan
    <3>3. MovedBy(DOMAIN moves)' = MovedBy(DOMAIN moves)
      BY <3>1, <3>2
    <3>4. EndsOf(DOMAIN moves)' = EndsOf(DOMAIN moves)
      BY <3>2 DEF EndsOf
    <3> QED
      BY <3>2, <3>3, <3>4 DEF BudgetInv
  <2> QED
    BY <2>1, <2>2 DEF SolverNext, Stop, solverVars
<1>3. SolverTypeOK /\ BudgetInv => BudgetsKept
  <2> SUFFICES ASSUME SolverTypeOK, BudgetInv PROVE BudgetsKept
    OBVIOUS
  <2>1. /\ moves \in Seq(MoveRecord)
        /\ bikesBudgetRemaining \in Nat /\ movesRemaining \in Nat
    BY DEF SolverTypeOK
  <2>2. Len(moves) \in Nat
    BY <2>1
  <2>3. MovedBy(DOMAIN moves) \in Int
    <3>1. \A i \in DOMAIN moves : moves[i].bikes_moved \in Int
      <4>1. \A i \in DOMAIN moves : moves[i] \in MoveRecord
        BY <2>1
      <4> QED
        BY <4>1 DEF MoveRecord
    <3>2. IsFiniteSet(DOMAIN moves)
      BY <2>1, IndicesFinite
    <3> DEFINE w == [i \in DOMAIN moves |-> moves[i].bikes_moved]
    <3>3. Moved(moves, DOMAIN moves) = SumOf(w, DOMAIN moves)
      BY <3>2, MovedIsSum
    <3>4. \A i \in DOMAIN moves : w[i] \in Int
      BY <3>1
    <3> HIDE DEF w
    <3>5. SumOf(w, DOMAIN moves) \in Int
      BY <3>2, <3>4, SumTakesOut
    <3> QED
      BY <3>3, <3>5 DEF MovedBy, Moved, MapThenSumSet, MapThenFoldSet
  <2> DEFINE a == MovedBy(DOMAIN moves)
  <2>4. a \in Int /\ a + bikesBudgetRemaining = BikeBudget
    BY <2>3 DEF BudgetInv
  <2> HIDE DEF a
  <2>5. a <= BikeBudget /\ Len(moves) <= MaxMoves
    BY <2>1, <2>2, <2>4 DEF BudgetInv
  <2> QED
    BY <2>5 DEF a, BudgetInv, BudgetsKept
<1> QED
  BY <1>1, <1>2, <1>3, SolverTypeCorrect, PTL DEF SolverSpec

------------------------------------------------------------------------------
(* The worker's plan: the lists of its fallbacks.                          *)

\* What the snapshot says of a station.
LEMMA StationTyped ==
  ASSUME station \in Inputs, NEW s \in Stations
  PROVE  /\ s \in Nat
         /\ station[s].bikes \in Nat /\ station[s].docks \in Nat
         /\ station[s].capacity \in Nat /\ station[s].capacity > 0
         /\ Excess(s) \in Nat /\ Need(s) \in Nat
<1>1. station[s] \in Station /\ s \in Nat
  BY SolverAssumption
<1>2. /\ station[s].bikes \in Nat /\ station[s].docks \in Nat
      /\ station[s].capacity \in Nat /\ station[s].capacity > 0
  BY <1>1 DEF Station
<1> DEFINE c == station[s].capacity  b == station[s].bikes
<1>3. (49 * c + 99) \div 100 \in Int /\ (51 * c) \div 100 \in Int
  <2> HIDE DEF c
  <2>1. c \in Nat
    BY <1>2 DEF c
  <2> QED
    BY <2>1
<1>4. Excess(s) \in Nat /\ Need(s) \in Nat
  BY <1>2, <1>3 DEF Excess, Need, Positive
<1> QED
  BY <1>1, <1>2, <1>4

\* No station both gives and takes at 49 and 51 percent.
LEMMA ExcessOrNeed ==
  ASSUME station \in Inputs, NEW s \in Stations
  PROVE  Excess(s) = 0 \/ Need(s) = 0
<1> DEFINE c == station[s].capacity  b == station[s].bikes
           l == (49 * c + 99) \div 100  u == (51 * c) \div 100
<1>1. c \in Nat /\ c > 0 /\ b \in Nat
  BY StationTyped
<1>2. Excess(s) = Positive(b - u) /\ Need(s) = Positive(l - b)
  BY DEF Excess, Need
<1> HIDE DEF b, c
<1>3. l \in Int /\ u \in Int
  BY <1>1
<1>4. l - u <= 1
  BY <1>1
<1> HIDE DEF l, u
<1>5. ~ (b - u > 0 /\ l - b > 0)
  BY <1>1, <1>3, <1>4
<1> QED
  BY <1>1, <1>2, <1>3, <1>5 DEF Positive

\* The larger of two ratios, through a third.
LEMMA RatioTransitive ==
  ASSUME NEW a \in Nat, NEW b \in Nat, NEW c \in Nat,
         NEW x \in Nat \ {0}, NEW y \in Nat \ {0}, NEW z \in Nat \ {0},
         a * y >= b * x, b * z >= c * y
  PROVE  /\ a * z >= c * x
         /\ a * z = c * x => a * y = b * x /\ b * z = c * y
<1>1. (a * y) * z >= (b * x) * z /\ (b * z) * x >= (c * y) * x
  BY Z3
<1>2. (b * x) * z = (b * z) * x /\ (a * y) * z = y * (a * z) /\ (c * y) * x = y * (c * x)
  BY Z3
<1>3. y * (a * z) >= y * (c * x)
  BY <1>1, <1>2, Z3
<1>4. a * z \in Nat /\ c * x \in Nat
  BY Z3
<1>5. a * z >= c * x
  BY <1>3, <1>4, Z3
<1>6. ASSUME a * z = c * x PROVE (a * y) * z = (b * x) * z /\ (b * z) * x = (c * y) * x
  BY <1>1, <1>2, <1>6, Z3
<1>7. ASSUME a * z = c * x PROVE a * y = b * x /\ b * z = c * y
  BY <1>6, <1>7, Z3
<1> QED
  BY <1>5, <1>7

\* Four orders are strict and total: the fullest first, the emptiest first ...
LEMMA FullerOrders ==
  ASSUME station \in Inputs, NEW S, S \subseteq Stations
  PROVE  /\ Orders({p \in S \X S : Fuller(p[1], p[2])}, S)
         /\ Orders({p \in S \X S : Emptier(p[1], p[2])}, S)
<1> DEFINE b(x) == station[x].bikes  c(x) == station[x].capacity
<1>1. \A x \in S : x \in Nat /\ b(x) \in Nat /\ c(x) \in Nat \ {0}
  BY StationTyped
<1>2. \A x, y \in S : Fuller(x, y) <=> \/ b(x) * c(y) > b(y) * c(x)
                                       \/ b(x) * c(y) = b(y) * c(x) /\ x < y
  BY DEF Fuller
<1> HIDE DEF b, c
<1>3. \A x, y \in S : b(x) * c(y) \in Nat
  BY <1>1
<1>4. \A x \in S : ~ Fuller(x, x)
  BY <1>1, <1>2, <1>3
<1>5. \A x, y \in S : x = y \/ Fuller(x, y) \/ Fuller(y, x)
  BY <1>1, <1>2, <1>3
<1>6. ASSUME NEW x \in S, NEW y \in S, NEW z \in S, Fuller(x, y), Fuller(y, z)
      PROVE  Fuller(x, z)
  <2>1. b(x) * c(y) >= b(y) * c(x) /\ b(y) * c(z) >= b(z) * c(y)
    BY <1>2, <1>3, <1>6
  <2>2. /\ b(x) * c(z) >= b(z) * c(x)
        /\ b(x) * c(z) = b(z) * c(x) => /\ b(x) * c(y) = b(y) * c(x)
                                        /\ b(y) * c(z) = b(z) * c(y)
    BY <1>1, <2>1, RatioTransitive
  <2>3. b(x) * c(z) = b(z) * c(x) => x < z
    <3>1. ASSUME b(x) * c(z) = b(z) * c(x) PROVE x < z
      <4>1. x < y /\ y < z
        BY <1>2, <1>3, <1>6, <2>2, <3>1
      <4> QED
        BY <1>1, <4>1
    <3> QED
      BY <3>1
  <2>4. b(x) * c(z) > b(z) * c(x) \/ b(x) * c(z) = b(z) * c(x)
    BY <1>3, <2>2
  <2> QED
    BY <1>2, <2>3, <2>4
<1>7. /\ \A x \in S : ~ Emptier(x, x)
      /\ \A x, y \in S : x = y \/ Emptier(x, y) \/ Emptier(y, x)
      /\ \A x, y, z \in S : Emptier(x, y) /\ Emptier(y, z) => Emptier(x, z)
  BY <1>4, <1>5, <1>6 DEF Emptier
<1>8. /\ \A x \in S : ~ Fuller(x, x)
      /\ \A x, y \in S : x = y \/ Fuller(x, y) \/ Fuller(y, x)
      /\ \A x, y, z \in S : Fuller(x, y) /\ Fuller(y, z) => Fuller(x, z)
  BY <1>4, <1>5, <1>6
<1>9. Orders({p \in S \X S : Fuller(p[1], p[2])}, S)
  BY <1>8 DEF Orders
<1>10. Orders({p \in S \X S : Emptier(p[1], p[2])}, S)
  BY <1>7 DEF Orders
<1> QED
  BY <1>9, <1>10

\* ... the most to give first, the most to take first.
LEMMA MoreOrders ==
  ASSUME station \in Inputs, NEW S, S \subseteq Stations
  PROVE  /\ Orders({p \in S \X S : MoreExcess(p[1], p[2])}, S)
         /\ Orders({p \in S \X S : MoreNeed(p[1], p[2])}, S)
<1>1. \A x \in S : x \in Nat /\ Excess(x) \in Nat /\ Need(x) \in Nat
  BY StationTyped
<1>2. /\ \A x \in S : ~ MoreExcess(x, x)
      /\ \A x, y \in S : x = y \/ MoreExcess(x, y) \/ MoreExcess(y, x)
      /\ \A x, y, z \in S : MoreExcess(x, y) /\ MoreExcess(y, z) => MoreExcess(x, z)
  BY <1>1 DEF MoreExcess
<1>3. /\ \A x \in S : ~ MoreNeed(x, x)
      /\ \A x, y \in S : x = y \/ MoreNeed(x, y) \/ MoreNeed(y, x)
      /\ \A x, y, z \in S : MoreNeed(x, y) /\ MoreNeed(y, z) => MoreNeed(x, z)
  BY <1>1 DEF MoreNeed
<1>4. Orders({p \in S \X S : MoreExcess(p[1], p[2])}, S)
  BY <1>2 DEF Orders
<1>5. Orders({p \in S \X S : MoreNeed(p[1], p[2])}, S)
  BY <1>3 DEF Orders
<1> QED
  BY <1>4, <1>5

\* A list has exactly the elements of a set.
Lists(q, S) == /\ q \in Seq(S)
               /\ \A x \in S : \E i \in 1..Len(q) : q[i] = x

\* So the four lists have the stations they are to have.
LEMMA FullerListed ==
  ASSUME station \in Inputs, NEW S, S \subseteq Stations
  PROVE  Lists(InOrder(S, Fuller), S) /\ Lists(InOrder(S, Emptier), S)
<1>0. IsFiniteSet(S)
  BY FS_Subset, SolverAssumption
<1>1. Lists(InOrder(S, Fuller), S)
  <2> DEFINE R == {p \in S \X S : Fuller(p[1], p[2])}
             q == InOrder(S, Fuller)
             A(i) == CHOOSE x \in S : Cardinality({y \in S : Fuller(y, x)}) = i - 1
  <2>1. \A x \in S : Rank(R, S, x) = Cardinality({y \in S : Fuller(y, x)})
    <3>1. \A x \in S : {y \in S : <<y, x>> \in R} = {y \in S : Fuller(y, x)}
      OBVIOUS
    <3> QED
      BY <3>1 DEF Rank
  <2>2. q = [i \in 1..Cardinality(S) |-> A(i)]
    BY DEF InOrder
  <2>3. \A i \in 1..Cardinality(S) :
          (\E x \in S : Rank(R, S, x) = i - 1) => A(i) \in S /\ Rank(R, S, A(i)) = i - 1
    <3> HIDE DEF R
    <3> QED
      BY <2>1
  <2> HIDE DEF R, q, A
  <2>4. Listed(R, S, q)
    BY <2>2, <2>3 DEF Listed
  <2>5. Orders(R, S)
    BY FullerOrders DEF R
  <2> QED
    BY <1>0, <2>4, <2>5, ListedInOrder DEF Lists, q
<1>2. Lists(InOrder(S, Emptier), S)
  <2> DEFINE R == {p \in S \X S : Emptier(p[1], p[2])}
             q == InOrder(S, Emptier)
             A(i) == CHOOSE x \in S : Cardinality({y \in S : Emptier(y, x)}) = i - 1
  <2>1. \A x \in S : Rank(R, S, x) = Cardinality({y \in S : Emptier(y, x)})
    <3>1. \A x \in S : {y \in S : <<y, x>> \in R} = {y \in S : Emptier(y, x)}
      OBVIOUS
    <3> QED
      BY <3>1 DEF Rank
  <2>2. q = [i \in 1..Cardinality(S) |-> A(i)]
    BY DEF InOrder
  <2>3. \A i \in 1..Cardinality(S) :
          (\E x \in S : Rank(R, S, x) = i - 1) => A(i) \in S /\ Rank(R, S, A(i)) = i - 1
    <3> HIDE DEF R
    <3> QED
      BY <2>1
  <2> HIDE DEF R, q, A
  <2>4. Listed(R, S, q)
    BY <2>2, <2>3 DEF Listed
  <2>5. Orders(R, S)
    BY FullerOrders DEF R
  <2> QED
    BY <1>0, <2>4, <2>5, ListedInOrder DEF Lists, q
<1> QED
  BY <1>1, <1>2

LEMMA MoreListed ==
  ASSUME station \in Inputs, NEW S, S \subseteq Stations
  PROVE  Lists(InOrder(S, MoreExcess), S) /\ Lists(InOrder(S, MoreNeed), S)
<1>0. IsFiniteSet(S)
  BY FS_Subset, SolverAssumption
<1>1. Lists(InOrder(S, MoreExcess), S)
  <2> DEFINE R == {p \in S \X S : MoreExcess(p[1], p[2])}
             q == InOrder(S, MoreExcess)
             A(i) == CHOOSE x \in S : Cardinality({y \in S : MoreExcess(y, x)}) = i - 1
  <2>1. \A x \in S : Rank(R, S, x) = Cardinality({y \in S : MoreExcess(y, x)})
    <3>1. \A x \in S : {y \in S : <<y, x>> \in R} = {y \in S : MoreExcess(y, x)}
      OBVIOUS
    <3> QED
      BY <3>1 DEF Rank
  <2>2. q = [i \in 1..Cardinality(S) |-> A(i)]
    BY DEF InOrder
  <2>3. \A i \in 1..Cardinality(S) :
          (\E x \in S : Rank(R, S, x) = i - 1) => A(i) \in S /\ Rank(R, S, A(i)) = i - 1
    <3> HIDE DEF R
    <3> QED
      BY <2>1
  <2> HIDE DEF R, q, A
  <2>4. Listed(R, S, q)
    BY <2>2, <2>3 DEF Listed
  <2>5. Orders(R, S)
    BY MoreOrders DEF R
  <2> QED
    BY <1>0, <2>4, <2>5, ListedInOrder DEF Lists, q
<1>2. Lists(InOrder(S, MoreNeed), S)
  <2> DEFINE R == {p \in S \X S : MoreNeed(p[1], p[2])}
             q == InOrder(S, MoreNeed)
             A(i) == CHOOSE x \in S : Cardinality({y \in S : MoreNeed(y, x)}) = i - 1
  <2>1. \A x \in S : Rank(R, S, x) = Cardinality({y \in S : MoreNeed(y, x)})
    <3>1. \A x \in S : {y \in S : <<y, x>> \in R} = {y \in S : MoreNeed(y, x)}
      OBVIOUS
    <3> QED
      BY <3>1 DEF Rank
  <2>2. q = [i \in 1..Cardinality(S) |-> A(i)]
    BY DEF InOrder
  <2>3. \A i \in 1..Cardinality(S) :
          (\E x \in S : Rank(R, S, x) = i - 1) => A(i) \in S /\ Rank(R, S, A(i)) = i - 1
    <3> HIDE DEF R
    <3> QED
      BY <2>1
  <2> HIDE DEF R, q, A
  <2>4. Listed(R, S, q)
    BY <2>2, <2>3 DEF Listed
  <2>5. Orders(R, S)
    BY MoreOrders DEF R
  <2> QED
    BY <1>0, <2>4, <2>5, ListedInOrder DEF Lists, q
<1> QED
  BY <1>1, <1>2

------------------------------------------------------------------------------
(* The worker's plan: what its moves take and bring.                       *)

ShipRecord == [from : Stations, to : Stations, bikes_moved : Int]

\* The moves made are accounted for: what a station has given and still gives
\* is g, what it has taken and still takes is t.
Ledger(g, t) ==
  /\ give \in [Stations -> Nat] /\ take \in [Stations -> Nat]
  /\ \A s \in Stations : /\ g[s] = ShippedFrom(s) + give[s]
                         /\ t[s] = ShippedTo(s) + take[s]

OutTyped == /\ out \in Seq(ShipRecord)
            /\ \A i \in DOMAIN out : out[i].from # out[i].to

\* The lists of a fallback, and where it stands in them.
ListsTyped == /\ donors \in Seq(Stations) /\ receivers \in Seq(Stations)
              /\ donorIdx \in Nat \ {0} /\ receiverIdx \in Nat \ {0}
              /\ budgetLeft \in Nat

\* In the unconstrained fallback donors are above their band and receivers
\* below, none is left out, and an end without a move is an end at the start.
UnconstrainedOK ==
  /\ Lists(donors, {s \in Stations : Counted(s) /\ Excess(s) > 0})
  /\ Lists(receivers, {s \in Stations : Counted(s) /\ Need(s) > 0})
  /\ out = <<>> => donorIdx = 1 /\ receiverIdx = 1 /\ budgetLeft > 0
  /\ done = "yes" => ~ Goable(UnconstrainedMoves)

Stock == [s \in Stations |-> station[s].bikes]
Docks == [s \in Stations |-> station[s].docks]
Excesses == [s \in Stations |-> Excess(s)]
Needs == [s \in Stations |-> Need(s)]

PlanInv ==
  /\ station \in Inputs
  /\ phase \in {"strategy", "relaxed", "preview", "unconstrained"}
  /\ OutTyped
  /\ phase \in {"strategy", "relaxed"} => out = <<>>
  /\ phase = "preview" => ListsTyped /\ Ledger(Stock, Docks)
  /\ phase = "unconstrained" =>
       ListsTyped /\ Ledger(Excesses, Needs) /\ UnconstrainedOK

\* What has left a station and what has reached it, as sums of a list.
LEMMA ShippedIs ==
  \A s : /\ ShippedFrom(s) = Moved(out, {i \in DOMAIN out : out[i].from = s})
         /\ ShippedTo(s) = Moved(out, {i \in DOMAIN out : out[i].to = s})
BY DEF ShippedFrom, ShippedTo, Shipped, Moved, MapThenSumSet, MapThenFoldSet

LEMMA ShippedNext ==
  \A s : /\ ShippedFrom(s)' = Moved(out', {i \in DOMAIN out' : out'[i].from = s})
         /\ ShippedTo(s)' = Moved(out', {i \in DOMAIN out' : out'[i].to = s})
BY DEF ShippedFrom, ShippedTo, Shipped, Moved, MapThenSumSet, MapThenFoldSet

\* What is shipped is a number.
LEMMA ShippedTyped ==
  ASSUME OutTyped
  PROVE  \A s : ShippedFrom(s) \in Int /\ ShippedTo(s) \in Int
<1>1. \A i \in DOMAIN out : out[i] \in ShipRecord
  BY DEF OutTyped
<1>2. ASSUME NEW I, I \subseteq DOMAIN out
      PROVE  Moved(out, I) \in Int
  <2> DEFINE w == [i \in I |-> out[i].bikes_moved]
  <2>1. IsFiniteSet(I)
    BY <1>2, IndicesFinite DEF OutTyped
  <2>2. \A i \in I : w[i] \in Int
    BY <1>1, <1>2 DEF ShipRecord
  <2>3. Moved(out, I) = SumOf(w, I)
    BY <2>1, MovedIsSum
  <2> HIDE DEF w
  <2>4. SumOf(w, I) \in Int
    BY <2>1, <2>2, SumTakesOut
  <2> QED
    BY <2>3, <2>4
<1> TAKE s
<1>3. Moved(out, {i \in DOMAIN out : out[i].from = s}) \in Int
  BY <1>2
<1>4. Moved(out, {i \in DOMAIN out : out[i].to = s}) \in Int
  BY <1>2
<1> QED
  BY <1>3, <1>4, ShippedIs

\* The tables say the same when they are left alone.
LEMMA ShippedSame ==
  ASSUME UNCHANGED out
  PROVE  \A s : ShippedFrom(s)' = ShippedFrom(s) /\ ShippedTo(s)' = ShippedTo(s)
BY ShippedIs, ShippedNext

\* Nothing has been shipped at the start of a fallback.
LEMMA NothingShipped ==
  ASSUME out = <<>>
  PROVE  \A s : ShippedFrom(s) = 0 /\ ShippedTo(s) = 0
<1> TAKE s
<1>1. /\ {i \in DOMAIN out : out[i].from = s} = {}
      /\ {i \in DOMAIN out : out[i].to = s} = {}
  OBVIOUS
<1> QED
  BY <1>1, ShippedIs, MovedNone

\* A move of n bikes is taken from one account and put to another.
LEMMA ShipKeeps ==
  ASSUME NEW g, NEW t, Ledger(g, t), OutTyped, ListsTyped,
         NEW n \in Nat, Ship(n), from \in Stations, to \in Stations, from # to,
         n <= give[from], n <= take[to], n <= budgetLeft
  PROVE  /\ OutTyped' /\ out' # <<>> /\ budgetLeft' \in Nat
         /\ give' \in [Stations -> Nat] /\ take' \in [Stations -> Nat]
         /\ \A s \in Stations : /\ g[s] = ShippedFrom(s)' + give'[s]
                                /\ t[s] = ShippedTo(s)' + take'[s]
<1> DEFINE k == Len(out) + 1  a == from  b == to
<1>1. out \in Seq(ShipRecord) /\ [from |-> a, to |-> b, bikes_moved |-> n] \in ShipRecord
  BY DEF OutTyped, ShipRecord
<1>2. out' = Append(out, [from |-> a, to |-> b, bikes_moved |-> n])
  BY DEF Ship
<1>3. /\ k \notin DOMAIN out /\ DOMAIN out' = DOMAIN out \cup {k}
      /\ \A i \in DOMAIN out : /\ out'[i] = out[i]
                               /\ out[i].bikes_moved \in Int
      /\ out'[k].from = a /\ out'[k].to = b /\ out'[k].bikes_moved = n
  <2>1. \A i \in DOMAIN out : out[i] \in ShipRecord
    BY <1>1
  <2> QED
    BY <1>1, <1>2, <2>1 DEF ShipRecord
<1>4. out' \in Seq(ShipRecord) /\ out' # <<>>
  BY <1>1, <1>2
<1>5. /\ a \in Stations /\ b \in Stations /\ a # b
      /\ give' = [give EXCEPT ![a] = @ - n] /\ take' = [take EXCEPT ![b] = @ - n]
      /\ n <= give[a] /\ n <= take[b]
  BY DEF Ship
<1>6. budgetLeft' \in Nat
  BY DEF Ship, ListsTyped
<1> HIDE DEF a, b, k
<1>7. OutTyped'
  BY <1>3, <1>4, <1>5 DEF OutTyped
<1>8. give' \in [Stations -> Nat] /\ take' \in [Stations -> Nat]
  BY <1>5 DEF Ledger
<1>9. ASSUME NEW s \in Stations
      PROVE  /\ g[s] = ShippedFrom(s)' + give'[s]
             /\ t[s] = ShippedTo(s)' + take'[s]
  <2> DEFINE F == {i \in DOMAIN out : out[i].from = s}
             T == {i \in DOMAIN out : out[i].to = s}
             G == {i \in DOMAIN out' : out'[i].from = s}
             V == {i \in DOMAIN out' : out'[i].to = s}
  <2>1. /\ G = IF a = s THEN F \cup {k} ELSE F
        /\ V = IF b = s THEN T \cup {k} ELSE T
    BY <1>3
  <2>2. /\ IsFiniteSet(F) /\ IsFiniteSet(T)
        /\ F \subseteq DOMAIN out /\ T \subseteq DOMAIN out
    BY <1>1, IndicesFinite
  <2>3. /\ ShippedFrom(s) = Moved(out, F) /\ ShippedTo(s) = Moved(out, T)
        /\ ShippedFrom(s)' = Moved(out', G) /\ ShippedTo(s)' = Moved(out', V)
    BY ShippedIs, ShippedNext
  <2> HIDE DEF F, T, G, V
  <2>4. Continues(out', out, F, k) /\ Continues(out', out, T, k)
    BY <1>3, <2>2 DEF Continues
  <2>5. /\ Moved(out, F) \in Int /\ Moved(out', F) = Moved(out, F)
        /\ Moved(out', F \cup {k}) = Moved(out, F) + out'[k].bikes_moved
    BY <2>4, MovedAppend
  <2>6. /\ Moved(out, T) \in Int /\ Moved(out', T) = Moved(out, T)
        /\ Moved(out', T \cup {k}) = Moved(out, T) + out'[k].bikes_moved
    BY <2>4, MovedAppend
  <2>7. g[s] = ShippedFrom(s) + give[s] /\ t[s] = ShippedTo(s) + take[s]
    BY DEF Ledger
  <2>8. /\ give[s] \in Nat /\ take[s] \in Nat
        /\ give'[s] = IF a = s THEN give[s] - n ELSE give[s]
        /\ take'[s] = IF b = s THEN take[s] - n ELSE take[s]
    BY <1>5 DEF Ledger
  <2>9. g[s] = ShippedFrom(s)' + give'[s]
    BY <1>3, <2>1, <2>3, <2>5, <2>7, <2>8
  <2>10. t[s] = ShippedTo(s)' + take'[s]
    BY <1>3, <2>1, <2>3, <2>6, <2>7, <2>8
  <2> QED
    BY <2>9, <2>10
<1> QED
  BY <1>4, <1>6, <1>7, <1>8, <1>9

\* What is left alone leaves its parts of the invariant alone.
LEMMA BandsSame ==
  ASSUME UNCHANGED station
  PROVE  /\ \A s : Excess(s)' = Excess(s) /\ Need(s)' = Need(s)
                   /\ (Counted(s)' <=> Counted(s))
         /\ Stock' = Stock /\ Docks' = Docks
         /\ Excesses' = Excesses /\ Needs' = Needs
<1>1. \A s : Excess(s)' = Excess(s) /\ Need(s)' = Need(s)
             /\ (Counted(s)' <=> Counted(s))
  BY DEF Excess, Need, Counted, Positive
<1>2. Stock' = Stock /\ Docks' = Docks
  BY DEF Stock, Docks
<1>3. Excesses' = Excesses /\ Needs' = Needs
  BY <1>1 DEF Excesses, Needs
<1> QED
  BY <1>1, <1>2, <1>3

LEMMA OutSame ==
  ASSUME UNCHANGED out, OutTyped
  PROVE  OutTyped'
BY DEF OutTyped

LEMMA LedgerSame ==
  ASSUME UNCHANGED <<out, give, take>>, NEW g, NEW t, Ledger(g, t)
  PROVE  /\ give' \in [Stations -> Nat] /\ take' \in [Stations -> Nat]
         /\ \A s \in Stations : /\ g[s] = ShippedFrom(s)' + give'[s]
                                /\ t[s] = ShippedTo(s)' + take'[s]
BY ShippedSame DEF Ledger

\* A ledger of the next state is one of the tables of the next state.
LEMMA LedgerNext ==
  ASSUME NEW g, NEW t,
         give' \in [Stations -> Nat], take' \in [Stations -> Nat],
         \A s \in Stations : /\ g[s] = ShippedFrom(s)' + give'[s]
                             /\ t[s] = ShippedTo(s)' + take'[s],
         UNCHANGED station, g = Stock /\ t = Docks
  PROVE  Ledger(Stock, Docks)'
<1>1. Stock' = g /\ Docks' = t
  BY BandsSame
<1> QED
  BY <1>1 DEF Ledger

LEMMA BandLedgerNext ==
  ASSUME NEW g, NEW t,
         give' \in [Stations -> Nat], take' \in [Stations -> Nat],
         \A s \in Stations : /\ g[s] = ShippedFrom(s)' + give'[s]
                             /\ t[s] = ShippedTo(s)' + take'[s],
         UNCHANGED station, g = Excesses /\ t = Needs
  PROVE  Ledger(Excesses, Needs)'
<1>1. Excesses' = g /\ Needs' = t
  BY BandsSame
<1> QED
  BY <1>1 DEF Ledger

LEMMA PlanInvInit == PlanInit => PlanInv
<1> SUFFICES ASSUME PlanInit PROVE PlanInv
  OBVIOUS
<1>1. station \in Inputs /\ phase = "strategy" /\ out = <<>>
  BY DEF PlanInit, Strategy!SolverInit
<1> QED
  BY <1>1 DEF PlanInv, OutTyped

\* The strategies read the snapshot and make no fallback moves.
LEMMA SolveKeeps == PlanInv /\ Solve => PlanInv'
<1> SUFFICES ASSUME PlanInv, Solve PROVE PlanInv'
  OBVIOUS
<1>1. station' = station
  <2>1. CASE Strategy!SolverNext
    BY <2>1 DEF Strategy!SolverNext, Strategy!MoveBikes, Strategy!Stop, Strategy!problem
  <2>2. CASE Relaxed!SolverNext
    BY <2>2 DEF Relaxed!SolverNext, Relaxed!MoveBikes, Relaxed!Stop, Relaxed!problem
  <2> QED
    BY <2>1, <2>2 DEF Solve
<1>2. phase' = phase /\ out' = out /\ phase \in {"strategy", "relaxed"}
  BY DEF Solve, fallbackVars
<1>3. OutTyped'
  BY <1>2, OutSame DEF PlanInv
<1> QED
  BY <1>1, <1>2, <1>3 DEF PlanInv

LEMMA RelaxKeeps == PlanInv /\ Relax => PlanInv'
<1> SUFFICES ASSUME PlanInv, Relax PROVE PlanInv'
  OBVIOUS
<1>1. station' = station /\ phase' = "relaxed" /\ out' = out /\ out = <<>>
  BY DEF Relax, problem, fallbackVars, Fruitless
<1>2. OutTyped'
  BY <1>1, OutSame DEF PlanInv
<1> QED
  BY <1>1, <1>2 DEF PlanInv

\* A fallback begins with an empty list of moves and with tables that say
\* what there is.
LEMMA StartPreviewKeeps == PlanInv /\ StartPreview => PlanInv'
<1> SUFFICES ASSUME PlanInv, StartPreview PROVE PlanInv'
  OBVIOUS
<1>1. /\ station' = station /\ phase' = "preview" /\ out' = out /\ out = <<>>
      /\ donorIdx' = 1 /\ receiverIdx' = 1 /\ give' = Stock /\ take' = Docks
      /\ budgetLeft' = AtLeast(BikeBudget, 48)
      /\ donors' = InOrder({s \in Stations : station[s].bikes > 0}, Fuller)
      /\ receivers' = InOrder({s \in Stations : station[s].docks > 0}, Emptier)
  BY DEF StartPreview, Start, problem, Fruitless, Stock, Docks
<1>2. station \in Inputs
  BY DEF PlanInv
<1>3. OutTyped'
  BY <1>1, OutSame DEF PlanInv
<1>4. donors' \in Seq(Stations) /\ receivers' \in Seq(Stations)
  <2> DEFINE D == {s \in Stations : station[s].bikes > 0}
             E == {s \in Stations : station[s].docks > 0}
  <2>1. D \subseteq Stations /\ E \subseteq Stations
    OBVIOUS
  <2>2. donors' = InOrder(D, Fuller) /\ receivers' = InOrder(E, Emptier)
    BY <1>1
  <2> HIDE DEF D, E
  <2>3. Lists(InOrder(D, Fuller), D)
    BY <1>2, <2>1, FullerListed
  <2>4. Lists(InOrder(E, Emptier), E)
    BY <1>2, <2>1, FullerListed
  <2>5. donors' \in Seq(D) /\ receivers' \in Seq(E)
    BY <2>2, <2>3, <2>4 DEF Lists
  <2> QED
    BY <2>1, <2>5
<1>5. ListsTyped'
  BY <1>1, <1>4, SolverAssumption DEF ListsTyped, AtLeast
<1>6. Ledger(Stock, Docks)'
  <2>1. Stock \in [Stations -> Nat] /\ Docks \in [Stations -> Nat]
    BY <1>2, StationTyped DEF Stock, Docks
  <2>2. \A s \in Stations : ShippedFrom(s)' = 0 /\ ShippedTo(s)' = 0
    BY <1>1, NothingShipped, ShippedSame
  <2>3. \A s \in Stations : /\ Stock[s] = ShippedFrom(s)' + give'[s]
                            /\ Docks[s] = ShippedTo(s)' + take'[s]
    BY <1>1, <2>1, <2>2
  <2> QED
    BY <1>1, <2>1, <2>3, LedgerNext
<1> QED
  BY <1>1, <1>2, <1>3, <1>5, <1>6 DEF PlanInv

\* A round of the forced preview ships no more than both sides have left.
LEMMA PreviewRoundKeeps == PlanInv /\ PreviewRound => PlanInv'
<1> SUFFICES ASSUME PlanInv, PreviewRound PROVE PlanInv'
  OBVIOUS
<1>1. /\ station' = station /\ phase = "preview" /\ phase' = "preview"
      /\ donors' = donors /\ receivers' = receivers
      /\ donorIdx' = Wrap(donorIdx, Len(donors))
      /\ receiverIdx' = Wrap(receiverIdx, Len(receivers))
      /\ Goable(PreviewMoves) /\ from # to
  BY DEF PreviewRound, problem
<1>2. station \in Inputs /\ OutTyped /\ ListsTyped /\ Ledger(Stock, Docks)
  BY <1>1 DEF PlanInv
<1>3. from \in Stations /\ to \in Stations
  BY <1>1, <1>2 DEF Goable, ListsTyped, from, to
<1>4. /\ OutTyped' /\ budgetLeft' \in Nat
      /\ give' \in [Stations -> Nat] /\ take' \in [Stations -> Nat]
      /\ \A s \in Stations : /\ Stock[s] = ShippedFrom(s)' + give'[s]
                             /\ Docks[s] = ShippedTo(s)' + take'[s]
  <2>1. CASE Ship(PreviewAmount)
    <3>1. give[from] \in Nat /\ take[to] \in Nat /\ budgetLeft \in Nat
      BY <1>2, <1>3 DEF Ledger, ListsTyped
    <3>2. /\ PreviewAmount \in Nat /\ PreviewAmount <= give[from]
          /\ PreviewAmount <= take[to] /\ PreviewAmount <= budgetLeft
      BY <3>1 DEF PreviewAmount, Least
    <3> QED
      BY <1>1, <1>2, <1>3, <2>1, <3>2, ShipKeeps
  <2>2. CASE UNCHANGED <<give, take, budgetLeft, out>>
    <3>1. OutTyped' /\ budgetLeft' \in Nat
      BY <1>2, <2>2, OutSame DEF ListsTyped
    <3> QED
      BY <1>2, <2>2, <3>1, LedgerSame
  <2> QED
    BY <2>1, <2>2 DEF PreviewRound
<1>5. ListsTyped'
  <2>1. Len(donors) \in Nat \ {0} /\ Len(receivers) \in Nat \ {0}
    BY <1>1, <1>2 DEF Goable, ListsTyped
  <2>2. donorIdx' \in Nat \ {0} /\ receiverIdx' \in Nat \ {0}
    BY <1>1, <1>2, <2>1 DEF Wrap, ListsTyped
  <2> QED
    BY <1>1, <1>2, <1>4, <2>2 DEF ListsTyped
<1>6. Ledger(Stock, Docks)'
  BY <1>1, <1>4, LedgerNext
<1> QED
  BY <1>1, <1>2, <1>4, <1>5, <1>6 DEF PlanInv

LEMMA PreviewSkipKeeps == PlanInv /\ PreviewSkip => PlanInv'
<1> SUFFICES ASSUME PlanInv, PreviewSkip PROVE PlanInv'
  OBVIOUS
<1>1. /\ station' = station /\ phase = "preview" /\ phase' = "preview"
      /\ donors' = donors /\ receivers' = receivers /\ donorIdx' = donorIdx
      /\ receiverIdx' = receiverIdx + 1
      /\ UNCHANGED <<give, take, budgetLeft, out>>
  BY DEF PreviewSkip, solverVars, problem
<1>2. station \in Inputs /\ OutTyped /\ ListsTyped /\ Ledger(Stock, Docks)
  BY <1>1 DEF PlanInv
<1>3. OutTyped' /\ ListsTyped'
  BY <1>1, <1>2, OutSame DEF ListsTyped
<1>4. Ledger(Stock, Docks)'
  BY <1>1, <1>2, LedgerSame, LedgerNext
<1> QED
  BY <1>1, <1>2, <1>3, <1>4 DEF PlanInv

LEMMA PreviewEndKeeps == PlanInv /\ PreviewEnd => PlanInv'
<1> SUFFICES ASSUME PlanInv, PreviewEnd PROVE PlanInv'
  OBVIOUS
<1>1. /\ station' = station /\ phase = "preview" /\ phase' = "preview"
      /\ UNCHANGED <<donors, receivers, donorIdx, receiverIdx,
                     give, take, budgetLeft, out>>
  BY DEF PreviewEnd, EndLoop, problem, fallbackVars
<1>2. station \in Inputs /\ OutTyped /\ ListsTyped /\ Ledger(Stock, Docks)
  BY <1>1 DEF PlanInv
<1>3. OutTyped' /\ ListsTyped'
  BY <1>1, <1>2, OutSame DEF ListsTyped
<1>4. Ledger(Stock, Docks)'
  BY <1>1, <1>2, LedgerSame, LedgerNext
<1> QED
  BY <1>1, <1>2, <1>3, <1>4 DEF PlanInv

LEMMA StartUnconstrainedKeeps == PlanInv /\ StartUnconstrained => PlanInv'
<1> SUFFICES ASSUME PlanInv, StartUnconstrained PROVE PlanInv'
  OBVIOUS
<1> DEFINE D == {s \in Stations : Counted(s) /\ Excess(s) > 0}
           E == {s \in Stations : Counted(s) /\ Need(s) > 0}
<1>1. /\ station' = station /\ phase' = "unconstrained"
      /\ out' = out /\ out = <<>> /\ done' = "no"
      /\ donorIdx' = 1 /\ receiverIdx' = 1
      /\ give' = Excesses /\ take' = Needs
      /\ budgetLeft' = AtLeast(BikeBudget, 400)
      /\ donors' = InOrder(D, MoreExcess) /\ receivers' = InOrder(E, MoreNeed)
  BY DEF StartUnconstrained, Start, problem, Fruitless, Excesses, Needs
<1>2. station \in Inputs
  BY DEF PlanInv
<1>3. OutTyped'
  BY <1>1, OutSame DEF PlanInv
<1>4. D \subseteq Stations /\ E \subseteq Stations
  OBVIOUS
<1>5. D' = D /\ E' = E
  BY <1>1, BandsSame
<1>6. Lists(donors', D) /\ Lists(receivers', E)
  <2> HIDE DEF D, E
  <2>1. Lists(InOrder(D, MoreExcess), D)
    BY <1>2, <1>4, MoreListed
  <2>2. Lists(InOrder(E, MoreNeed), E)
    BY <1>2, <1>4, MoreListed
  <2> QED
    BY <1>1, <2>1, <2>2
<1>7. donors' \in Seq(Stations) /\ receivers' \in Seq(Stations)
  <2> HIDE DEF D, E
  <2> QED
    BY <1>4, <1>6 DEF Lists
<1>8. budgetLeft' \in Nat /\ budgetLeft' > 0
  BY <1>1, SolverAssumption DEF AtLeast
<1>9. ListsTyped'
  BY <1>1, <1>7, <1>8 DEF ListsTyped
<1>10. Ledger(Excesses, Needs)'
  <2>1. Excesses \in [Stations -> Nat] /\ Needs \in [Stations -> Nat]
    BY <1>2, StationTyped DEF Excesses, Needs
  <2>2. \A s \in Stations : ShippedFrom(s)' = 0 /\ ShippedTo(s)' = 0
    BY <1>1, NothingShipped, ShippedSame
  <2>3. \A s \in Stations : /\ Excesses[s] = ShippedFrom(s)' + give'[s]
                            /\ Needs[s] = ShippedTo(s)' + take'[s]
    BY <1>1, <2>1, <2>2
  <2> QED
    BY <1>1, <2>1, <2>3, BandLedgerNext
<1>11. UnconstrainedOK'
  <2>1. Lists(donors', D') /\ Lists(receivers', E')
    <3> HIDE DEF D, E
    <3> QED
      BY <1>5, <1>6
  <2>2. (Lists(donors, D) /\ Lists(receivers, E))'
    BY <2>1 DEF Lists
  <2>3. (out = <<>> => donorIdx = 1 /\ receiverIdx = 1 /\ budgetLeft > 0)'
    BY <1>1, <1>8
  <2>4. (done = "yes" => ~ Goable(UnconstrainedMoves))'
    BY <1>1
  <2> QED
    BY <2>2, <2>3, <2>4 DEF UnconstrainedOK
<1> QED
  BY <1>1, <1>2, <1>3, <1>9, <1>10, <1>11 DEF PlanInv

\* The lists stay the lists of the stations above and below their bands.
LEMMA ListsSame ==
  ASSUME UNCHANGED <<station, donors, receivers>>, UnconstrainedOK
  PROVE  /\ Lists(donors, {s \in Stations : Counted(s) /\ Excess(s) > 0})'
         /\ Lists(receivers, {s \in Stations : Counted(s) /\ Need(s) > 0})'
<1> DEFINE D == {s \in Stations : Counted(s) /\ Excess(s) > 0}
           E == {s \in Stations : Counted(s) /\ Need(s) > 0}
<1>1. D' = D /\ E' = E
  BY BandsSame
<1>2. Lists(donors, D) /\ Lists(receivers, E)
  BY DEF UnconstrainedOK
<1> HIDE DEF D, E
<1>3. Lists(donors', D') /\ Lists(receivers', E')
  BY <1>1, <1>2
<1>4. Lists(donors, D)' /\ Lists(receivers, E)'
  BY <1>3 DEF Lists
<1> QED
  BY <1>4 DEF D, E

\* A donor has too many bikes and a receiver too few, so they are two.
LEMMA DonorIsNoReceiver ==
  ASSUME station \in Inputs, UnconstrainedOK,
         donorIdx \in DOMAIN donors, receiverIdx \in DOMAIN receivers
  PROVE  from \in Stations /\ to \in Stations /\ from # to
<1> DEFINE D == {s \in Stations : Counted(s) /\ Excess(s) > 0}
           E == {s \in Stations : Counted(s) /\ Need(s) > 0}
<1>1. donors \in Seq(D) /\ receivers \in Seq(E)
  BY DEF UnconstrainedOK, Lists
<1>2. donors[donorIdx] \in D /\ receivers[receiverIdx] \in E
  BY <1>1
<1>3. from \in D /\ to \in E
  BY <1>2 DEF from, to
<1> QED
  BY <1>3, ExcessOrNeed

LEMMA UnconstrainedRoundKeeps == PlanInv /\ UnconstrainedRound => PlanInv'
<1> SUFFICES ASSUME PlanInv, UnconstrainedRound PROVE PlanInv'
  OBVIOUS
<1>1. /\ station' = station /\ phase = "unconstrained" /\ phase' = "unconstrained"
      /\ donors' = donors /\ receivers' = receivers
      /\ donorIdx' \in {donorIdx, donorIdx + 1}
      /\ receiverIdx' \in {receiverIdx, receiverIdx + 1}
      /\ Goable(UnconstrainedMoves) /\ Ship(UnconstrainedAmount)
      /\ done' = done /\ done = "no"
  BY DEF UnconstrainedRound, problem, solverVars
<1>2. /\ station \in Inputs /\ OutTyped /\ ListsTyped
      /\ Ledger(Excesses, Needs) /\ UnconstrainedOK
  BY <1>1 DEF PlanInv
<1>3. from \in Stations /\ to \in Stations /\ from # to
  <2>1. donorIdx \in DOMAIN donors /\ receiverIdx \in DOMAIN receivers
    BY <1>1, <1>2 DEF Goable, ListsTyped
  <2> QED
    BY <1>2, <2>1, DonorIsNoReceiver
<1>4. /\ OutTyped' /\ out' # <<>> /\ budgetLeft' \in Nat
      /\ give' \in [Stations -> Nat] /\ take' \in [Stations -> Nat]
      /\ \A s \in Stations : /\ Excesses[s] = ShippedFrom(s)' + give'[s]
                             /\ Needs[s] = ShippedTo(s)' + take'[s]
  <2>1. give[from] \in Nat /\ take[to] \in Nat /\ budgetLeft \in Nat
    BY <1>2, <1>3 DEF Ledger, ListsTyped
  <2>2. /\ UnconstrainedAmount \in Nat /\ UnconstrainedAmount <= give[from]
        /\ UnconstrainedAmount <= take[to] /\ UnconstrainedAmount <= budgetLeft
    BY <2>1 DEF UnconstrainedAmount, Least
  <2> QED
    BY <1>1, <1>2, <1>3, <2>2, ShipKeeps
<1>5. ListsTyped'
  BY <1>1, <1>2, <1>4 DEF ListsTyped
<1>6. Ledger(Excesses, Needs)'
  BY <1>1, <1>4, BandLedgerNext
<1>7. UnconstrainedOK'
  <2>1. /\ Lists(donors, {s \in Stations : Counted(s) /\ Excess(s) > 0})'
        /\ Lists(receivers, {s \in Stations : Counted(s) /\ Need(s) > 0})'
    BY <1>1, <1>2, ListsSame
  <2>2. (out = <<>> => donorIdx = 1 /\ receiverIdx = 1 /\ budgetLeft > 0)'
    BY <1>4
  <2>3. (done = "yes" => ~ Goable(UnconstrainedMoves))'
    BY <1>1
  <2> QED
    BY <2>1, <2>2, <2>3 DEF UnconstrainedOK
<1> QED
  BY <1>1, <1>2, <1>4, <1>5, <1>6, <1>7 DEF PlanInv

LEMMA UnconstrainedEndKeeps == PlanInv /\ UnconstrainedEnd => PlanInv'
<1> SUFFICES ASSUME PlanInv, UnconstrainedEnd PROVE PlanInv'
  OBVIOUS
<1>1. /\ station' = station /\ phase = "unconstrained" /\ phase' = "unconstrained"
      /\ UNCHANGED <<donors, receivers, donorIdx, receiverIdx,
                     give, take, budgetLeft, out>>
      /\ ~ Goable(UnconstrainedMoves)
  BY DEF UnconstrainedEnd, EndLoop, problem, fallbackVars
<1>2. /\ station \in Inputs /\ OutTyped /\ ListsTyped
      /\ Ledger(Excesses, Needs) /\ UnconstrainedOK
  BY <1>1 DEF PlanInv
<1>3. OutTyped' /\ ListsTyped'
  BY <1>1, <1>2, OutSame DEF ListsTyped
<1>4. Ledger(Excesses, Needs)'
  BY <1>1, <1>2, LedgerSame, BandLedgerNext
<1>5. UnconstrainedOK'
  <2>1. /\ Lists(donors, {s \in Stations : Counted(s) /\ Excess(s) > 0})'
        /\ Lists(receivers, {s \in Stations : Counted(s) /\ Need(s) > 0})'
    BY <1>1, <1>2, ListsSame
  <2>2. (out = <<>> => donorIdx = 1 /\ receiverIdx = 1 /\ budgetLeft > 0)'
    BY <1>1, <1>2 DEF UnconstrainedOK
  <2>3. (done = "yes" => ~ Goable(UnconstrainedMoves))'
    BY <1>1 DEF Goable
  <2> QED
    BY <2>1, <2>2, <2>3 DEF UnconstrainedOK
<1> QED
  BY <1>1, <1>2, <1>3, <1>4, <1>5 DEF PlanInv

\* A step that changes nothing changes nothing.
LEMMA PlanStutterKeeps == PlanInv /\ UNCHANGED planVars => PlanInv'
<1> SUFFICES ASSUME PlanInv, UNCHANGED planVars PROVE PlanInv'
  OBVIOUS
<1>1. UNCHANGED <<station, phase, done, donors, receivers, donorIdx, receiverIdx,
                  give, take, budgetLeft, out>>
  BY DEF planVars, solverVars, problem, fallbackVars
<1>2. OutTyped'
  BY <1>1, OutSame DEF PlanInv
<1>3. CASE phase \in {"strategy", "relaxed"}
  BY <1>1, <1>2, <1>3 DEF PlanInv
<1>4. CASE phase = "preview"
  <2>1. ListsTyped'
    BY <1>1, <1>4 DEF PlanInv, ListsTyped
  <2>2. Ledger(Stock, Docks)'
    BY <1>1, <1>4, LedgerSame, LedgerNext DEF PlanInv
  <2> QED
    BY <1>1, <1>2, <1>4, <2>1, <2>2 DEF PlanInv
<1>5. CASE phase = "unconstrained"
  <2>1. ListsTyped' /\ UnconstrainedOK
    BY <1>1, <1>5 DEF PlanInv, ListsTyped
  <2>2. Ledger(Excesses, Needs)'
    BY <1>1, <1>5, LedgerSame, BandLedgerNext DEF PlanInv
  <2>3. /\ Lists(donors, {s \in Stations : Counted(s) /\ Excess(s) > 0})'
        /\ Lists(receivers, {s \in Stations : Counted(s) /\ Need(s) > 0})'
    BY <1>1, <2>1, ListsSame
  <2>4. (out = <<>> => donorIdx = 1 /\ receiverIdx = 1 /\ budgetLeft > 0)'
    BY <1>1, <2>1 DEF UnconstrainedOK
  <2>5. (done = "yes" => ~ Goable(UnconstrainedMoves))'
    BY <1>1, <2>1 DEF UnconstrainedOK, Goable
  <2>6. UnconstrainedOK'
    BY <2>3, <2>4, <2>5 DEF UnconstrainedOK
  <2> QED
    BY <1>1, <1>2, <1>5, <2>1, <2>2, <2>6 DEF PlanInv
<1> QED
  BY <1>3, <1>4, <1>5 DEF PlanInv

\* The accounts of the fallback loops and what their lists hold: the invariant
\* from which the properties of the plan follow.
THEOREM PlanInvariant == PlanSpec => []PlanInv
<1>1. PlanInv /\ [PlanNext]_planVars => PlanInv'
  BY SolveKeeps, RelaxKeeps, StartPreviewKeeps, PreviewRoundKeeps,
     PreviewSkipKeeps, PreviewEndKeeps, StartUnconstrainedKeeps,
     UnconstrainedRoundKeeps, UnconstrainedEndKeeps, PlanStutterKeeps
     DEF PlanNext
<1> QED
  BY PlanInvInit, <1>1, PTL DEF PlanSpec

\* A forced preview takes no bike a station does not have and brings none it
\* has no dock for.
THEOREM PreviewKeepsStock == PlanSpec => []PreviewWithinStock
<1>1. PlanInv => PreviewWithinStock
  <2> SUFFICES ASSUME PlanInv, phase = "preview", NEW s \in Stations
               PROVE  /\ ShippedFrom(s) <= station[s].bikes
                      /\ ShippedTo(s) <= station[s].docks
                      /\ \A i \in DOMAIN out : out[i].from # out[i].to
    BY DEF PreviewWithinStock
  <2>1. /\ Stock[s] = ShippedFrom(s) + give[s] /\ give[s] \in Nat
        /\ Docks[s] = ShippedTo(s) + take[s] /\ take[s] \in Nat
    BY DEF PlanInv, Ledger
  <2>2. ShippedFrom(s) \in Int /\ ShippedTo(s) \in Int
    BY ShippedTyped DEF PlanInv
  <2>3. Stock[s] = station[s].bikes /\ Docks[s] = station[s].docks
    BY DEF Stock, Docks
  <2>4. \A i \in DOMAIN out : out[i].from # out[i].to
    BY DEF PlanInv, OutTyped
  <2> QED
    BY <2>1, <2>2, <2>3, <2>4
<1> QED
  BY PlanInvariant, <1>1, PTL

\* The unconstrained fallback takes no station below its band and fills none
\* above it.
THEOREM UnconstrainedKeepsBands == PlanSpec => []UnconstrainedWithinBands
<1>1. PlanInv => UnconstrainedWithinBands
  <2> SUFFICES ASSUME PlanInv, phase = "unconstrained", NEW s \in Stations
               PROVE  /\ ShippedFrom(s) <= Excess(s) /\ ShippedTo(s) <= Need(s)
                      /\ \A i \in DOMAIN out : out[i].from # out[i].to
    BY DEF UnconstrainedWithinBands
  <2>1. /\ Excesses[s] = ShippedFrom(s) + give[s] /\ give[s] \in Nat
        /\ Needs[s] = ShippedTo(s) + take[s] /\ take[s] \in Nat
    BY DEF PlanInv, Ledger
  <2>2. ShippedFrom(s) \in Int /\ ShippedTo(s) \in Int
    BY ShippedTyped DEF PlanInv
  <2>3. Excesses[s] = Excess(s) /\ Needs[s] = Need(s)
    BY DEF Excesses, Needs
  <2>4. \A i \in DOMAIN out : out[i].from # out[i].to
    BY DEF PlanInv, OutTyped
  <2> QED
    BY <2>1, <2>2, <2>3, <2>4
<1> QED
  BY PlanInvariant, <1>1, PTL

\* When the chain of fallbacks ends without a move, one of the two lists it
\* went through last was empty: there was no pair to serve.
THEOREM NoOpOnlyWithoutPairs == PlanSpec => []NoOpIsHonest
<1>1. PlanInv => NoOpIsHonest
  <2> SUFFICES ASSUME PlanInv, Planned, moves = <<>>, out = <<>>, Several,
                      NEW s \in Stations, NEW t \in Stations,
                      Excess(s) > 0, Need(t) > 0
               PROVE  FALSE
    BY DEF NoOpIsHonest
  <2> DEFINE D == {x \in Stations : Counted(x) /\ Excess(x) > 0}
             E == {x \in Stations : Counted(x) /\ Need(x) > 0}
  <2>1. phase = "unconstrained" /\ done = "yes"
    BY DEF Planned
  <2>2. /\ ~ Goable(UnconstrainedMoves) /\ donorIdx = 1 /\ receiverIdx = 1
        /\ budgetLeft > 0 /\ Lists(donors, D) /\ Lists(receivers, E)
    BY <2>1 DEF PlanInv, UnconstrainedOK
  <2>3. Counted(s) /\ Counted(t)
    BY StationTyped, SolverAssumption DEF PlanInv, Counted
  <2>4. s \in D /\ t \in E
    BY <2>3
  <2> HIDE DEF D, E
  <2>5. /\ Len(donors) \in Nat /\ Len(receivers) \in Nat
        /\ 1 <= Len(donors) /\ 1 <= Len(receivers)
    <3>1. Len(donors) \in Nat /\ Len(receivers) \in Nat
      BY <2>2 DEF Lists
    <3>2. PICK i \in 1..Len(donors) : donors[i] = s
      BY <2>2, <2>4 DEF Lists
    <3>3. PICK j \in 1..Len(receivers) : receivers[j] = t
      BY <2>2, <2>4 DEF Lists
    <3> QED
      BY <3>1, <3>2, <3>3
  <2>6. UnconstrainedMoves > 0
    BY SolverAssumption DEF UnconstrainedMoves, AtLeast
  <2>7. Goable(UnconstrainedMoves)
    BY <2>2, <2>5, <2>6 DEF Goable
  <2> QED
    BY <2>2, <2>7
<1> QED
  BY PlanInvariant, <1>1, PTL

=============================================================================
