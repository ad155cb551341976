------------------------------ MODULE WorkerPlan ------------------------------
(***************************************************************************)
(* How a policy worker plans the moves of a job before it writes any       *)
(* (processPolicyJob in packages/api/src/policy/worker.ts): the strategy   *)
(* asked for; while no move comes out of it, the same strategy with        *)
(* relaxed targets; then buildForcedPreviewMoves, which ignores bands and  *)
(* edges; then computeUnconstrainedFallbackMoves, which ignores docks and  *)
(* edges.  The constants are the worker's configuration; the numbers that  *)
(* appear are the code's.  A step is one round of one of the four loops.   *)
(***************************************************************************)
EXTENDS PolicySolver, Sorting

VARIABLES phase,        \* the loop that is running, or ran last
          donors, receivers,           \* the lists of the fallback loops
          donorIdx, receiverIdx,
          give, take,   \* what each station still gives and takes in them
          budgetLeft,
          out           \* the moves they made

fallbackVars == <<donors, receivers, donorIdx, receiverIdx, give, take,
                  budgetLeft, out>>
planVars == <<solverVars, phase, fallbackVars>>

AtLeast(a, b) == IF a >= b THEN a ELSE b

\* buildSpec caps the configured effort; the second pass raises it again.
Strategy == INSTANCE PolicySolver WITH
  BikeBudget <- Least(BikeBudget, 500), MaxMoves <- Least(MaxMoves, 240),
  MaxStationsTouched <- Least(MaxStationsTouched, 250)
Relaxed == INSTANCE PolicySolver WITH
  Alpha <- 49, Beta <- 51, MinCapacity <- 1,
  Allowed <- Allowed \cup {"ok", "degraded", "unknown"},
  BikeBudget <- AtLeast(Least(BikeBudget, 500), 240),
  MaxMoves <- AtLeast(Least(MaxMoves, 240), 240),
  MaxStationsTouched <- AtLeast(Least(MaxStationsTouched, 250), 200)

Zero == [s \in Stations |-> 0]

PlanInit == /\ Strategy!SolverInit
            /\ phase = "strategy"
            /\ donors = <<>> /\ receivers = <<>>
            /\ donorIdx = 1 /\ receiverIdx = 1
            /\ give = Zero /\ take = Zero
            /\ budgetLeft = 0 /\ out = <<>>

Several == Cardinality(Stations) > 1
Fruitless(p) == phase = p /\ done = "yes" /\ moves = <<>> /\ out = <<>> /\ Several

Solve == /\ \/ phase = "strategy" /\ Strategy!SolverNext
            \/ phase = "relaxed" /\ Relaxed!SolverNext
         /\ UNCHANGED <<phase, fallbackVars>>

\* The snapshot is solved anew; station still holds it.
Relax ==
  /\ Fruitless("strategy")
  /\ phase' = "relaxed"
  /\ bikesBudgetRemaining' = AtLeast(Least(BikeBudget, 500), 240)
  /\ movesRemaining' = AtLeast(Least(MaxMoves, 240), 240)
  /\ touched' = {}
  /\ done' = "no"
  /\ UNCHANGED <<problem, bikes_after, moves, fallbackVars>>

------------------------------------------------------------------------------

\* A fallback starts with its lists, what they hold and its budget of bikes.
Start(p, from, to, amount, room, budget) ==
  /\ phase' = p
  /\ donors' = from /\ receivers' = to
  /\ donorIdx' = 1 /\ receiverIdx' = 1
  /\ give' = amount /\ take' = room
  /\ budgetLeft' = budget
  /\ done' = "no"
  /\ UNCHANGED <<problem, plan, out>>

Goable(maxMoves) == /\ donorIdx <= Len(donors) /\ receiverIdx <= Len(receivers)
                    /\ Len(out) < maxMoves /\ budgetLeft > 0

from == donors[donorIdx]
to == receivers[receiverIdx]

Ship(n) ==
  /\ give' = [give EXCEPT ![from] = @ - n]
  /\ take' = [take EXCEPT ![to] = @ - n]
  /\ budgetLeft' = budgetLeft - n
  /\ out' = Append(out, [from |-> from, to |-> to, bikes_moved |-> n])

EndLoop == /\ done' = "yes"
           /\ UNCHANGED <<problem, plan, phase, fallbackVars>>

\* Fullest first, by the ratio of bikes to capacity, and the other way round.
Fuller(s, t) ==
  LET a == station[s].bikes * station[t].capacity
      b == station[t].bikes * station[s].capacity
  IN a > b \/ (a = b /\ s < t)

Emptier(s, t) == Fuller(t, s)

\* The receivers are the sorted stations in reverse.
StartPreview ==
  /\ Fruitless("relaxed")
  /\ Start("preview",
           InOrder({s \in Stations : station[s].bikes > 0}, Fuller),
           InOrder({s \in Stations : station[s].docks > 0}, Emptier),
           [s \in Stations |-> station[s].bikes],
           [s \in Stations |-> station[s].docks],
           AtLeast(BikeBudget, 48))

PreviewMoves == 24
Wrap(i, n) == (i % n) + 1

\* Mutant: the docks left at the receiver are not asked for.
MutPreviewAmount == Least(4, Least(give[from], budgetLeft))

PreviewAmount == Least(4, Least(Least(give[from], take[to]), budgetLeft))

HasCapacity == /\ \E i \in DOMAIN donors : give[donors[i]] > 0
               /\ \E i \in DOMAIN receivers : take[receivers[i]] > 0

\* A round of the forced preview: both indices go round their lists, and the
\* loop stops when both are back at the start and nothing is left to pair.
PreviewRound ==
  /\ phase = "preview" /\ done = "no"
  /\ Goable(PreviewMoves) /\ from # to
  /\ UNCHANGED <<problem, plan, phase, donors, receivers>>
  /\ \/ PreviewAmount > 0 /\ Ship(PreviewAmount)
     \/ PreviewAmount = 0 /\ UNCHANGED <<give, take, budgetLeft, out>>
  /\ donorIdx' = Wrap(donorIdx, Len(donors))
  /\ receiverIdx' = Wrap(receiverIdx, Len(receivers))
  /\ done' = IF donorIdx' = 1 /\ receiverIdx' = 1 /\ ~HasCapacity'
               THEN "yes" ELSE "no"

PreviewSkip == /\ phase = "preview" /\ done = "no"
               /\ Goable(PreviewMoves) /\ from = to
               /\ receiverIdx' = receiverIdx + 1
               /\ UNCHANGED <<solverVars, phase, donors, receivers, donorIdx,
                              give, take, budgetLeft, out>>

PreviewEnd == /\ phase = "preview" /\ done = "no" /\ ~Goable(PreviewMoves)
              /\ EndLoop

\* need and excess at 49 and 51 percent of capacity.
Need(s) == Positive((49 * station[s].capacity + 99) \div 100 - station[s].bikes)
Excess(s) == Positive(station[s].bikes - (51 * station[s].capacity) \div 100)

\* Mutant: only the stations the policy may use are considered.
MutCounted(s) == eligible(s)

\* The stations of this fallback: loadPolicyStations let in no others.
Counted(s) == station[s].capacity > 0

MoreExcess(s, t) == Excess(s) > Excess(t) \/ (Excess(s) = Excess(t) /\ s < t)
MoreNeed(s, t) == Need(s) > Need(t) \/ (Need(s) = Need(t) /\ s < t)

StartUnconstrained ==
  /\ Fruitless("preview")
  /\ Start("unconstrained",
           InOrder({s \in Stations : Counted(s) /\ Excess(s) > 0}, MoreExcess),
           InOrder({s \in Stations : Counted(s) /\ Need(s) > 0}, MoreNeed),
           [s \in Stations |-> Excess(s)], [s \in Stations |-> Need(s)],
           AtLeast(BikeBudget, 400))

UnconstrainedMoves == AtLeast(MaxMoves, 300)

\* Mutant: what the receiver needs is not asked for.
MutUnconstrainedAmount == Least(12, Least(give[from], budgetLeft))

UnconstrainedAmount ==
  Least(12, Least(Least(give[from], take[to]), budgetLeft))

\* The code steps over a donor that meets itself.  No station is both above 51
\* and below 49 percent, so there is no such step: the invariant below says so.
UnconstrainedRound ==
  /\ phase = "unconstrained" /\ done = "no"
  /\ Goable(UnconstrainedMoves)
  /\ Ship(UnconstrainedAmount)
  /\ donorIdx' = IF give'[from] <= 0 THEN donorIdx + 1 ELSE donorIdx
  /\ receiverIdx' = IF take'[to] <= 0 THEN receiverIdx + 1 ELSE receiverIdx
  /\ UNCHANGED <<solverVars, phase, donors, receivers>>

UnconstrainedEnd ==
  /\ phase = "unconstrained" /\ done = "no" /\ ~Goable(UnconstrainedMoves)
  /\ EndLoop

PlanNext == \/ Solve \/ Relax
            \/ StartPreview \/ PreviewRound \/ PreviewSkip \/ PreviewEnd
            \/ StartUnconstrained \/ UnconstrainedRound \/ UnconstrainedEnd

PlanSpec == PlanInit /\ [][PlanNext]_planVars

\* Planning is synchronous code: it runs on until it returns.
PlanFairSpec == PlanSpec /\ WF_planVars(PlanNext)

------------------------------------------------------------------------------

Planned == done = "yes" /\ (moves # <<>> \/ out # <<>> \/ ~Several
                            \/ phase = "unconstrained")

Shipped(I) == MapThenSumSet(LAMBDA i : out[i].bikes_moved, I)
ShippedFrom(s) == Shipped({i \in DOMAIN out : out[i].from = s})
ShippedTo(s) == Shipped({i \in DOMAIN out : out[i].to = s})

\* A forced preview never takes from a station more bikes than it has nor
\* brings it more than it had docks for, although its two lists share their
\* stations, both indices go round, and one is advanced alone when they meet.
PreviewWithinStock ==
  phase = "preview" => \A s \in Stations :
    /\ ShippedFrom(s) <= station[s].bikes
    /\ ShippedTo(s) <= station[s].docks
    /\ \A i \in DOMAIN out : out[i].from # out[i].to

\* The unconstrained fallback leaves every station between where it was and
\* its band, like the strategies: nobody gives below U or takes above L, and
\* no station is sent its own bikes.
UnconstrainedWithinBands ==
  phase = "unconstrained" => \A s \in Stations :
    /\ ShippedFrom(s) <= Excess(s) /\ ShippedTo(s) <= Need(s)
    /\ \A i \in DOMAIN out : out[i].from # out[i].to

\* A job of several stations is answered with no_op only when no pair of them
\* could serve each other at the relaxed targets: the chain of fallbacks
\* leaves out no plan that exists.
NoOpIsHonest ==
  Planned /\ moves = <<>> /\ out = <<>> /\ Several =>
    ~ \E s, t \in Stations : s # t /\ Excess(s) > 0 /\ Need(t) > 0

=============================================================================
