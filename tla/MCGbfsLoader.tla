------------------------------ MODULE MCGbfsLoader ------------------------------
EXTENDS GbfsLoader

Information(at, station, spec) ==
  [feed |-> Info, publisher |-> at, stations |-> (station :> spec)]

StatusAt(at, reported) ==
  [feed |-> Status, publisher |-> at,
   stations |-> ("s1" :> [reported |-> reported, negative |-> FALSE])]

Older == Information(1, "s1", "a")
Newer == Information(2, "s1", "b")
Untimed == Information(Null, "s2", "a")

LoaderSymmetry == Permutations(Loaders)

MCTorn == {StatusAt(2, 2)}

MCObjects == {Older, Newer, Untimed, StatusAt(1, 2)} \cup MCTorn

Of(o, c) == [feed |-> o.feed, collected |-> c, object |-> o]

\* The first cycle finds the older or the newer of two snapshots, or fails;
\* the second the other one, or one without a time stamp that collides with
\* the newer.
MCManifests ==
  {Of(Older, 1), Of(Newer, 1), Of(StatusAt(1, 2), 1),
   [feed |-> Info, collected |-> 1, object |-> NoObject],
   Of(Older, 2), Of(Newer, 2), Of(Untimed, 2), Of(StatusAt(2, 2), 2)}

=============================================================================
