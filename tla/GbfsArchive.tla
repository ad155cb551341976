------------------------------ MODULE GbfsArchive ------------------------------
(***************************************************************************)
(* The raw archive of packages/ingest: runGbfsPoller and collectGbfs write *)
(* it (gbfs/poller.ts, gbfs/collector.ts, gbfs/archive.ts), retention      *)
(* removes files from it (retention.ts), in processes of their own.  A     *)
(* body is stored once, under its hash; a manifest names the body it came  *)
(* with.  Both are written in place, and only where no file is.            *)
(*                                                                         *)
(* Loading what a cycle collected is GbfsLoader; here it ends or throws.   *)
(***************************************************************************)
EXTENDS Integers, Sequences, FiniteSets, SequencesExt, FiniteSetsExt, Sorting

CONSTANTS Bodies,      \* what feeds answer: [feed, published, hash], by SHA-256
          Feeds,
          FeedRank,    \* their order by name
          Pruners,     \* processes started with --prune --apply
          Retention,   \* --retention-days
          MaxBytes,    \* --max-archive-gb, or NoLimit
          NoLimit,
          BytesOf,     \* the size of a "manifest" and of an "object"
          None,        \* no body, no time of publication
          MaxDay, MaxCycles, MaxFaults, MaxPrunes   \* bounds of the model

ASSUME GbfsArchiveAssumption ==
  /\ \A b \in Bodies : /\ b.feed \in Feeds /\ b.published \in Int \cup {None}
                       /\ b.hash \in Nat
  /\ \A b, c \in Bodies : b.hash = c.hash => b = c
  /\ None \notin Bodies /\ None \notin Int
  /\ IsFiniteSet(Feeds) /\ FeedRank \in [Feeds -> Nat]
  /\ \A f, g \in Feeds : FeedRank[f] = FeedRank[g] => f = g
  /\ Retention \in Nat \ {0} /\ MaxBytes \in Nat \cup {NoLimit}
  /\ BytesOf \in [{"manifest", "object"} -> Nat \ {0}]
  /\ MaxDay \in Nat /\ MaxCycles \in Nat /\ MaxFaults \in Nat /\ MaxPrunes \in Nat

VARIABLES day,     \* the clock, in days
          disk,    \* the files, by name
          pc,      \* where the poller is
          feeds,   \* the feeds it has still to fetch in this cycle
          got,     \* what it fetched last
          plan,    \* the files each pruner has still to remove
          cycle, faults, prunes

pollVars == <<pc, feeds, got, cycle>>
boundVars == <<faults, prunes>>
vars == <<day, disk, pollVars, plan, boundVars>>

ObjectOf(b) == [kind |-> "object", body |-> b]
ManifestOf(g) == [kind |-> "manifest", feed |-> g.feed, at |-> g.at, cycle |-> cycle]

Planned == UNION {ToSet(plan[p]) : p \in Pruners}

With(name, file) == [n \in DOMAIN disk \cup {name} |-> IF n = name THEN file ELSE disk[n]]
Without(name) == [n \in DOMAIN disk \ {name} |-> disk[n]]

Goto(step) == pc' = step

Init ==
  /\ day = 0 /\ disk = <<>> /\ pc = "discover" /\ feeds = <<>>
  /\ got = None /\ plan = [p \in Pruners |-> <<>>]
  /\ cycle = 0 /\ faults = 0 /\ prunes = 0

-----------------------------------------------------------------------------
(* The poller *)

\* Mutant: the error ends the loop.
MutPollFailed == pc' = "ended"

\* An error of the cycle is logged, and the loop backs off.
PollFailed == pc' = "sleep"

\* discoverGbfsFeeds: the feeds that are listed, wanted or not; it may throw.
Discover ==
  /\ pc = "discover" /\ cycle < MaxCycles /\ cycle' = cycle + 1
  /\ \/ /\ \E listed \in SUBSET Feeds \ {{}} : feeds' = SetToSeq(listed)
        /\ Goto("fetch")
     \/ PollFailed /\ UNCHANGED feeds
  /\ UNCHANGED <<day, disk, got, plan, boundVars>>

\* fetchGbfsFeed: what fails has no body, and is archived as well.
Fetch ==
  /\ pc = "fetch" /\ feeds # <<>>
  /\ \E body \in {b \in Bodies : b.feed = Head(feeds)} \cup {None} :
       /\ got' = [feed |-> Head(feeds), body |-> body, at |-> day, stored |-> FALSE]
       /\ Goto(IF body = None THEN "manifest" ELSE "object")
  /\ feeds' = Tail(feeds)
  /\ UNCHANGED <<day, disk, plan, cycle, boundVars>>

\* writeRawObject: a file that exists, whole or not, is taken for the body.
OpenObject ==
  /\ pc = "object"
  /\ LET o == ObjectOf(got.body) IN
     IF o \in DOMAIN disk
     THEN Goto("manifest") /\ UNCHANGED disk
     ELSE Goto("object_end") /\ disk' = With(o, [whole |-> FALSE, mtime |-> day])
  /\ UNCHANGED <<day, feeds, got, plan, cycle, boundVars>>

\* The last byte; a file that was removed meanwhile has no name any more.
CloseObject ==
  /\ pc = "object_end"
  /\ LET o == ObjectOf(got.body) IN
     disk' = IF o \in DOMAIN disk THEN With(o, [whole |-> TRUE, mtime |-> day])
             ELSE disk
  /\ got' = [got EXCEPT !.stored = TRUE]
  /\ Goto("manifest")
  /\ UNCHANGED <<day, feeds, plan, cycle, boundVars>>

\* History: this cycle stored the object, and no pruner has a hand on it.
Own(g) ==
  LET o == ObjectOf(g.body) IN g.stored /\ o \in DOMAIN disk /\ o \notin Planned

OpenManifest ==
  /\ pc = "manifest"
  /\ disk' = With(ManifestOf(got), [whole |-> FALSE, body |-> got.body, own |-> Own(got)])
  /\ Goto("manifest_end")
  /\ UNCHANGED <<day, feeds, got, plan, cycle, boundVars>>

CloseManifest ==
  /\ pc = "manifest_end"
  /\ LET m == ManifestOf(got) IN
     disk' = IF m \in DOMAIN disk THEN With(m, [disk[m] EXCEPT !.whole = TRUE]) ELSE disk
  /\ Goto(IF feeds = <<>> THEN "callback" ELSE "fetch")
  /\ UNCHANGED <<day, feeds, got, plan, cycle, boundVars>>

\* on_cycle_complete: whether it throws or not, the poller goes to sleep.
Callback ==
  /\ pc = "callback" /\ Goto("sleep")
  /\ UNCHANGED <<day, disk, feeds, got, plan, cycle, boundVars>>

Wake ==
  /\ pc = "sleep" /\ Goto("discover")
  /\ UNCHANGED <<day, disk, feeds, got, plan, cycle, boundVars>>

PollStep ==
  \/ Discover \/ Fetch \/ OpenObject \/ CloseObject
  \/ OpenManifest \/ CloseManifest \/ Callback \/ Wake

\* A write fails: what is on the disk stays there.
WriteFails ==
  /\ pc \in {"object", "object_end", "manifest", "manifest_end"}
  /\ faults < MaxFaults /\ faults' = faults + 1
  /\ PollFailed
  /\ UNCHANGED <<day, disk, feeds, got, plan, cycle, prunes>>

Crash ==
  /\ pc # "down" /\ faults < MaxFaults /\ faults' = faults + 1
  /\ Goto("down")
  /\ UNCHANGED <<day, disk, feeds, got, plan, cycle, prunes>>

Restart ==
  /\ pc = "down" /\ Goto("discover")
  /\ UNCHANGED <<day, disk, feeds, got, plan, cycle, boundVars>>

-----------------------------------------------------------------------------
(* Retention *)

\* age_basis_ms: what the manifest says, or its name; otherwise the mtime.
AgeBasis(n) ==
  IF n.kind = "object" THEN disk[n].mtime
  ELSE IF disk[n].whole /\ disk[n].body # None /\ disk[n].body.published # None
       THEN disk[n].body.published
       ELSE n.at

\* Files of equal age by path: "feed=..." comes before "objects/", and under a
\* feed dt, hour and name are the time of the fetch.
PathBefore(n, m) ==
  \/ n.kind = "manifest" /\ m.kind = "object"
  \/ n.kind = "object" /\ m.kind = "object" /\ n.body.hash < m.body.hash
  \/ /\ n.kind = "manifest" /\ m.kind = "manifest"
     /\ \/ FeedRank[n.feed] < FeedRank[m.feed]
        \/ n.feed = m.feed /\ (n.at < m.at \/ (n.at = m.at /\ n.cycle < m.cycle))

\* Mutant: the newest files come first.
MutOlder(n, m) == AgeBasis(n) > AgeBasis(m) \/ (AgeBasis(n) = AgeBasis(m) /\ PathBefore(n, m))

Older(n, m) ==
  AgeBasis(n) < AgeBasis(m) \/ (AgeBasis(n) = AgeBasis(m) /\ PathBefore(n, m))

Bytes(names) == FoldSet(LAMBDA n, sum : BytesOf[n.kind] + sum, 0, names)

\* planArchivePrune: what is past the cutoff, and then the oldest of the rest
\* until the rest is small enough.
DeleteCandidates ==
  LET aged == {n \in DOMAIN disk : AgeBasis(n) < day - Retention}
      rest == DOMAIN disk \ aged
      upTo(n) == {m \in rest : m = n \/ Older(m, n)}
      over(n) == MaxBytes # NoLimit /\ Bytes(rest \ (upTo(n) \ {n})) > MaxBytes
  IN aged \cup {n \in rest : over(n)}

PlanPrune(p) ==
  /\ plan[p] = <<>> /\ DeleteCandidates # {}
  /\ prunes < MaxPrunes /\ prunes' = prunes + 1
  /\ plan' = [plan EXCEPT ![p] = InOrder(DeleteCandidates, Older)]
  /\ UNCHANGED <<day, disk, pollVars, faults>>

\* applyArchivePrune: a file that is gone is skipped, any other error ends it.
Unlink(p) ==
  /\ plan[p] # <<>>
  /\ \/ /\ disk' = Without(Head(plan[p]))
        /\ plan' = [plan EXCEPT ![p] = Tail(@)]
        /\ UNCHANGED faults
     \/ /\ faults < MaxFaults /\ faults' = faults + 1
        /\ plan' = [plan EXCEPT ![p] = <<>>]
        /\ UNCHANGED disk
  /\ UNCHANGED <<day, pollVars, prunes>>

-----------------------------------------------------------------------------
NextDay ==
  /\ day < MaxDay /\ day' = day + 1
  /\ UNCHANGED <<disk, pollVars, plan, boundVars>>

Next ==
  \/ PollStep \/ WriteFails \/ Crash \/ Restart
  \/ \E p \in Pruners : PlanPrune(p) \/ Unlink(p)
  \/ NextDay

\* Requests and timers of the poller settle; nothing is promised of operators.
Spec == Init /\ [][Next]_vars /\ WF_vars(PollStep)

-----------------------------------------------------------------------------
\* A manifest whose own cycle stored the object it names can be loaded as long as
\* it is kept: retention removes it first, also when it stops half way
\* (retention.ts:113, 182-196).  A publisher may not be ahead of the clock, and a
\* pruner that had planned to remove the object is excepted; so is an object an
\* earlier cycle had stored, whose mtime is not renewed.
KeptManifestIsLoadable ==
  \A n \in DOMAIN disk :
    (/\ n.kind = "manifest" /\ disk[n].whole /\ disk[n].own
     /\ (disk[n].body.published = None \/ disk[n].body.published <= n.at))
    => /\ ObjectOf(disk[n].body) \in DOMAIN disk
       /\ disk[ObjectOf(disk[n].body)].whole

\* A cycle ends whatever fails in it, and the poller asks again
\* (poller.ts:60-116).
CyclesEnd == pc # "down" ~> pc \in {"discover", "down"}

=============================================================================
