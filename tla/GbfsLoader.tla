------------------------------- MODULE GbfsLoader -------------------------------
(***************************************************************************)
(* loadGbfsManifest (packages/ingest/src/gbfs/loader.ts) and the loops     *)
(* that call it (packages/ingest/src/cli.ts): the poller loads what each   *)
(* cycle collected, and "--load" loads every manifest of the archive, old  *)
(* and new, in the order of its path.  Nothing keeps two such processes    *)
(* apart.  A load is one transaction of several statements; other loads    *)
(* run between them.  Collection appears as what it leaves on disk.        *)
(***************************************************************************)
EXTENDS GbfsTables, Sequences, FiniteSets, SequencesExt

CONSTANTS Objects,      \* raw objects: [feed, publisher, stations]
          TornObjects,  \* those whose file is not JSON: a crash cut it short
          NoObject,     \* the raw_object_sha256 of a fetch that failed
          Manifests,    \* what collection may produce: [feed, collected, object]
          ReadsDates,   \* the driver reads a timestamptz as a Date
          MaxReloads, MaxNamed, MaxFaults   \* bounds of the model

Partial(D, R) == UNION {[S -> R] : S \in SUBSET D}

\* What a station_status object says of a station: last_reported, and whether
\* a count is negative, the flag that blocks a row.
Report == [reported : Times \cup {Null}, negative : BOOLEAN]

ASSUME GbfsLoaderAssumption ==
  /\ NoObject \notin Objects /\ IsFiniteSet(Manifests)
  /\ TornObjects \subseteq Objects
  /\ \A o \in Objects :
       /\ o.feed \in Feeds /\ o.publisher \in Times \cup {Null}
       /\ o.stations \in Partial(Stations,
                                 IF o.feed = Info THEN Specs ELSE Report)
  /\ \A m \in Manifests :
       /\ m.feed \in Feeds /\ m.collected \in Times
       /\ m.object \in Objects \cup {NoObject}
       /\ m.object \in Objects => m.object.feed = m.feed
  /\ ReadsDates \in BOOLEAN
  /\ MaxReloads \in Nat /\ MaxNamed \in Nat /\ MaxFaults \in Nat

VARIABLES archived,  \* the manifests on disk
          cycle,     \* the last poll cycle; its number is its collected_at
          run,       \* the manifests each loader has still to load, first first
          pc,        \* the statement it is about to run for the first of them
          reloads, faults,
          inOrder    \* history: station_information has been loaded in order

boundVars == <<reloads, faults>>
vars == <<tables, tx, archived, cycle, run, pc, boundVars, inOrder>>

Steps == {"open", "raw", "snapshot", "rows", "current", "scd",
          "lifecycle", "watermark", "commit"}

M(l) == Head(run[l])

\* Mutant: no time stamp is made up for a publisher that gives none.
MutPublisherLastUpdated(m) == m.object.publisher

\* manifest.publisher_last_updated ?? manifest.collected_at
PublisherLastUpdated(m) ==
  IF m.object.publisher = Null THEN m.collected ELSE m.object.publisher

\* parsePayload gives {} for a file that is not JSON: no station.
Parsed(o) == IF o \in TornObjects THEN <<>> ELSE o.stations

RowsOf(l) == Parsed(M(l).object)

At(l) == PublisherLastUpdated(M(l))

Key(l) == [feed |-> M(l).feed, at |-> At(l), object |-> M(l).object]

Init == /\ TablesInit
        /\ archived = {} /\ cycle = 0
        /\ run = [l \in Loaders |-> <<>>]
        /\ pc = [l \in Loaders |-> "open"]
        /\ reloads = 0 /\ faults = 0 /\ inOrder = TRUE

Goto(l, step) == pc' = [pc EXCEPT ![l] = step]

------------------------------------------------------------------------------
(* The runs: a poll cycle, and --load.                                     *)

\* A cycle archives at most one manifest of a feed, in the order discovery
\* lists the feeds; without --load-db it loads none of them.
Collect(l) ==
  \E batch \in SUBSET {m \in Manifests : m.collected = cycle + 1} :
    /\ run[l] = <<>> /\ batch # {}
    /\ \A m, n \in batch : m.feed = n.feed => m = n
    /\ cycle' = cycle + 1
    /\ archived' = archived \cup batch
    /\ \/ run' = run
       \/ \E s \in SetToSeqs(batch) : run' = [run EXCEPT ![l] = s]
    /\ UNCHANGED <<tables, tx, pc, boundVars, inOrder>>

PathBefore(m, n) == \/ m.feed = Info /\ n.feed = Status
                    \/ m.feed = n.feed /\ m.collected < n.collected

\* --load: every manifest of the archive in the order of its path, or those
\* that --manifest names, in the order it names them.
LoadAll(l) ==
  /\ run[l] = <<>>
  /\ reloads < MaxReloads /\ reloads' = reloads + 1
  /\ \E named \in SUBSET archived \ {{}} : \E s \in SetToSeqs(named) :
       /\ \/ Cardinality(named) <= MaxNamed
          \/ /\ named = archived
             /\ \A i, j \in DOMAIN s : i < j => PathBefore(s[i], s[j])
       /\ run' = [run EXCEPT ![l] = s]
  /\ UNCHANGED <<tables, tx, archived, cycle, pc, faults, inOrder>>

\* The run is over: the loop ended, or an exception left it.
EndRun(l) == run' = [run EXCEPT ![l] = <<>>] /\ Goto(l, "open")

------------------------------------------------------------------------------
(* One load.                                                               *)

Loading(l, step) == run[l] # <<>> /\ pc[l] = step

InProgress(k) == run[k] # <<>> /\ pc[k] # "open"

\* readManifest, BEGIN and the SELECT of the newest snapshot; a manifest of a
\* failed fetch throws.
Begin(l) ==
  /\ Loading(l, "open")
  /\ \/ /\ M(l).object = NoObject
        /\ EndRun(l) /\ UNCHANGED <<tx, inOrder>>
     \/ /\ M(l).object # NoObject
        /\ ReadLatest(l, M(l).feed)
        /\ Goto(l, "raw")
        /\ inOrder' = (inOrder /\ (M(l).feed = Info =>
             /\ \A k \in Others(l) : InProgress(k) => M(k).feed # Info
             /\ \A s \in logical_snapshots : s.feed = Info => s.at < At(l)))
        /\ UNCHANGED run
  /\ UNCHANGED <<tables, archived, cycle, boundVars>>

InsertRawManifest(l) ==
  /\ Loading(l, "raw")
  /\ InsertRaw(l, Key(l))
  /\ Goto(l, "snapshot")
  /\ UNCHANGED <<tables, archived, cycle, run, boundVars, inOrder>>

\* Mutant: a conflicting snapshot is loaded as if it were the one there.
MutInsertLogicalSnapshot(l) ==
  /\ Loading(l, "snapshot")
  /\ SnapshotFree(l, Key(l))
  /\ InsertSnapshot(l, Key(l))
  /\ Goto(l, "rows")
  /\ UNCHANGED <<tables, archived, cycle, run, boundVars, inOrder>>

\* insertLogicalSnapshot: a snapshot of the key with another object is a
\* conflict, and the load commits what it has and returns.
InsertLogicalSnapshot(l) ==
  /\ Loading(l, "snapshot")
  /\ SnapshotFree(l, Key(l))
  /\ InsertSnapshot(l, Key(l))
  /\ LET existing == SnapshotsOf(M(l).feed, At(l))
     IN Goto(l, IF \E s \in existing : s.object # M(l).object
                THEN "commit" ELSE "rows")
  /\ UNCHANGED <<tables, archived, cycle, run, boundVars, inOrder>>

\* publisherLastUpdated < latestPublisherLastUpdated compares a string with
\* what the driver read: a string is not less than a Date.
GoesBack(l) == ~ReadsDates /\ tx[l].latest # Null /\ At(l) < tx[l].latest

InformationRow(l, s) == [at |-> At(l), station |-> s, spec |-> RowsOf(l)[s]]

\* parseStationStatus: observation_ts is last_reported, at least the
\* publisher's time; a blocking flag takes the row out of serving.
Observed(l, s) == Later(RowsOf(l)[s].reported, At(l))

StatusRow(l, s) ==
  [at |-> At(l), station |-> s, observed |-> Observed(l, s),
   serving |-> /\ ~RowsOf(l)[s].negative
               /\ M(l).object.publisher # Null
               /\ ~GoesBack(l)]

\* readRawObject, the parse and the first INSERT of insertStation...Rows,
\* which return at once when there is no row.
InsertRows(l) ==
  /\ Loading(l, "rows")
  /\ \/ /\ RowsOf(l) = <<>>
        /\ Goto(l, "watermark") /\ UNCHANGED tx
     \/ /\ RowsOf(l) # <<>> /\ M(l).feed = Info
        /\ InsertInformation(l, {InformationRow(l, s) : s \in DOMAIN RowsOf(l)})
        /\ Goto(l, "current")
     \/ /\ RowsOf(l) # <<>> /\ M(l).feed = Status
        /\ InsertStatus(l, {StatusRow(l, s) : s \in DOMAIN RowsOf(l)})
        /\ Goto(l, "lifecycle")
  /\ UNCHANGED <<tables, archived, cycle, run, boundVars, inOrder>>

\* The stations_scd statement starts: it reads what is committed.
SelectCurrent(l) ==
  /\ Loading(l, "current")
  /\ ReadCurrent(l, DOMAIN RowsOf(l))
  /\ Goto(l, "scd")
  /\ UNCHANGED <<tables, archived, cycle, run, boundVars, inOrder>>

\* ... and writes.
WriteStationsScd(l) ==
  /\ Loading(l, "scd")
  /\ WriteScd(l, At(l), RowsOf(l))
  /\ Goto(l, "lifecycle")
  /\ UNCHANGED <<tables, archived, cycle, run, boundVars, inOrder>>

UpsertLifecycle(l) ==
  /\ Loading(l, "lifecycle")
  /\ LET S == DOMAIN RowsOf(l)
     IN IF M(l).feed = Info
        THEN UpsertLifecycleRows(l, S, [s \in S |-> At(l)], [s \in S |-> Null])
        ELSE UpsertLifecycleRows(l, S, [s \in S |-> Observed(l, s)],
                                       [s \in S |-> Observed(l, s)])
  /\ Goto(l, "watermark")
  /\ UNCHANGED <<tables, archived, cycle, run, boundVars, inOrder>>

UpsertDatasetWatermark(l) ==
  /\ Loading(l, "watermark")
  /\ UpsertWatermarkRow(l, M(l).feed, At(l))
  /\ Goto(l, "commit")
  /\ UNCHANGED <<tables, archived, cycle, run, boundVars, inOrder>>

Commit(l) ==
  /\ Loading(l, "commit")
  /\ CommitTx(l, At(l))
  /\ run' = [run EXCEPT ![l] = Tail(@)]
  /\ Goto(l, "open")
  /\ UNCHANGED <<archived, cycle, boundVars, inOrder>>

\* Mutant: the catch block throws without ROLLBACK.
MutFault(l) ==
  /\ run[l] # <<>> /\ pc[l] # "open"
  /\ faults < MaxFaults /\ faults' = faults + 1
  /\ EndRun(l)
  /\ UNCHANGED <<tables, tx, archived, cycle, reloads, inOrder>>

\* A statement or a file read fails and the catch block rolls back and throws,
\* or the process dies and the server rolls back: the run is over.
Fault(l) ==
  /\ run[l] # <<>> /\ pc[l] # "open"
  /\ faults < MaxFaults /\ faults' = faults + 1
  /\ RollbackTx(l)
  /\ EndRun(l)
  /\ UNCHANGED <<archived, cycle, reloads, inOrder>>

Step(l) == \/ Begin(l) \/ InsertRawManifest(l)
           \/ InsertLogicalSnapshot(l) \/ InsertRows(l) \/ SelectCurrent(l)
           \/ WriteStationsScd(l) \/ UpsertLifecycle(l)
           \/ UpsertDatasetWatermark(l) \/ Commit(l)

Next == \E l \in Loaders : Collect(l) \/ LoadAll(l) \/ Fault(l) \/ Step(l)

Spec == Init /\ [][Next]_vars

------------------------------------------------------------------------------
(* Properties.                                                             *)

Keys == [feed : Feeds, at : Times, object : Objects]

ScdRow == [station : Stations, valid_from : Times, valid_to : Times \cup {Null},
           spec : Specs]
InformationRows == [at : Times, station : Stations, spec : Specs]
StatusRows == [at : Times, station : Stations, observed : Times,
               serving : BOOLEAN]
LifecycleRow == [first_seen_at : Times, last_seen_at : Times,
                 last_active_at : Times \cup {Null}]

Writes == [latest : Times \cup {Null}, raw : SUBSET Keys, snapshots : SUBSET Keys,
           information : SUBSET InformationRows, status : SUBSET StatusRows,
           current : SUBSET ScdRow, closed : SUBSET ScdRow,
           opened : SUBSET ScdRow, lifecycle : Partial(Stations, LifecycleRow),
           watermarks : Partial(Feeds, Times)]

LoaderTypeOK ==
  /\ raw_manifests \subseteq Keys /\ logical_snapshots \subseteq Keys
  /\ snapshot_station_information \subseteq InformationRows
  /\ snapshot_station_status \subseteq StatusRows
  /\ stations_scd \subseteq ScdRow
  /\ station_lifecycle \in Partial(Stations, LifecycleRow)
  /\ dataset_watermarks \in Partial(Feeds, Times)
  /\ \A l \in Loaders : tx[l] \in Writes
  /\ archived \subseteq Manifests /\ cycle \in Nat
  /\ run \in [Loaders -> Seq(Manifests)]
  /\ pc \in [Loaders -> Steps]
  /\ reloads \in Nat /\ faults \in Nat /\ inOrder \in BOOLEAN

\* Every committed snapshot is of an object raw_manifests records, though the
\* two tables are unique by different keys, rows are skipped on conflict in
\* each, and a load that meets a conflict commits half-way (loader.ts:739-763).
SnapshotHasRaw ==
  \A s \in logical_snapshots : \E r \in raw_manifests : r.object = s.object

\* The watermark a serving view is bound to is the newest snapshot loaded:
\* neither behind what is loaded nor ahead of it, whatever the order of the
\* loads and however they overlap or fail (loader.ts:364-383).
WatermarkIsNewest ==
  \A f \in Feeds :
    LET ats == {s.at : s \in {t \in logical_snapshots : t.feed = f}}
    IN /\ f \in DOMAIN dataset_watermarks <=> ats # {}
       /\ f \in DOMAIN dataset_watermarks =>
            /\ dataset_watermarks[f] \in ats
            /\ \A a \in ats : a <= dataset_watermarks[f]

\* The times a station was seen at, in either feed, and those it was active at,
\* which only station_status tells.
StatusTimes(s) ==
  {r.observed : r \in {q \in snapshot_station_status : q.station = s}}
Observations(s) ==
  {r.at : r \in {q \in snapshot_station_information : q.station = s}}
    \cup StatusTimes(s)

\* A station has a lifecycle row once a row of it is loaded, and that row says
\* when it was last seen and last active: the newest of the loaded
\* observations, never behind one of them and never ahead of all, though loads
\* of both feeds upsert it in any order and overlap (loader.ts:535-561,
\* 672-701).  Its first_seen_at is the time of some loaded observation and not
\* of the earliest: neither upsert lowers it when an older one is loaded.
LifecycleIsNewest ==
  \A s \in Stations :
    /\ s \in DOMAIN station_lifecycle <=> Observations(s) # {}
    /\ s \in DOMAIN station_lifecycle =>
         LET life == station_lifecycle[s]
         IN /\ life.first_seen_at \in Observations(s)
            /\ life.last_seen_at \in Observations(s)
            /\ \A t \in Observations(s) : t <= life.last_seen_at
            /\ life.last_active_at \in StatusTimes(s) \cup {Null}
            /\ \A t \in StatusTimes(s) : t <= life.last_active_at

ScdOf(s) == {r \in stations_scd : r.station = s}

\* As long as station_information is loaded one snapshot after another, each
\* newer than the last, whatever else runs or fails, stations_scd is a history:
\* one open row of a station that says what its newest snapshot said of it,
\* and closed rows that follow on each other without gap or overlap, each one
\* a change (loader.ts:455-526).
HistoryTiles ==
  inOrder => \A s \in Stations :
    LET rows == ScdOf(s)
        told == {r \in snapshot_station_information : r.station = s}
    IN /\ \A r \in rows : r.valid_to = Null <=>
                            \A q \in rows : q.valid_from <= r.valid_from
       /\ \A r \in rows : r.valid_to # Null =>
            /\ r.valid_from < r.valid_to
            /\ \E q \in rows : q.valid_from = r.valid_to /\ q.spec # r.spec
            /\ \A q \in rows : q.valid_from <= r.valid_from
                                 \/ q.valid_from >= r.valid_to
       /\ \A i \in told : (\A j \in told : j.at <= i.at) =>
            \E r \in rows : r.valid_to = Null /\ r.spec = i.spec

\* The catalog the tables hold.
Shown(s) ==
  IF s.feed = Info
  THEN {<<r.station, r.spec>> :
          r \in {i \in snapshot_station_information : i.at = s.at}}
  ELSE {<<r.station, Status>> :
          r \in {i \in snapshot_station_status : i.at = s.at}}

Listed(o) ==
  LET rows == Parsed(o)
  IN {<<s, IF o.feed = Info THEN rows[s] ELSE Status>> : s \in DOMAIN rows}

Loaded == {<<s.feed, s.at>> : s \in logical_snapshots}

Entry(k) == LET s == CHOOSE u \in SnapshotsOf(k[1], k[2]) : TRUE
            IN [object |-> s.object, stations |-> Shown(s)]

catalog == [k \in Loaded |-> Entry(k)]

Catalog == INSTANCE SnapshotCatalog WITH Keys <- Feeds \X Times

\* The loads implement the catalog: a snapshot appears once, whole and of one
\* object, and no later load, of whatever object, failing where it may, adds
\* to it or changes it.
ImplementsCatalog == Catalog!Spec

Running == {l \in Loaders : run[l] # <<>>}

\* The statement of l meets a row that another load holds.
Waits(l) ==
  \/ Loading(l, "raw") /\ ~RawFree(l, Key(l))
  \/ Loading(l, "snapshot") /\ ~SnapshotFree(l, Key(l))
  \/ /\ Loading(l, "rows") /\ M(l).feed = Info
     /\ ~InformationFree(l, {InformationRow(l, s) : s \in DOMAIN RowsOf(l)})
  \/ /\ Loading(l, "rows") /\ M(l).feed = Status
     /\ ~StatusFree(l, {StatusRow(l, s) : s \in DOMAIN RowsOf(l)})
  \/ /\ Loading(l, "scd")
     /\ ~ScdFree(l, Closing(l, RowsOf(l)) \cup Opening(l, At(l), RowsOf(l)))
  \/ Loading(l, "lifecycle") /\ ~LifecycleFree(l, DOMAIN RowsOf(l))
  \/ Loading(l, "watermark") /\ ~WatermarkFree(l, M(l).feed)

\* Not every load waits for another.
OneGoesOn == Running # {} => \E l \in Running : ~Waits(l)

\* Two loads never wait for each other, so every run ends: whatever the feeds,
\* the locks on raw_manifests, logical_snapshots, stations_scd,
\* station_lifecycle and dataset_watermarks are taken in one order and let go
\* at the end, and nothing but such a lock stops a load.  A statement is taken
\* to lock its rows at once: a cycle inside two statements is broken by the
\* server, which fails one (Fault).
NoLockCycle ==
  OneGoesOn /\ \A l \in Running : ENABLED Step(l) <=> ~Waits(l)

\* PLAN.md:413: "Re-running the same snapshot/time range must not create
\* duplicates or divergent results."  A load of a snapshot that is loaded, with
\* its rows, leaves what the tables say of the stations as it is.
RerunChangesNothing ==
  [][\A l \in Loaders :
       (Commit(l) /\ Key(l) \in logical_snapshots) =>
          UNCHANGED <<stations_scd, station_lifecycle>>]_vars

=============================================================================
