------------------------------- MODULE GbfsTables -------------------------------
(***************************************************************************)
(* The tables the GBFS loader writes and the transactions it writes them   *)
(* in (sql/migrations/0001_core_schema.sql, 0004_dataset_watermarks.sql,   *)
(* and the statements of packages/ingest/src/gbfs/loader.ts).  One system  *)
(* and one loader_schema_version; a logical_snapshot_id stands for the key *)
(* (feed_name, publisher_last_updated) it is given to.                     *)
(*                                                                         *)
(* The database isolates at READ COMMITTED: a statement reads what is      *)
(* committed and what its own transaction wrote, and a statement that      *)
(* meets an uncommitted row of its key, or a row another transaction has   *)
(* changed, waits until that transaction ends.                             *)
(***************************************************************************)
EXTENDS Integers

CONSTANTS Loaders,   \* processes that load manifests
          Stations,
          Times,     \* time stamps, positive
          Specs      \* what a station_information row says of a station

ASSUME GbfsTablesAssumption == Times \subseteq Nat \ {0}

Null == 0            \* SQL NULL

Info == "station_information"
Status == "station_status"
Feeds == {Info, Status}

VARIABLES raw_manifests, logical_snapshots,
          snapshot_station_information, snapshot_station_status,
          stations_scd, station_lifecycle,
          dataset_watermarks,  \* as_of_ts of the feeds that have one
          tx                   \* what each loader has written and not committed

tables == <<raw_manifests, logical_snapshots, snapshot_station_information,
            snapshot_station_status, stations_scd, station_lifecycle,
            dataset_watermarks>>

Later(s, t) == IF s < t THEN t ELSE s      \* GREATEST(s, t)

\* A table by its primary key, after the rows of an upsert.
Upserted(table, rows) ==
  [k \in DOMAIN table \cup DOMAIN rows |->
     IF k \in DOMAIN rows THEN rows[k] ELSE table[k]]

NoWrites == [latest |-> Null,   \* latestPublisherLastUpdated as it was read
             raw |-> {}, snapshots |-> {}, information |-> {}, status |-> {},
             current |-> {},    \* stations_scd rows the statement has read
             closed |-> {}, opened |-> {},
             lifecycle |-> <<>>, watermarks |-> <<>>]

TablesInit == /\ raw_manifests = {} /\ logical_snapshots = {}
              /\ snapshot_station_information = {}
              /\ snapshot_station_status = {}
              /\ stations_scd = {} /\ station_lifecycle = <<>>
              /\ dataset_watermarks = <<>>
              /\ tx = [l \in Loaders |-> NoWrites]

Others(l) == Loaders \ {l}

\* SELECT publisher_last_updated ... ORDER BY ... DESC LIMIT 1.
ReadLatest(l, feed) ==
  LET ats == {s.at : s \in {t \in logical_snapshots : t.feed = feed}}
  IN tx' = [tx EXCEPT ![l].latest =
       IF ats = {} THEN Null ELSE CHOOSE t \in ats : \A u \in ats : u <= t]

------------------------------------------------------------------------------

\* Mutant: the dedupe key leaves the feed out.
MutSameRaw(r, s) == r.object = s.object \/ r.at = s.at

\* INSERT INTO raw_manifests ... ON CONFLICT DO NOTHING: unique by object and
\* by (feed_name, publisher_last_updated).
SameRaw(r, s) == r.object = s.object \/ (r.feed = s.feed /\ r.at = s.at)

RawFree(l, row) == \A k \in Others(l) : \A r \in tx[k].raw : ~SameRaw(r, row)

InsertRaw(l, row) ==
  /\ RawFree(l, row)
  /\ tx' = IF \E r \in raw_manifests : SameRaw(r, row) THEN tx
           ELSE [tx EXCEPT ![l].raw = {row}]

\* INSERT INTO logical_snapshots ... ON CONFLICT DO NOTHING.
SnapshotsOf(feed, at) == {s \in logical_snapshots : s.feed = feed /\ s.at = at}

SnapshotFree(l, row) ==
  \A k \in Others(l) : \A s \in tx[k].snapshots : s.feed # row.feed \/ s.at # row.at

InsertSnapshot(l, row) ==
  tx' = IF SnapshotsOf(row.feed, row.at) # {} THEN tx
        ELSE [tx EXCEPT ![l].snapshots = {row}]

\* INSERT INTO snapshot_station_... ON CONFLICT (snapshot, station) DO NOTHING.
SameStation(r, s) == r.at = s.at /\ r.station = s.station

NewRows(rows, table) == {r \in rows : \A s \in table : ~SameStation(r, s)}

InformationFree(l, rows) ==
  \A k \in Others(l) : \A r \in rows, s \in tx[k].information : ~SameStation(r, s)

InsertInformation(l, rows) ==
  /\ InformationFree(l, rows)
  /\ tx' = [tx EXCEPT ![l].information =
                        NewRows(rows, snapshot_station_information)]

StatusFree(l, rows) ==
  \A k \in Others(l) : \A r \in rows, s \in tx[k].status : ~SameStation(r, s)

InsertStatus(l, rows) ==
  /\ StatusFree(l, rows)
  /\ tx' = [tx EXCEPT ![l].status = NewRows(rows, snapshot_station_status)]

------------------------------------------------------------------------------

\* The CTE "current": open rows as the statement sees them when it starts.
ReadCurrent(l, stations) ==
  tx' = [tx EXCEPT ![l].current =
           {r \in stations_scd : r.valid_to = Null /\ r.station \in stations}]

\* The CTE "changed": stations without an open row, or with one that differs.
Changed(l, spec) ==
  {s \in DOMAIN spec :
     LET rows == {r \in tx[l].current : r.station = s}
     IN rows = {} \/ \E r \in rows : r.spec # spec[s]}

SameScd(r, s) == r.station = s.station /\ r.valid_from = s.valid_from

ScdFree(l, rows) ==
  \A k \in Others(l) : \A r \in rows :
     /\ r \notin tx[k].closed
     /\ \A s \in tx[k].opened : ~SameScd(r, s)

\* What the statement is to close and to open.
Closing(l, spec) == {r \in tx[l].current : r.station \in Changed(l, spec)}
Opening(l, at, spec) ==
  {[station |-> s, valid_from |-> at, valid_to |-> Null, spec |-> spec[s]] :
     s \in Changed(l, spec)}

\* Mutant: a change opens a row and leaves the old one open.
MutWriteScdNoClose(l, at, spec) ==
  /\ ScdFree(l, Opening(l, at, spec))
  /\ tx' = [tx EXCEPT ![l].opened = Opening(l, at, spec)]

\* The CTEs "closed" and "opened".  A row closed by another transaction since
\* the statement read it is not closed again, and "changed" is not computed
\* again; an opened row gives way to one of its valid_from.
WriteScd(l, at, spec) ==
  /\ ScdFree(l, Closing(l, spec) \cup Opening(l, at, spec))
  /\ tx' = [tx EXCEPT ![l].current = {},
                      ![l].closed = Closing(l, spec) \cap stations_scd,
                      ![l].opened = {r \in Opening(l, at, spec) :
                        \A s \in stations_scd : ~SameScd(r, s)}]

------------------------------------------------------------------------------

\* Mutant: last_seen_at is overwritten.
MutSeenOverwrites(row, seen, active) ==
  [row EXCEPT !.last_seen_at = seen, !.last_active_at = Later(@, active)]

SeenAgain(row, seen, active) ==
  [row EXCEPT !.last_seen_at = Later(@, seen),
              !.last_active_at = Later(@, active)]

FirstSeen(seen, active) ==
  [first_seen_at |-> seen, last_seen_at |-> seen, last_active_at |-> active]

\* station_lifecycle, ON CONFLICT (station) DO UPDATE: stations is the set
\* upserted, seen and active give each one its times.  A row that another
\* transaction has written is waited for.
LifecycleFree(l, stations) ==
  \A k \in Others(l) : DOMAIN tx[k].lifecycle \cap stations = {}

UpsertLifecycleRows(l, stations, seen, active) ==
  /\ LifecycleFree(l, stations)
  /\ tx' = [tx EXCEPT ![l].lifecycle = [s \in stations |->
       IF s \in DOMAIN station_lifecycle
       THEN SeenAgain(station_lifecycle[s], seen[s], active[s])
       ELSE FirstSeen(seen[s], active[s])]]

WatermarkFree(l, feed) ==
  \A k \in Others(l) : feed \notin DOMAIN tx[k].watermarks

\* Mutant: as_of_ts is overwritten, without GREATEST.
MutUpsertWatermark(l, feed, at) ==
  /\ WatermarkFree(l, feed)
  /\ tx' = [tx EXCEPT ![l].watermarks = [f \in {feed} |-> at]]

\* dataset_watermarks, ON CONFLICT (dataset) DO UPDATE with GREATEST.
UpsertWatermarkRow(l, feed, at) ==
  /\ WatermarkFree(l, feed)
  /\ tx' = [tx EXCEPT ![l].watermarks = [f \in {feed} |->
       IF f \in DOMAIN dataset_watermarks
       THEN Later(dataset_watermarks[f], at) ELSE at]]

------------------------------------------------------------------------------

\* COMMIT; at is the valid_to of the rows the transaction closed.
CommitTx(l, at) ==
  LET t == tx[l]
  IN /\ raw_manifests' = raw_manifests \cup t.raw
     /\ logical_snapshots' = logical_snapshots \cup t.snapshots
     /\ snapshot_station_information' =
          snapshot_station_information \cup t.information
     /\ snapshot_station_status' = snapshot_station_status \cup t.status
     /\ stations_scd' = (stations_scd \ t.closed) \cup t.opened
                          \cup {[r EXCEPT !.valid_to = at] : r \in t.closed}
     /\ station_lifecycle' = Upserted(station_lifecycle, t.lifecycle)
     /\ dataset_watermarks' = Upserted(dataset_watermarks, t.watermarks)
     /\ tx' = [tx EXCEPT ![l] = NoWrites]

\* ROLLBACK, by the code or by the server when the connection is lost.
RollbackTx(l) == tx' = [tx EXCEPT ![l] = NoWrites] /\ UNCHANGED tables

=============================================================================
