---------------------------- MODULE GbfsLoaderProofs ----------------------------
(***************************************************************************)
(* What loading keeps for every archive, every number of loaders and every *)
(* number of faults.                                                       *)
(***************************************************************************)
EXTENDS GbfsLoader, FiniteSetTheorems, TLAPS

Fields == {"latest", "raw", "snapshots", "information", "status", "current",
           "closed", "opened", "lifecycle", "watermarks"}

\* What the model's functions are functions of.
Shape == /\ DOMAIN tx = Loaders /\ DOMAIN run = Loaders /\ DOMAIN pc = Loaders
         /\ \A l \in Loaders : DOMAIN tx[l] = Fields

LoadersAlone(l) == \A k \in Loaders \ {l} : tx'[k] = tx[k]

\* A statement that writes neither a raw manifest nor a snapshot.
KeepsWrites(l) == /\ DOMAIN tx' = Loaders /\ DOMAIN tx'[l] = Fields
                  /\ LoadersAlone(l)
                  /\ tx'[l].raw = tx[l].raw
                  /\ tx'[l].snapshots = tx[l].snapshots

\* ... nor a watermark.
KeepsMarks(l) == KeepsWrites(l) /\ tx'[l].watermarks = tx[l].watermarks

\* ReadLatest, the SELECT of the newest snapshot, is such a statement.
LEMMA ReadLatestKeeps ==
  ASSUME Shape, NEW l \in Loaders, NEW feed, ReadLatest(l, feed)
  PROVE  KeepsMarks(l)
BY DEF Shape, Fields, ReadLatest, KeepsMarks, KeepsWrites, LoadersAlone

\* So is the insert of information rows.
LEMMA InsertInformationKeeps ==
  ASSUME Shape, NEW l \in Loaders, NEW rows, InsertInformation(l, rows)
  PROVE  KeepsMarks(l)
BY DEF Shape, Fields, InsertInformation, KeepsMarks, KeepsWrites, LoadersAlone

\* So is the insert of status rows.
LEMMA InsertStatusKeeps ==
  ASSUME Shape, NEW l \in Loaders, NEW rows, InsertStatus(l, rows)
  PROVE  KeepsMarks(l)
BY DEF Shape, Fields, InsertStatus, KeepsMarks, KeepsWrites, LoadersAlone

\* So is the read of the open row.
LEMMA ReadCurrentKeeps ==
  ASSUME Shape, NEW l \in Loaders, NEW stations, ReadCurrent(l, stations)
  PROVE  KeepsMarks(l)
BY DEF Shape, Fields, ReadCurrent, KeepsMarks, KeepsWrites, LoadersAlone

\* So is the write of the history's rows.
LEMMA WriteScdKeeps ==
  ASSUME Shape, NEW l \in Loaders, NEW at, NEW spec, WriteScd(l, at, spec)
  PROVE  KeepsMarks(l)
BY DEF Shape, Fields, WriteScd, KeepsMarks, KeepsWrites, LoadersAlone

\* So is the upsert of the lifecycle.
LEMMA UpsertLifecycleKeeps ==
  ASSUME Shape, NEW l \in Loaders, NEW stations, NEW seen, NEW active,
         UpsertLifecycleRows(l, stations, seen, active)
  PROVE  KeepsMarks(l)
BY DEF Shape, Fields, UpsertLifecycleRows, KeepsMarks, KeepsWrites, LoadersAlone

\* The upsert of the watermark writes neither raw manifest nor snapshot.
LEMMA UpsertWatermarkKeeps ==
  ASSUME Shape, NEW l \in Loaders, NEW feed, NEW at,
         UpsertWatermarkRow(l, feed, at)
  PROVE  KeepsWrites(l)
BY DEF Shape, Fields, UpsertWatermarkRow, KeepsWrites, LoadersAlone

------------------------------------------------------------------------------
(* Every snapshot has its raw manifest.                                    *)

Taken(l) == SnapshotsOf(Key(l).feed, Key(l).at) # {}

Backed(l) == \E r \in raw_manifests \cup tx[l].raw : r.object = Key(l).object

\* What a loader has written, statement by statement: a raw manifest that was
\* skipped gave way to one of its object, or to one of its key whose snapshot
\* is there.
Written(l) ==
  /\ run[l] = <<>> => pc[l] = "open"
  /\ tx[l].raw \subseteq {Key(l)}
  /\ pc[l] \in {"open", "raw"} => tx[l].raw = {}
  /\ pc[l] \in {"open", "raw", "snapshot"} => tx[l].snapshots = {}
  /\ pc[l] = "snapshot" => Backed(l) \/ Taken(l)
  /\ pc[l] \notin {"open", "raw", "snapshot"} =>
       \/ tx[l].snapshots = {Key(l)} /\ Backed(l)
       \/ tx[l].snapshots = {} /\ Taken(l)

\* A raw manifest is committed with a snapshot of its key.
RawHasSnapshot == \A r \in raw_manifests : SnapshotsOf(r.feed, r.at) # {}

RawInv == /\ Shape /\ SnapshotHasRaw /\ RawHasSnapshot
          /\ \A l \in Loaders : Written(l)

CatalogAlone == UNCHANGED <<raw_manifests, logical_snapshots>>

\* The empty tables satisfy the invariant.
LEMMA InitRaw == Init => RawInv
BY DEF Init, TablesInit, NoWrites, RawInv, Shape, Fields, SnapshotHasRaw,
       RawHasSnapshot, Written

\* A step of one loader that commits nothing leaves the others' part alone.
LEMMA OthersWritten ==
  ASSUME RawInv, NEW l \in Loaders, Shape', LoadersAlone(l), CatalogAlone,
         \A k \in Loaders \ {l} : run'[k] = run[k] /\ pc'[k] = pc[k],
         Written(l)'
  PROVE  RawInv'
<1>1. SnapshotHasRaw' /\ RawHasSnapshot'
  BY DEF RawInv, SnapshotHasRaw, RawHasSnapshot, SnapshotsOf, CatalogAlone
<1>2. ASSUME NEW k \in Loaders \ {l} PROVE Written(k)'
  <2>1. Key(k)' = Key(k)
    BY DEF Key, M, At, PublisherLastUpdated
  <2>2. Taken(k)' <=> Taken(k)
    BY <2>1 DEF Taken, SnapshotsOf, CatalogAlone
  <2>3. Backed(k)' <=> Backed(k)
    BY <2>1 DEF Backed, CatalogAlone, LoadersAlone
  <2>. QED
    BY <2>1, <2>2, <2>3 DEF RawInv, Written, LoadersAlone
<1>. QED BY <1>1, <1>2 DEF RawInv

\* A statement after the snapshot's, and before COMMIT, keeps the invariant.
LEMMA LaterStatement ==
  ASSUME RawInv, NEW l \in Loaders, Loading(l, pc[l]), KeepsWrites(l),
         CatalogAlone, UNCHANGED run, NEW step, Goto(l, step),
         \/ pc[l] = "open" /\ step = "raw"
         \/ /\ pc[l] \notin {"open", "raw", "snapshot"}
            /\ step \notin {"open", "raw", "snapshot"}
  PROVE  RawInv'
<1>1. Shape'
  BY DEF RawInv, Shape, KeepsWrites, LoadersAlone, Goto
<1>2. pc'[l] = step /\ \A k \in Loaders \ {l} : pc'[k] = pc[k]
  BY DEF RawInv, Shape, Goto
<1>3. Key(l)' = Key(l)
  BY DEF Key, M, At, PublisherLastUpdated
<1>4. (Taken(l)' <=> Taken(l)) /\ (Backed(l)' <=> Backed(l))
  BY <1>3 DEF Taken, SnapshotsOf, Backed, CatalogAlone, KeepsWrites
<1>5. Written(l)'
  BY <1>2, <1>3, <1>4 DEF RawInv, Written, KeepsWrites, Loading
<1>. QED BY <1>1, <1>2, <1>5, OthersWritten DEF KeepsWrites

\* A loader at rest may be given any run.
LEMMA NewRun ==
  ASSUME RawInv, NEW l \in Loaders, run[l] = <<>>, UNCHANGED <<tx, pc>>,
         CatalogAlone, run' = run \/ \E s : run' = [run EXCEPT ![l] = s]
  PROVE  RawInv'
<1>1. Shape' /\ LoadersAlone(l) /\ \A k \in Loaders \ {l} : run'[k] = run[k]
  BY DEF RawInv, Shape, LoadersAlone
<1>2. pc[l] = "open" /\ tx[l].raw = {} /\ tx[l].snapshots = {}
  BY DEF RawInv, Written
<1>3. Written(l)'
  BY <1>2 DEF Written
<1>. QED BY <1>1, <1>3, OthersWritten

\* An end of the run with nothing written keeps the invariant.
LEMMA RunEnds ==
  ASSUME RawInv, NEW l \in Loaders, EndRun(l), CatalogAlone,
         LoadersAlone(l), DOMAIN tx' = Loaders, DOMAIN tx'[l] = Fields,
         tx'[l].raw = {}, tx'[l].snapshots = {}
  PROVE  RawInv'
<1>1. Shape' /\ \A k \in Loaders \ {l} : run'[k] = run[k] /\ pc'[k] = pc[k]
  BY DEF RawInv, Shape, LoadersAlone, EndRun, Goto
<1>2. pc'[l] = "open"
  BY DEF RawInv, Shape, EndRun, Goto
<1>3. Written(l)'
  BY <1>2 DEF Written
<1>. QED BY <1>1, <1>3, OthersWritten

\* The raw manifest is written, or skipped for one that is there.
LEMMA InsertRawStep ==
  ASSUME RawInv, NEW l \in Loaders, InsertRawManifest(l)
  PROVE  RawInv'
<1>. USE DEF InsertRawManifest, Loading
<1>1. /\ Shape' /\ LoadersAlone(l) /\ CatalogAlone
      /\ \A k \in Loaders \ {l} : run'[k] = run[k] /\ pc'[k] = pc[k]
  BY DEF RawInv, Shape, Fields, LoadersAlone, CatalogAlone, Goto, InsertRaw, tables
<1>2. pc'[l] = "snapshot" /\ Key(l)' = Key(l)
  BY DEF RawInv, Shape, Goto, Key, M, At, PublisherLastUpdated
<1>3. tx[l].raw = {} /\ tx[l].snapshots = {}
  BY DEF RawInv, Written
<1>4. tx'[l].snapshots = {} /\ tx'[l].raw \subseteq {Key(l)}
  BY <1>3 DEF RawInv, Shape, Fields, InsertRaw
<1>5. Backed(l)' \/ Taken(l)'
  <2>1. CASE \E r \in raw_manifests : SameRaw(r, Key(l))
    <3>1. PICK r \in raw_manifests : SameRaw(r, Key(l))
      BY <2>1
    <3>2. CASE r.object = Key(l).object
      BY <3>2, <1>1, <1>2 DEF Backed, CatalogAlone
    <3>3. CASE r.feed = Key(l).feed /\ r.at = Key(l).at
      BY <3>3, <1>1, <1>2
      DEF RawInv, RawHasSnapshot, Taken, SnapshotsOf, CatalogAlone
    <3>. QED BY <3>1, <3>2, <3>3 DEF SameRaw
  <2>2. CASE ~\E r \in raw_manifests : SameRaw(r, Key(l))
    <3>1. tx'[l].raw = {Key(l)}
      BY <2>2 DEF RawInv, Shape, Fields, InsertRaw
    <3>. QED BY <3>1, <1>2 DEF Backed
  <2>. QED BY <2>1, <2>2
<1>6. Written(l)'
  BY <1>2, <1>4, <1>5 DEF Written
<1>. QED BY <1>1, <1>6, OthersWritten

\* The snapshot is written, or is there already.
LEMMA InsertSnapshotStep ==
  ASSUME RawInv, NEW l \in Loaders, InsertLogicalSnapshot(l)
  PROVE  RawInv'
<1>. USE DEF InsertLogicalSnapshot, Loading
<1>1. /\ Shape' /\ LoadersAlone(l) /\ CatalogAlone
      /\ \A k \in Loaders \ {l} : run'[k] = run[k] /\ pc'[k] = pc[k]
  BY DEF RawInv, Shape, Fields, LoadersAlone, CatalogAlone, Goto,
         InsertSnapshot, tables
<1>2. pc'[l] \in {"commit", "rows"} /\ Key(l)' = Key(l)
  BY DEF RawInv, Shape, Goto, Key, M, At, PublisherLastUpdated
<1>3. tx[l].snapshots = {} /\ (Backed(l) \/ Taken(l)) /\ tx[l].raw \subseteq {Key(l)}
  BY DEF RawInv, Written
<1>4. tx'[l].raw = tx[l].raw
  BY DEF RawInv, Shape, Fields, InsertSnapshot
<1>5. (Taken(l)' <=> Taken(l)) /\ (Backed(l)' <=> Backed(l))
  BY <1>1, <1>2, <1>4 DEF Taken, SnapshotsOf, Backed, CatalogAlone
<1>6. tx'[l].snapshots = IF Taken(l) THEN {} ELSE {Key(l)}
  BY <1>3 DEF RawInv, Shape, Fields, InsertSnapshot, Taken
<1>7. Written(l)'
  BY <1>2, <1>3, <1>4, <1>5, <1>6 DEF Written
<1>. QED BY <1>1, <1>7, OthersWritten

\* COMMIT brings a snapshot only with its raw manifest, and the other way round.
LEMMA CommitStep ==
  ASSUME RawInv, NEW l \in Loaders, Commit(l)
  PROVE  RawInv'
<1>. USE DEF Commit, Loading
<1>1. /\ Shape' /\ LoadersAlone(l)
      /\ tx'[l].raw = {} /\ tx'[l].snapshots = {}
      /\ \A k \in Loaders \ {l} : run'[k] = run[k] /\ pc'[k] = pc[k]
      /\ pc'[l] = "open"
  BY DEF RawInv, Shape, Fields, LoadersAlone, Goto, CommitTx, NoWrites
<1>2. /\ raw_manifests' = raw_manifests \cup tx[l].raw
      /\ logical_snapshots' = logical_snapshots \cup tx[l].snapshots
  BY DEF CommitTx
<1>3. /\ tx[l].raw \subseteq {Key(l)}
      /\ \/ tx[l].snapshots = {Key(l)} /\ Backed(l)
         \/ tx[l].snapshots = {} /\ Taken(l)
  BY DEF RawInv, Written
<1>4. SnapshotHasRaw'
  BY <1>2, <1>3 DEF RawInv, SnapshotHasRaw, Backed
<1>5. RawHasSnapshot'
  BY <1>2, <1>3 DEF RawInv, RawHasSnapshot, SnapshotsOf, Taken
<1>6. ASSUME NEW k \in Loaders \ {l} PROVE Written(k)'
  <2>1. Key(k)' = Key(k) /\ tx'[k] = tx[k]
    BY <1>1 DEF Key, M, At, PublisherLastUpdated, LoadersAlone
  <2>2. (Taken(k) => Taken(k)') /\ (Backed(k) => Backed(k)')
    BY <2>1, <1>2 DEF Taken, SnapshotsOf, Backed
  <2>. QED BY <1>1, <2>1, <2>2 DEF RawInv, Written
<1>7. Written(l)'
  BY <1>1 DEF Written
<1>. QED BY <1>1, <1>4, <1>5, <1>6, <1>7 DEF RawInv

\* Every step keeps the invariant.
LEMMA NextRaw == RawInv /\ [Next]_vars => RawInv'
<1>. SUFFICES ASSUME RawInv, [Next]_vars PROVE RawInv'
  OBVIOUS
<1>1. CASE UNCHANGED vars
  BY <1>1 DEF vars, tables, RawInv, Shape, SnapshotHasRaw, RawHasSnapshot,
     SnapshotsOf, Written, Taken, Backed, Key, M, At, PublisherLastUpdated
<1>2. ASSUME NEW l \in Loaders, Collect(l) PROVE RawInv'
  BY <1>2, NewRun DEF Collect, tables, CatalogAlone
<1>3. ASSUME NEW l \in Loaders, LoadAll(l) PROVE RawInv'
  BY <1>3, NewRun DEF LoadAll, tables, CatalogAlone
<1>4. ASSUME NEW l \in Loaders, Fault(l) PROVE RawInv'
  <2>1. /\ LoadersAlone(l) /\ CatalogAlone /\ EndRun(l)
        /\ DOMAIN tx' = Loaders /\ tx'[l] = NoWrites
    BY <1>4 DEF Fault, RollbackTx, tables, CatalogAlone, LoadersAlone,
       RawInv, Shape
  <2>2. DOMAIN NoWrites = Fields /\ NoWrites.raw = {} /\ NoWrites.snapshots = {}
    BY DEF NoWrites, Fields
  <2>. QED BY <2>1, <2>2, RunEnds
<1>5. ASSUME NEW l \in Loaders, Begin(l) PROVE RawInv'
  <2>1. pc[l] = "open" /\ Loading(l, pc[l]) /\ CatalogAlone
    BY <1>5 DEF Begin, Loading, tables, CatalogAlone
  <2>2. CASE EndRun(l) /\ UNCHANGED tx
    <3>1. tx[l].raw = {} /\ tx[l].snapshots = {} /\ LoadersAlone(l)
      BY <2>1, <2>2 DEF RawInv, Written, LoadersAlone
    <3>. QED BY <2>1, <2>2, <3>1, RunEnds DEF RawInv, Shape
  <2>3. CASE ReadLatest(l, M(l).feed) /\ Goto(l, "raw") /\ UNCHANGED run
    <3>1. KeepsWrites(l)
      BY <2>3, ReadLatestKeeps DEF RawInv, KeepsMarks
    <3>. QED BY <2>1, <2>3, <3>1, LaterStatement
  <2>. QED BY <1>5, <2>2, <2>3 DEF Begin
<1>6. ASSUME NEW l \in Loaders, InsertRawManifest(l) PROVE RawInv'
  BY <1>6, InsertRawStep
<1>7. ASSUME NEW l \in Loaders, InsertLogicalSnapshot(l) PROVE RawInv'
  BY <1>7, InsertSnapshotStep
<1>8. ASSUME NEW l \in Loaders, InsertRows(l) PROVE RawInv'
  <2>1. pc[l] = "rows" /\ Loading(l, pc[l]) /\ CatalogAlone /\ UNCHANGED run
    BY <1>8 DEF InsertRows, Loading, tables, CatalogAlone
  <2>2. CASE Goto(l, "watermark") /\ UNCHANGED tx
    <3>1. KeepsWrites(l)
      BY <2>2 DEF RawInv, Shape, KeepsWrites, LoadersAlone
    <3>. QED BY <2>1, <2>2, <3>1, LaterStatement
  <2>3. ASSUME NEW rows, InsertInformation(l, rows), Goto(l, "current")
        PROVE  RawInv'
    <3>1. KeepsWrites(l)
      BY <2>3, InsertInformationKeeps DEF RawInv, KeepsMarks
    <3>. QED BY <2>1, <2>3, <3>1, LaterStatement
  <2>4. ASSUME NEW rows, InsertStatus(l, rows), Goto(l, "lifecycle")
        PROVE  RawInv'
    <3>1. KeepsWrites(l)
      BY <2>4, InsertStatusKeeps DEF RawInv, KeepsMarks
    <3>. QED BY <2>1, <2>4, <3>1, LaterStatement
  <2>. QED BY <1>8, <2>2, <2>3, <2>4 DEF InsertRows
<1>9. ASSUME NEW l \in Loaders, SelectCurrent(l) PROVE RawInv'
  <2>1. /\ pc[l] = "current" /\ Loading(l, pc[l]) /\ Goto(l, "scd")
        /\ CatalogAlone /\ UNCHANGED run
        /\ ReadCurrent(l, DOMAIN RowsOf(l))
    BY <1>9 DEF SelectCurrent, Loading, tables, CatalogAlone
  <2>2. KeepsWrites(l)
    BY <2>1, ReadCurrentKeeps DEF RawInv, KeepsMarks
  <2>. QED BY <2>1, <2>2, LaterStatement
<1>10. ASSUME NEW l \in Loaders, WriteStationsScd(l) PROVE RawInv'
  <2>1. /\ pc[l] = "scd" /\ Loading(l, pc[l]) /\ Goto(l, "lifecycle")
        /\ CatalogAlone /\ UNCHANGED run
        /\ WriteScd(l, At(l), RowsOf(l))
    BY <1>10 DEF WriteStationsScd, Loading, tables, CatalogAlone
  <2>2. KeepsWrites(l)
    BY <2>1, WriteScdKeeps DEF RawInv, KeepsMarks
  <2>. QED BY <2>1, <2>2, LaterStatement
<1>11. ASSUME NEW l \in Loaders, UpsertLifecycle(l) PROVE RawInv'
  <2>1. /\ pc[l] = "lifecycle" /\ Loading(l, pc[l]) /\ Goto(l, "watermark")
        /\ CatalogAlone /\ UNCHANGED run
        /\ \E stations, seen, active :
             UpsertLifecycleRows(l, stations, seen, active)
    BY <1>11 DEF UpsertLifecycle, Loading, tables, CatalogAlone
  <2>2. KeepsWrites(l)
    BY <2>1, UpsertLifecycleKeeps DEF RawInv, KeepsMarks
  <2>. QED BY <2>1, <2>2, LaterStatement
<1>12. ASSUME NEW l \in Loaders, UpsertDatasetWatermark(l) PROVE RawInv'
  <2>1. /\ pc[l] = "watermark" /\ Loading(l, pc[l]) /\ Goto(l, "commit")
        /\ CatalogAlone /\ UNCHANGED run
        /\ UpsertWatermarkRow(l, M(l).feed, At(l))
    BY <1>12 DEF UpsertDatasetWatermark, Loading, tables, CatalogAlone
  <2>2. KeepsWrites(l)
    BY <2>1, UpsertWatermarkKeeps DEF RawInv
  <2>. QED BY <2>1, <2>2, LaterStatement
<1>13. ASSUME NEW l \in Loaders, Commit(l) PROVE RawInv'
  BY <1>13, CommitStep
<1>. QED
  BY <1>1, <1>2, <1>3, <1>4, <1>5, <1>6, <1>7, <1>8, <1>9, <1>10, <1>11,
     <1>12, <1>13 DEF Next, Step

\* Every committed snapshot is of an object raw_manifests records, for all
\* archives, loaders, overlaps and faults (loader.ts:739-763, 863-878).
THEOREM SnapshotsBacked == Spec => []SnapshotHasRaw
<1>1. RawInv => SnapshotHasRaw
  BY DEF RawInv
<1>. QED BY InitRaw, NextRaw, <1>1, PTL DEF Spec

------------------------------------------------------------------------------
(* The watermark is the newest snapshot.                                   *)

\* The runs are over archived manifests; one that failed is never loaded.
ArchiveInv == /\ archived \subseteq Manifests
              /\ run \in [Loaders -> Seq(Manifests)]
              /\ \A l \in Loaders : pc[l] # "open" =>
                   run[l] # <<>> /\ M(l).object # NoObject

\* Any order of a finite set is a sequence of its elements.
LEMMA OrdersAreSeqs ==
  ASSUME NEW S, IsFiniteSet(S), NEW T, S \subseteq T, NEW s \in SetToSeqs(S)
  PROVE  s \in Seq(T)
<1>1. Cardinality(S) \in Nat
  BY FS_CardinalityType
<1>2. s \in [1..Cardinality(S) -> T]
  BY DEF SetToSeqs
<1>. QED BY <1>1, <1>2

\* What is loaded is an object of its feed and has a time.
LEMMA LoadedTyped ==
  ASSUME ArchiveInv, NEW l \in Loaders, pc[l] # "open"
  PROVE  /\ M(l).feed \in Feeds /\ At(l) \in Times /\ At(l) \in Nat
         /\ M(l).object \in Objects /\ M(l).object.feed = M(l).feed
<1>1. run[l] \in Seq(Manifests) /\ run[l] # <<>>
  BY DEF ArchiveInv
<1>2. M(l) \in Manifests
  BY <1>1 DEF M
<1>3. M(l).object \in Objects /\ M(l).collected \in Times
  BY <1>2, GbfsLoaderAssumption DEF ArchiveInv
<1>4. M(l).object.publisher \in Times \cup {Null}
  BY <1>3, GbfsLoaderAssumption
<1>. QED
  BY <1>2, <1>3, <1>4, GbfsLoaderAssumption, GbfsTablesAssumption
  DEF At, PublisherLastUpdated

\* The runs stay over archived manifests.
LEMMA NextArchive == ArchiveInv /\ Shape /\ [Next]_vars => ArchiveInv'
<1>. SUFFICES ASSUME ArchiveInv, Shape, [Next]_vars PROVE ArchiveInv'
  OBVIOUS
<1>. USE DEF ArchiveInv
<1>1. CASE UNCHANGED vars
  BY <1>1 DEF vars, M
<1>2. ASSUME NEW l \in Loaders, Collect(l) PROVE ArchiveInv'
  <2>1. PICK batch \in SUBSET {m \in Manifests : m.collected = cycle + 1} :
          /\ run[l] = <<>>
          /\ archived' = archived \cup batch
          /\ \/ run' = run
             \/ \E s \in SetToSeqs(batch) : run' = [run EXCEPT ![l] = s]
    BY <1>2 DEF Collect
  <2>2. IsFiniteSet(batch)
    BY FS_Subset, GbfsLoaderAssumption
  <2>3. \A s \in SetToSeqs(batch) : s \in Seq(Manifests)
    BY <2>2, OrdersAreSeqs
  <2>4. run' \in [Loaders -> Seq(Manifests)]
    BY <2>1, <2>3
  <2>. QED BY <1>2, <2>1, <2>4 DEF Collect, M
<1>3. ASSUME NEW l \in Loaders, LoadAll(l) PROVE ArchiveInv'
  <2>1. PICK named \in SUBSET archived :
          \E s \in SetToSeqs(named) : run' = [run EXCEPT ![l] = s]
    BY <1>3 DEF LoadAll
  <2>2. IsFiniteSet(named) /\ named \subseteq Manifests
    BY FS_Subset, GbfsLoaderAssumption
  <2>3. \A s \in SetToSeqs(named) : s \in Seq(Manifests)
    BY <2>2, OrdersAreSeqs
  <2>4. run' \in [Loaders -> Seq(Manifests)]
        /\ \A k \in Loaders \ {l} : run'[k] = run[k]
    BY <2>1, <2>3
  <2>. QED BY <1>3, <2>4 DEF LoadAll, M
<1>4. ASSUME NEW l \in Loaders, Fault(l) PROVE ArchiveInv'
  BY <1>4 DEF Fault, EndRun, Goto, M, Shape
<1>5. ASSUME NEW l \in Loaders, Begin(l) PROVE ArchiveInv'
  <2>1. CASE EndRun(l)
    BY <1>5, <2>1 DEF Begin, EndRun, Goto, M, Shape
  <2>2. CASE M(l).object # NoObject /\ Goto(l, "raw") /\ UNCHANGED run
    BY <1>5, <2>2 DEF Begin, Loading, Goto, M, Shape
  <2>. QED BY <1>5, <2>1, <2>2 DEF Begin
<1>6. ASSUME NEW l \in Loaders, Commit(l) PROVE ArchiveInv'
  <2>1. Tail(run[l]) \in Seq(Manifests)
    BY <1>6 DEF Commit, Loading
  <2>. QED BY <1>6, <2>1 DEF Commit, Goto, M, Shape
<1>7. ASSUME NEW l \in Loaders, pc[l] # "open", UNCHANGED <<archived, run>>,
             NEW step, Goto(l, step)
      PROVE  ArchiveInv'
  BY <1>7 DEF Goto, M, Shape
<1>8. ASSUME NEW l \in Loaders,
             \/ InsertRawManifest(l) \/ InsertLogicalSnapshot(l) \/ InsertRows(l)
             \/ SelectCurrent(l) \/ WriteStationsScd(l) \/ UpsertLifecycle(l)
             \/ UpsertDatasetWatermark(l)
      PROVE  ArchiveInv'
  BY <1>7, <1>8 DEF InsertRawManifest, InsertLogicalSnapshot, InsertRows,
     SelectCurrent, WriteStationsScd, UpsertLifecycle, UpsertDatasetWatermark,
     Loading
<1>. QED
  BY <1>1, <1>2, <1>3, <1>4, <1>5, <1>6, <1>8 DEF Next, Step

\* The row UpsertWatermarkRow writes.
Mark(l) == [f \in {M(l).feed} |->
              IF f \in DOMAIN dataset_watermarks
              THEN Later(dataset_watermarks[f], At(l)) ELSE At(l)]

\* A load that commits a snapshot holds the watermark of its feed, up to date.
Marked(l) ==
  IF pc[l] = "commit"
  THEN \/ tx[l].watermarks = <<>> /\ tx[l].snapshots = {}
       \/ tx[l].watermarks = Mark(l)
  ELSE tx[l].watermarks = <<>>

\* No two loads hold the watermark of one feed.
MarksApart ==
  \A k, l \in Loaders :
    k # l => DOMAIN tx[k].watermarks \cap DOMAIN tx[l].watermarks = {}

SnapshotsTyped == \A s \in logical_snapshots : s.feed \in Feeds /\ s.at \in Nat

Base == RawInv /\ ArchiveInv

WatermarkInv == /\ Base /\ SnapshotsTyped /\ WatermarkIsNewest
                /\ MarksApart /\ \A l \in Loaders : Marked(l)

\* The empty tables satisfy the invariant.
LEMMA InitWatermark == Init => WatermarkInv
<1>. SUFFICES ASSUME Init PROVE WatermarkInv
  OBVIOUS
<1>1. Base
  BY InitRaw DEF Base, Init, ArchiveInv
<1>2. \A l \in Loaders : tx[l].watermarks = <<>> /\ pc[l] = "open"
  BY DEF Init, TablesInit, NoWrites
<1>3. DOMAIN dataset_watermarks = {} /\ logical_snapshots = {}
  BY DEF Init, TablesInit
<1>. QED
  BY <1>1, <1>2, <1>3 DEF WatermarkInv, SnapshotsTyped, WatermarkIsNewest,
     MarksApart, Marked

\* A step of one loader that commits nothing and takes no watermark.
LEMMA MarkStays ==
  ASSUME WatermarkInv, Base', NEW l \in Loaders, LoadersAlone(l),
         UNCHANGED <<logical_snapshots, dataset_watermarks>>,
         \A k \in Loaders \ {l} : run'[k] = run[k] /\ pc'[k] = pc[k],
         tx'[l].watermarks = <<>>, pc'[l] = "commit" => tx'[l].snapshots = {}
  PROVE  WatermarkInv'
<1>1. SnapshotsTyped' /\ WatermarkIsNewest'
  BY DEF WatermarkInv, SnapshotsTyped, WatermarkIsNewest
<1>2. MarksApart'
  BY DEF WatermarkInv, MarksApart, LoadersAlone
<1>3. Marked(l)'
  BY DEF Marked
<1>4. ASSUME NEW k \in Loaders \ {l} PROVE Marked(k)'
  <2>1. Mark(k)' = Mark(k)
    BY DEF Mark, M, At, PublisherLastUpdated
  <2>. QED BY <2>1 DEF WatermarkInv, Marked, LoadersAlone
<1>. QED BY <1>1, <1>2, <1>3, <1>4 DEF WatermarkInv

\* The watermark is taken by a load that nobody else keeps it from.
LEMMA TakeMark ==
  ASSUME WatermarkInv, Base', NEW l \in Loaders, UpsertDatasetWatermark(l)
  PROVE  WatermarkInv'
<1>. USE DEF UpsertDatasetWatermark, UpsertWatermarkRow, WatermarkFree, Loading, tables
<1>1. Shape /\ l \in DOMAIN tx /\ "watermarks" \in DOMAIN tx[l]
  BY DEF WatermarkInv, Base, RawInv, Shape, Fields
<1>2. tx'[l].watermarks = Mark(l) /\ LoadersAlone(l)
  BY <1>1 DEF Mark, LoadersAlone
<1>3. pc'[l] = "commit" /\ \A k \in Loaders \ {l} : pc'[k] = pc[k]
  BY <1>1 DEF Shape, Goto
<1>4. \A k \in Loaders : Mark(k)' = Mark(k)
  BY DEF Mark, M, At, PublisherLastUpdated
<1>5. SnapshotsTyped' /\ WatermarkIsNewest'
  BY DEF WatermarkInv, SnapshotsTyped, WatermarkIsNewest
<1>6. MarksApart'
  BY <1>2 DEF WatermarkInv, MarksApart, LoadersAlone, Others, Mark
<1>7. \A k \in Loaders : Marked(k)'
  BY <1>2, <1>3, <1>4 DEF WatermarkInv, Marked, LoadersAlone
<1>. QED BY <1>5, <1>6, <1>7 DEF WatermarkInv

\* COMMIT publishes a snapshot and its watermark together.
LEMMA CommitMark ==
  ASSUME WatermarkInv, Base', NEW l \in Loaders, Commit(l)
  PROVE  WatermarkInv'
<1>. USE DEF Commit, Loading
<1>. DEFINE f0 == M(l).feed
            marks == tx[l].watermarks
<1>1. Shape /\ Written(l) /\ Marked(l)
  BY DEF WatermarkInv, Base, RawInv
<1>2. /\ logical_snapshots' = logical_snapshots \cup tx[l].snapshots
      /\ DOMAIN dataset_watermarks' = DOMAIN dataset_watermarks \cup DOMAIN marks
      /\ \A f \in DOMAIN marks : dataset_watermarks'[f] = marks[f]
      /\ \A f \in DOMAIN dataset_watermarks \ DOMAIN marks :
           dataset_watermarks'[f] = dataset_watermarks[f]
  BY DEF CommitTx, Upserted
<1>3. /\ LoadersAlone(l) /\ tx'[l].watermarks = <<>> /\ pc'[l] = "open"
      /\ \A k \in Loaders \ {l} : run'[k] = run[k] /\ pc'[k] = pc[k]
  BY <1>1 DEF Shape, LoadersAlone, CommitTx, NoWrites, Goto
<1>4. f0 \in Feeds /\ At(l) \in Nat
  BY LoadedTyped DEF WatermarkInv, Base
<1>5. \/ tx[l].snapshots = {} /\ DOMAIN marks = {}
      \/ /\ marks = Mark(l)
         /\ \/ tx[l].snapshots = {Key(l)}
            \/ tx[l].snapshots = {} /\ Taken(l)
  BY <1>1 DEF Written, Marked
<1>6. SnapshotsTyped'
  BY <1>2, <1>4, <1>5 DEF WatermarkInv, SnapshotsTyped, Key
<1>7. ASSUME NEW k \in Loaders \ {l} PROVE Marked(k)'
  <2>1. DOMAIN tx[k].watermarks \cap DOMAIN marks = {}
    BY DEF WatermarkInv, MarksApart
  <2>2. CASE tx[k].watermarks = Mark(k)
    <3>1. M(k).feed \notin DOMAIN marks
      BY <2>1, <2>2 DEF Mark
    <3>2. Mark(k)' = Mark(k)
      BY <3>1, <1>2, <1>3 DEF Mark, M, At, PublisherLastUpdated
    <3>. QED BY <2>2, <3>2, <1>3 DEF WatermarkInv, Marked, LoadersAlone
  <2>3. CASE tx[k].watermarks # Mark(k)
    BY <2>3, <1>3 DEF WatermarkInv, Marked, LoadersAlone
  <2>. QED BY <2>2, <2>3
<1>8. Marked(l)' /\ MarksApart'
  BY <1>3 DEF Marked, MarksApart, WatermarkInv, LoadersAlone
<1>9. WatermarkIsNewest'
  <2>. SUFFICES ASSUME NEW f \in Feeds
                PROVE  LET ats == {s.at : s \in {t \in logical_snapshots' : t.feed = f}}
                           dw == dataset_watermarks'
                       IN /\ f \in DOMAIN dw <=> ats # {}
                          /\ f \in DOMAIN dw =>
                               dw[f] \in ats /\ \A a \in ats : a <= dw[f]
    BY DEF WatermarkIsNewest
  <2>. DEFINE ats == {s.at : s \in {t \in logical_snapshots : t.feed = f}}
              after == {s.at : s \in {t \in logical_snapshots' : t.feed = f}}
  <2>1. /\ f \in DOMAIN dataset_watermarks <=> ats # {}
        /\ f \in DOMAIN dataset_watermarks =>
             /\ dataset_watermarks[f] \in ats
             /\ \A a \in ats : a <= dataset_watermarks[f]
    BY DEF WatermarkInv, WatermarkIsNewest
  <2>2. ats \subseteq Nat
    BY DEF WatermarkInv, SnapshotsTyped
  <2>3. CASE f # f0 \/ DOMAIN marks = {}
    <3>1. f \notin DOMAIN marks
      BY <2>3, <1>5 DEF Mark
    <3>2. \A s \in tx[l].snapshots : s.feed # f
      BY <2>3, <1>5 DEF Mark, Key
    <3>3. after = ats
      BY <3>2, <1>2
    <3>. QED BY <2>1, <3>1, <3>3, <1>2
  <2>4. CASE f = f0 /\ marks = Mark(l)
    <3>1. after = ats \cup {At(l)}
      <4>1. DOMAIN marks # {}
        BY <2>4 DEF Mark
      <4>2. CASE tx[l].snapshots = {Key(l)}
        <5>1. Key(l).feed = f /\ Key(l).at = At(l)
          BY <2>4 DEF Key
        <5>. QED BY <4>2, <5>1, <1>2
      <4>3. CASE tx[l].snapshots = {} /\ Taken(l)
        <5>1. PICK s \in logical_snapshots : s.feed = f /\ s.at = At(l)
          BY <2>4, <4>3 DEF Taken, SnapshotsOf, Key
        <5>. QED BY <4>3, <5>1, <1>2
      <4>. QED BY <4>1, <4>2, <4>3, <1>5
    <3>2. /\ f \in DOMAIN marks
          /\ marks[f] = IF f \in DOMAIN dataset_watermarks
                        THEN Later(dataset_watermarks[f], At(l)) ELSE At(l)
      BY <2>4 DEF Mark
    <3>3. f \in DOMAIN dataset_watermarks' /\ dataset_watermarks'[f] = marks[f]
      BY <3>2, <1>2
    <3>. HIDE DEF ats, after, marks
    <3>4. CASE f \in DOMAIN dataset_watermarks
      <4>1. dataset_watermarks[f] \in Nat
        BY <3>4, <2>1, <2>2
      <4>2. /\ marks[f] \in {dataset_watermarks[f], At(l)}
            /\ dataset_watermarks[f] <= marks[f] /\ At(l) <= marks[f]
        BY <3>2, <3>4, <4>1, <1>4 DEF Later
      <4>3. \A a \in ats : a <= marks[f]
        BY <4>1, <4>2, <2>1, <2>2, <3>4, <1>4
      <4>4. marks[f] \in after /\ \A a \in after : a <= marks[f]
        BY <3>1, <3>4, <4>2, <4>3, <2>1
      <4>. QED BY <3>3, <4>4 DEF after
    <3>5. CASE f \notin DOMAIN dataset_watermarks
      <4>1. after = {At(l)} /\ marks[f] = At(l)
        BY <3>1, <3>2, <3>5, <2>1
      <4>2. marks[f] \in after /\ \A a \in after : a <= marks[f]
        BY <4>1, <1>4
      <4>. QED BY <3>3, <4>2 DEF after
    <3>. QED BY <3>4, <3>5
  <2>. QED BY <2>3, <2>4, <1>5
<1>. QED BY <1>6, <1>7, <1>8, <1>9 DEF WatermarkInv

\* Every step keeps the invariant.
LEMMA NextWatermark == WatermarkInv /\ [Next]_vars => WatermarkInv'
<1>. SUFFICES ASSUME WatermarkInv, [Next]_vars PROVE WatermarkInv'
  OBVIOUS
<1>0. /\ Base /\ Base' /\ RawInv /\ Shape
      /\ \A l \in Loaders : Written(l) /\ Marked(l)
  BY NextRaw, NextArchive DEF WatermarkInv, Base, RawInv
<1>. USE <1>0
<1>1. CASE UNCHANGED vars
  <2>1. \A l \in Loaders : Marked(l)' <=> Marked(l)
    BY <1>1 DEF vars, tables, Marked, Mark, M, At, PublisherLastUpdated
  <2>. QED
    BY <1>1, <2>1 DEF vars, tables, WatermarkInv, SnapshotsTyped,
       WatermarkIsNewest, MarksApart
<1>2. ASSUME NEW l \in Loaders, Collect(l) \/ LoadAll(l) PROVE WatermarkInv'
  <2>1. /\ run[l] = <<>> /\ UNCHANGED <<tx, pc, tables>>
        /\ run' = run \/ \E s : run' = [run EXCEPT ![l] = s]
    BY <1>2 DEF Collect, LoadAll
  <2>2. pc[l] = "open" /\ tx[l].watermarks = <<>>
    BY <2>1 DEF Written, Marked
  <2>. QED BY <2>1, <2>2, MarkStays DEF tables, LoadersAlone, Shape
<1>3. ASSUME NEW l \in Loaders, Fault(l) PROVE WatermarkInv'
  <2>1. /\ LoadersAlone(l) /\ UNCHANGED tables /\ tx'[l] = NoWrites
        /\ pc'[l] = "open"
        /\ \A k \in Loaders \ {l} : run'[k] = run[k] /\ pc'[k] = pc[k]
    BY <1>3 DEF Fault, RollbackTx, EndRun, Goto, LoadersAlone, Shape
  <2>2. NoWrites.watermarks = <<>>
    BY DEF NoWrites
  <2>. QED BY <2>1, <2>2, MarkStays DEF tables
<1>4. ASSUME NEW l \in Loaders, UNCHANGED tables, KeepsMarks(l), pc[l] # "commit",
             NEW step, Goto(l, step), UNCHANGED run \/ EndRun(l),
             step = "commit" => tx'[l].snapshots = {}
      PROVE  WatermarkInv'
  <2>1. /\ pc'[l] = step
        /\ \A k \in Loaders \ {l} : run'[k] = run[k] /\ pc'[k] = pc[k]
    BY <1>4 DEF Goto, EndRun, Shape
  <2>2. tx'[l].watermarks = <<>> /\ LoadersAlone(l)
    BY <1>4 DEF Marked, KeepsMarks, KeepsWrites
  <2>. QED BY <1>4, <2>1, <2>2, MarkStays DEF tables
<1>5. ASSUME NEW l \in Loaders, UNCHANGED tx PROVE KeepsMarks(l)
  BY <1>5 DEF KeepsMarks, KeepsWrites, LoadersAlone, Shape
<1>6. ASSUME NEW l \in Loaders, Begin(l) PROVE WatermarkInv'
  <2>1. CASE EndRun(l) /\ UNCHANGED tx
    BY <1>4, <1>5, <1>6, <2>1 DEF Begin, Loading, EndRun
  <2>2. CASE ReadLatest(l, M(l).feed) /\ Goto(l, "raw") /\ UNCHANGED run
    BY <1>4, <1>6, <2>2, ReadLatestKeeps DEF Begin, Loading
  <2>. QED BY <1>6, <2>1, <2>2 DEF Begin
<1>7. ASSUME NEW l \in Loaders, InsertRawManifest(l) PROVE WatermarkInv'
  <2>1. LoadersAlone(l) /\ tx'[l].watermarks = tx[l].watermarks
    BY <1>7 DEF InsertRawManifest, InsertRaw, LoadersAlone, Shape, Fields
  <2>2. /\ pc[l] = "raw" /\ pc'[l] = "snapshot" /\ UNCHANGED <<tables, run>>
        /\ \A k \in Loaders \ {l} : pc'[k] = pc[k]
    BY <1>7 DEF InsertRawManifest, Loading, Goto, Shape
  <2>3. LoadersAlone(l) /\ tx'[l].watermarks = <<>>
    BY <2>1, <2>2 DEF Marked
  <2>. QED BY <2>2, <2>3, MarkStays DEF tables
<1>8. ASSUME NEW l \in Loaders, InsertLogicalSnapshot(l) PROVE WatermarkInv'
  <2>1. /\ pc[l] = "snapshot" /\ UNCHANGED <<tables, run>>
        /\ \A k \in Loaders \ {l} : pc'[k] = pc[k]
        /\ pc'[l] = "commit" => Taken(l)
    BY <1>8 DEF InsertLogicalSnapshot, Loading, Goto, Shape, Taken, Key
  <2>2. LoadersAlone(l) /\ tx'[l].watermarks = tx[l].watermarks
    BY <1>8 DEF InsertLogicalSnapshot, InsertSnapshot, LoadersAlone, Shape, Fields
  <2>3. Taken(l) => UNCHANGED tx
    BY <1>8 DEF InsertLogicalSnapshot, InsertSnapshot, Taken
  <2>4. tx'[l].watermarks = <<>> /\ (pc'[l] = "commit" => tx'[l].snapshots = {})
    BY <2>1, <2>2, <2>3 DEF Marked, Written
  <2>. QED BY <2>1, <2>2, <2>4, MarkStays DEF tables
<1>9. ASSUME NEW l \in Loaders, InsertRows(l) PROVE WatermarkInv'
  <2>1. pc[l] = "rows" /\ UNCHANGED <<tables, run>>
    BY <1>9 DEF InsertRows, Loading
  <2>2. CASE Goto(l, "watermark") /\ UNCHANGED tx
    BY <1>4, <1>5, <2>1, <2>2
  <2>3. ASSUME NEW rows, InsertInformation(l, rows), Goto(l, "current")
        PROVE  WatermarkInv'
    BY <1>4, <2>1, <2>3, InsertInformationKeeps
  <2>4. ASSUME NEW rows, InsertStatus(l, rows), Goto(l, "lifecycle")
        PROVE  WatermarkInv'
    BY <1>4, <2>1, <2>4, InsertStatusKeeps
  <2>. QED BY <1>9, <2>2, <2>3, <2>4 DEF InsertRows
<1>10. ASSUME NEW l \in Loaders, SelectCurrent(l) PROVE WatermarkInv'
  BY <1>4, <1>10, ReadCurrentKeeps DEF SelectCurrent, Loading
<1>11. ASSUME NEW l \in Loaders, WriteStationsScd(l) PROVE WatermarkInv'
  BY <1>4, <1>11, WriteScdKeeps DEF WriteStationsScd, Loading
<1>12. ASSUME NEW l \in Loaders, UpsertLifecycle(l) PROVE WatermarkInv'
  <2>1. PICK stations, seen, active :
          UpsertLifecycleRows(l, stations, seen, active)
    BY <1>12 DEF UpsertLifecycle
  <2>. QED
    BY <1>4, <1>12, <2>1, UpsertLifecycleKeeps DEF UpsertLifecycle, Loading
<1>13. ASSUME NEW l \in Loaders, UpsertDatasetWatermark(l) PROVE WatermarkInv'
  BY <1>13, TakeMark
<1>14. ASSUME NEW l \in Loaders, Commit(l) PROVE WatermarkInv'
  BY <1>14, CommitMark
<1>. QED
  BY <1>1, <1>2, <1>3, <1>6, <1>7, <1>8, <1>9, <1>10, <1>11, <1>12, <1>13,
     <1>14 DEF Next, Step

\* The watermark of a feed is its newest loaded snapshot, in whatever order
\* and overlap snapshots are loaded (loader.ts:364-383).
THEOREM WatermarkNewest == Spec => []WatermarkIsNewest
<1>1. WatermarkInv => WatermarkIsNewest
  BY DEF WatermarkInv
<1>. QED BY InitWatermark, NextWatermark, <1>1, PTL DEF Spec

------------------------------------------------------------------------------
(* Type correctness.                                                       *)

\* A function on part of a set, by its domain and its values.
LEMMA PartialFunction ==
  ASSUME NEW D, NEW R, NEW S \in SUBSET D, NEW f \in [S -> R]
  PROVE  f \in Partial(D, R)
BY DEF Partial

\* ... and what it gives.
LEMMA PartialValues ==
  ASSUME NEW D, NEW R, NEW f \in Partial(D, R)
  PROVE  /\ DOMAIN f \subseteq D /\ f \in [DOMAIN f -> R]
         /\ \A x \in DOMAIN f : f[x] \in R
<1>1. PICK S \in SUBSET D : f \in [S -> R]
  BY DEF Partial
<1>. QED BY <1>1

\* The empty function is one.
LEMMA PartialEmpty ==
  ASSUME NEW D, NEW R
  PROVE  <<>> \in Partial(D, R)
<1>1. <<>> \in [{} -> R]
  OBVIOUS
<1>. QED BY <1>1, PartialFunction

\* An upsert gives a function of the kind of its two parts.
LEMMA PartialUpsert ==
  ASSUME NEW D, NEW R, NEW f \in Partial(D, R), NEW g \in Partial(D, R)
  PROVE  Upserted(f, g) \in Partial(D, R)
<1>1. /\ DOMAIN f \subseteq D /\ \A x \in DOMAIN f : f[x] \in R
      /\ DOMAIN g \subseteq D /\ \A x \in DOMAIN g : g[x] \in R
  BY PartialValues
<1>2. Upserted(f, g) \in [DOMAIN f \cup DOMAIN g -> R]
  BY <1>1 DEF Upserted
<1>3. DOMAIN f \cup DOMAIN g \in SUBSET D
  BY <1>1
<1>. QED BY <1>2, <1>3, PartialFunction

\* The statements of stations_scd are those of a station_information load.
InfoSteps == \A l \in Loaders : pc[l] \in {"current", "scd"} => M(l).feed = Info

TypeInv == WatermarkInv /\ LoaderTypeOK /\ InfoSteps

\* Nothing written is typed.
LEMMA NoWritesTyped == NoWrites \in Writes
BY PartialEmpty DEF NoWrites, Writes

\* The empty tables satisfy the invariant.
LEMMA InitType == Init => TypeInv
<1>. SUFFICES ASSUME Init PROVE TypeInv
  OBVIOUS
<1>1. WatermarkInv /\ InfoSteps
  BY InitWatermark DEF Init, InfoSteps
<1>2. \A l \in Loaders : tx[l] \in Writes
  BY NoWritesTyped DEF Init, TablesInit
<1>3. /\ station_lifecycle \in Partial(Stations, LifecycleRow)
      /\ dataset_watermarks \in Partial(Feeds, Times)
  BY PartialEmpty DEF Init, TablesInit
<1>4. /\ archived \subseteq Manifests /\ cycle \in Nat
      /\ run \in [Loaders -> Seq(Manifests)]
      /\ pc \in [Loaders -> Steps]
      /\ reloads \in Nat /\ faults \in Nat /\ inOrder \in BOOLEAN
  BY DEF Init, Steps
<1>5. /\ raw_manifests = {} /\ logical_snapshots = {}
      /\ snapshot_station_information = {} /\ snapshot_station_status = {}
      /\ stations_scd = {}
  BY DEF Init, TablesInit
<1>. QED BY <1>1, <1>2, <1>3, <1>4, <1>5 DEF TypeInv, LoaderTypeOK

\* The rows of an object that is loaded.
LEMMA RowsTyped ==
  ASSUME ArchiveInv, NEW l \in Loaders, pc[l] # "open"
  PROVE  /\ DOMAIN RowsOf(l) \subseteq Stations
         /\ M(l).feed = Info => \A s \in DOMAIN RowsOf(l) : RowsOf(l)[s] \in Specs
         /\ M(l).feed = Status =>
              \A s \in DOMAIN RowsOf(l) :
                /\ RowsOf(l)[s] \in Report
                /\ Observed(l, s) \in Times /\ At(l) <= Observed(l, s)
<1>1. /\ M(l).object \in Objects /\ M(l).object.feed = M(l).feed
      /\ At(l) \in Times /\ M(l).feed \in Feeds
  BY LoadedTyped
<1>2. M(l).object.stations \in
        Partial(Stations, IF M(l).feed = Info THEN Specs ELSE Report)
  BY <1>1, GbfsLoaderAssumption
<1>3. CASE M(l).object \in TornObjects
  BY <1>3 DEF RowsOf, Parsed
<1>4. CASE M(l).object \notin TornObjects
  <2>1. RowsOf(l) = M(l).object.stations
    BY <1>4 DEF RowsOf, Parsed
  <2>2. /\ DOMAIN RowsOf(l) \subseteq Stations
        /\ \A s \in DOMAIN RowsOf(l) :
             RowsOf(l)[s] \in IF M(l).feed = Info THEN Specs ELSE Report
    BY <1>2, <2>1, PartialValues
  <2>3. ASSUME M(l).feed = Status, NEW s \in DOMAIN RowsOf(l)
        PROVE  RowsOf(l)[s] \in Report /\ Observed(l, s) \in Times
               /\ At(l) <= Observed(l, s)
    <3>1. RowsOf(l)[s] \in Report
      <4>1. M(l).feed # Info
        BY <2>3 DEF Info, Status
      <4>2. RowsOf(l)[s] \in IF M(l).feed = Info THEN Specs ELSE Report
        BY <2>2, <2>3
      <4>. QED BY <4>1, <4>2
    <3>2. RowsOf(l)[s].reported \in Times \cup {0}
      BY <3>1 DEF Report, Null
    <3>. DEFINE r == RowsOf(l)[s].reported
    <3>3. Observed(l, s) = IF r < At(l) THEN At(l) ELSE r
      BY DEF Observed, Later
    <3>4. At(l) \in Nat /\ At(l) # 0 /\ r \in Nat
      <4>1. \A u \in Times : u \in Nat /\ u # 0
        BY GbfsTablesAssumption
      <4>. QED BY <1>1, <3>2, <4>1
    <3>. HIDE DEF r
    <3>5. Observed(l, s) \in Times
      BY <1>1, <3>2, <3>3, <3>4 DEF r
    <3>6. At(l) <= Observed(l, s)
      BY <3>3, <3>4
    <3>. QED BY <3>1, <3>5, <3>6
  <2>. QED BY <2>2, <2>3
<1>. QED BY <1>3, <1>4

\* A statement whose writes are typed keeps the types.
LEMMA StatementTyped ==
  ASSUME TypeInv, WatermarkInv', NEW l \in Loaders, LoadersAlone(l),
         UNCHANGED <<tables, archived, cycle, run, boundVars>>,
         inOrder' \in BOOLEAN, tx'[l] \in Writes,
         NEW step \in Steps, Goto(l, step),
         step \in {"current", "scd"} => M(l).feed = Info
  PROVE  TypeInv'
<1>. USE DEF TypeInv, LoaderTypeOK
<1>1. \A k \in Loaders : tx'[k] \in Writes
  BY DEF LoadersAlone
<1>2. pc' \in [Loaders -> Steps] /\ pc'[l] = step
      /\ \A k \in Loaders \ {l} : pc'[k] = pc[k]
  BY DEF Goto
<1>3. InfoSteps'
  BY <1>2 DEF InfoSteps, M
<1>4. /\ raw_manifests' \subseteq Keys /\ logical_snapshots' \subseteq Keys
      /\ snapshot_station_information' \subseteq InformationRows
      /\ snapshot_station_status' \subseteq StatusRows
      /\ stations_scd' \subseteq ScdRow
      /\ station_lifecycle' \in Partial(Stations, LifecycleRow)
      /\ dataset_watermarks' \in Partial(Feeds, Times)
      /\ archived' \subseteq Manifests /\ cycle' \in Nat
      /\ run' \in [Loaders -> Seq(Manifests)]
      /\ reloads' \in Nat /\ faults' \in Nat
  BY DEF tables, boundVars
<1>. QED BY <1>1, <1>2, <1>3, <1>4

\* An end of the run with nothing written keeps the types.
LEMMA EndTyped ==
  ASSUME TypeInv, WatermarkInv', NEW l \in Loaders, LoadersAlone(l),
         UNCHANGED <<tables, archived, cycle, reloads, inOrder>>,
         faults' \in Nat, tx'[l] \in Writes, EndRun(l)
  PROVE  TypeInv'
<1>. USE DEF TypeInv, LoaderTypeOK
<1>1. \A k \in Loaders : tx'[k] \in Writes
  BY DEF LoadersAlone
<1>2. /\ pc' \in [Loaders -> Steps] /\ pc'[l] = "open"
      /\ \A k \in Loaders \ {l} : pc'[k] = pc[k] /\ run'[k] = run[k]
      /\ run' \in [Loaders -> Seq(Manifests)]
  BY DEF EndRun, Goto, Steps
<1>3. InfoSteps'
  BY <1>2 DEF InfoSteps, M
<1>4. /\ raw_manifests' \subseteq Keys /\ logical_snapshots' \subseteq Keys
      /\ snapshot_station_information' \subseteq InformationRows
      /\ snapshot_station_status' \subseteq StatusRows
      /\ stations_scd' \subseteq ScdRow
      /\ station_lifecycle' \in Partial(Stations, LifecycleRow)
      /\ dataset_watermarks' \in Partial(Feeds, Times)
      /\ archived' \subseteq Manifests /\ cycle' \in Nat
      /\ reloads' \in Nat /\ faults' \in Nat /\ inOrder' \in BOOLEAN
  BY DEF tables
<1>5. LoaderTypeOK'
  BY <1>1, <1>2, <1>4
<1>. QED BY <1>3, <1>5

\* The newest snapshot that a load reads is a time: the watermark is one.
LEMMA LatestTyped ==
  ASSUME TypeInv, NEW l \in Loaders, NEW feed \in Feeds, ReadLatest(l, feed)
  PROVE  tx'[l] \in Writes
<1>. DEFINE ats == {s.at : s \in {t \in logical_snapshots : t.feed = feed}}
            latest == IF ats = {} THEN Null
                      ELSE CHOOSE t \in ats : \A u \in ats : u <= t
<1>1. ats \subseteq Times
  BY DEF TypeInv, LoaderTypeOK, Keys
<1>2. ats # {} => \E t \in ats : \A u \in ats : u <= t
  BY DEF TypeInv, WatermarkInv, WatermarkIsNewest
<1>3. tx' = [tx EXCEPT ![l].latest = latest]
  BY DEF ReadLatest
<1>. HIDE DEF ats
<1>4. latest \in Times \cup {Null}
  BY <1>1, <1>2
<1>. HIDE DEF latest
<1>. QED
  BY <1>3, <1>4 DEF TypeInv, LoaderTypeOK, WatermarkInv, Base, RawInv, Shape, Writes

\* The write of the history's rows: what it closes it has read, and what it
\* opens says what the object says.
LEMMA ScdTyped ==
  ASSUME TypeInv, NEW l \in Loaders, NEW at \in Times, NEW spec,
         DOMAIN spec \subseteq Stations, \A s \in DOMAIN spec : spec[s] \in Specs,
         WriteScd(l, at, spec)
  PROVE  tx'[l] \in Writes
<1>. DEFINE changed == Changed(l, spec)
            closing == {r \in tx[l].current : r.station \in changed}
            opening == {[station |-> s, valid_from |-> at, valid_to |-> Null,
                         spec |-> spec[s]] : s \in changed}
            closed == closing \cap stations_scd
            opened == {r \in opening : \A s \in stations_scd : ~SameScd(r, s)}
<1>1. tx' = [tx EXCEPT ![l].current = {}, ![l].closed = closed, ![l].opened = opened]
  BY DEF WriteScd, Closing, Opening
<1>2. changed \subseteq DOMAIN spec
  BY DEF Changed
<1>3. closed \subseteq ScdRow
  BY DEF TypeInv, LoaderTypeOK
<1>4. opened \subseteq ScdRow
  BY <1>2 DEF ScdRow
<1>. HIDE DEF closed, opened
<1>. QED
  BY <1>1, <1>3, <1>4
  DEF TypeInv, LoaderTypeOK, WatermarkInv, Base, RawInv, Shape, Writes

\* A lifecycle row that an observation is written to.
LEMMA SeenTyped ==
  ASSUME NEW row \in LifecycleRow, NEW seen \in Times,
         NEW active \in Times \cup {Null}
  PROVE  SeenAgain(row, seen, active) \in LifecycleRow
<1>1. Later(row.last_seen_at, seen) \in Times
  BY DEF LifecycleRow, Later
<1>2. Later(row.last_active_at, active) \in Times \cup {Null}
  BY DEF LifecycleRow, Later
<1>. QED BY <1>1, <1>2 DEF LifecycleRow, SeenAgain

\* The upsert of the lifecycle writes rows of the table.
LEMMA LifecycleTyped ==
  ASSUME TypeInv, NEW l \in Loaders, NEW S \in SUBSET Stations, NEW seen, NEW active,
         \A s \in S : seen[s] \in Times /\ active[s] \in Times \cup {Null},
         UpsertLifecycleRows(l, S, seen, active)
  PROVE  tx'[l] \in Writes
<1>. DEFINE rows == [s \in S |->
              IF s \in DOMAIN station_lifecycle
              THEN SeenAgain(station_lifecycle[s], seen[s], active[s])
              ELSE FirstSeen(seen[s], active[s])]
<1>1. \A s \in DOMAIN station_lifecycle : station_lifecycle[s] \in LifecycleRow
  BY PartialValues DEF TypeInv, LoaderTypeOK
<1>2. ASSUME NEW s \in S PROVE rows[s] \in LifecycleRow
  <2>1. CASE s \in DOMAIN station_lifecycle
    BY <1>1, <2>1, SeenTyped
  <2>2. CASE s \notin DOMAIN station_lifecycle
    BY <2>2 DEF FirstSeen, LifecycleRow
  <2>. QED BY <2>1, <2>2
<1>3. rows \in [S -> LifecycleRow]
  BY <1>2
<1>4. rows \in Partial(Stations, LifecycleRow)
  BY <1>3, PartialFunction
<1>5. tx' = [tx EXCEPT ![l].lifecycle = rows]
  BY DEF UpsertLifecycleRows
<1>. HIDE DEF rows
<1>. QED
  BY <1>4, <1>5 DEF TypeInv, LoaderTypeOK, WatermarkInv, Base, RawInv, Shape, Writes

\* The upsert of the watermark writes a time.
LEMMA MarkTyped ==
  ASSUME TypeInv, NEW l \in Loaders, NEW feed \in Feeds, NEW at \in Times,
         UpsertWatermarkRow(l, feed, at)
  PROVE  tx'[l] \in Writes
<1>. DEFINE rows == [f \in {feed} |-> IF f \in DOMAIN dataset_watermarks
                                      THEN Later(dataset_watermarks[f], at) ELSE at]
<1>1. \A f \in DOMAIN dataset_watermarks : dataset_watermarks[f] \in Times
  BY PartialValues DEF TypeInv, LoaderTypeOK
<1>2. rows \in [{feed} -> Times]
  BY <1>1 DEF Later
<1>3. rows \in Partial(Feeds, Times)
  BY <1>2, PartialFunction
<1>4. tx' = [tx EXCEPT ![l].watermarks = rows]
  BY DEF UpsertWatermarkRow
<1>. HIDE DEF rows
<1>. QED
  BY <1>3, <1>4 DEF TypeInv, LoaderTypeOK, WatermarkInv, Base, RawInv, Shape, Writes

\* COMMIT puts typed rows into the tables.
LEMMA CommitTyped ==
  ASSUME TypeInv, WatermarkInv', NEW l \in Loaders, Commit(l)
  PROVE  TypeInv'
<1>. DEFINE t == tx[l]
<1>1. /\ t \in Writes /\ At(l) \in Times /\ run[l] \in Seq(Manifests) /\ run[l] # <<>>
  BY LoadedTyped DEF Commit, Loading, TypeInv, LoaderTypeOK, WatermarkInv, Base
<1>. USE DEF Commit, CommitTx
<1>2. raw_manifests' \subseteq Keys /\ logical_snapshots' \subseteq Keys
  BY <1>1 DEF TypeInv, LoaderTypeOK, Writes
<1>3. /\ snapshot_station_information' \subseteq InformationRows
      /\ snapshot_station_status' \subseteq StatusRows
  BY <1>1 DEF TypeInv, LoaderTypeOK, Writes
<1>4. stations_scd' \subseteq ScdRow
  <2>1. \A r \in t.closed : [r EXCEPT !.valid_to = At(l)] \in ScdRow
    BY <1>1 DEF Writes, ScdRow
  <2>2. /\ stations_scd \subseteq ScdRow /\ t.opened \subseteq ScdRow
        /\ stations_scd' = (stations_scd \ t.closed) \cup t.opened
                             \cup {[r EXCEPT !.valid_to = At(l)] : r \in t.closed}
    BY <1>1 DEF TypeInv, LoaderTypeOK, Writes
  <2>. QED BY <2>1, <2>2
<1>5. station_lifecycle' \in Partial(Stations, LifecycleRow)
  <2>1. t.lifecycle \in Partial(Stations, LifecycleRow)
    BY <1>1 DEF Writes
  <2>2. station_lifecycle' = Upserted(station_lifecycle, t.lifecycle)
    OBVIOUS
  <2>. QED BY <2>1, <2>2, PartialUpsert DEF TypeInv, LoaderTypeOK
<1>6. dataset_watermarks' \in Partial(Feeds, Times)
  <2>1. t.watermarks \in Partial(Feeds, Times)
    BY <1>1 DEF Writes
  <2>2. dataset_watermarks' = Upserted(dataset_watermarks, t.watermarks)
    OBVIOUS
  <2>. QED BY <2>1, <2>2, PartialUpsert DEF TypeInv, LoaderTypeOK
<1>7. \A k \in Loaders : tx'[k] \in Writes
  BY NoWritesTyped DEF TypeInv, LoaderTypeOK
<1>8. /\ archived' \subseteq Manifests /\ cycle' \in Nat
      /\ reloads' \in Nat /\ faults' \in Nat /\ inOrder' \in BOOLEAN
  BY DEF TypeInv, LoaderTypeOK, boundVars
<1>9. /\ run' \in [Loaders -> Seq(Manifests)]
      /\ pc' \in [Loaders -> Steps] /\ pc'[l] = "open"
      /\ \A k \in Loaders \ {l} : pc'[k] = pc[k] /\ run'[k] = run[k]
  BY <1>1 DEF TypeInv, LoaderTypeOK, Goto, Steps
<1>10. LoaderTypeOK'
  BY <1>2, <1>3, <1>4, <1>5, <1>6, <1>7, <1>8, <1>9 DEF LoaderTypeOK
<1>11. InfoSteps'
  BY <1>9 DEF TypeInv, InfoSteps, M
<1>. QED BY <1>10, <1>11 DEF TypeInv

\* Every step keeps the types.
LEMMA NextType == TypeInv /\ [Next]_vars => TypeInv'
<1>. SUFFICES ASSUME TypeInv, [Next]_vars PROVE TypeInv'
  OBVIOUS
<1>0. /\ WatermarkInv /\ WatermarkInv' /\ ArchiveInv /\ Shape /\ LoaderTypeOK
      /\ \A l \in Loaders : tx[l] \in Writes
  BY NextWatermark DEF TypeInv, WatermarkInv, Base, RawInv, LoaderTypeOK
<1>. USE <1>0
<1>1. CASE UNCHANGED vars
  <2>1. LoaderTypeOK'
    BY <1>1 DEF LoaderTypeOK, vars, tables, boundVars
  <2>2. InfoSteps'
    BY <1>1 DEF TypeInv, InfoSteps, vars, M
  <2>. QED BY <2>1, <2>2 DEF TypeInv
<1>2. ASSUME NEW l \in Loaders, Collect(l) \/ LoadAll(l) PROVE TypeInv'
  <2>1. /\ UNCHANGED <<tables, tx, pc, faults, inOrder>>
        /\ cycle' \in Nat /\ reloads' \in Nat
    BY <1>2 DEF Collect, LoadAll, LoaderTypeOK, boundVars
  <2>2. archived' \subseteq Manifests /\ run' \in [Loaders -> Seq(Manifests)]
    BY DEF WatermarkInv, Base, ArchiveInv
  <2>3. LoaderTypeOK'
    BY <2>1, <2>2 DEF LoaderTypeOK, tables
  <2>4. InfoSteps'
    <3>1. pc[l] = "open" /\ \A k \in Loaders \ {l} : run'[k] = run[k]
      BY <1>2 DEF Collect, LoadAll, WatermarkInv, Base, RawInv, Written, Shape
    <3>. QED BY <2>1, <3>1 DEF TypeInv, InfoSteps, M
  <2>. QED BY <2>3, <2>4 DEF TypeInv
<1>3. ASSUME NEW l \in Loaders, Fault(l) PROVE TypeInv'
  <2>1. /\ LoadersAlone(l) /\ tx'[l] = NoWrites /\ EndRun(l)
        /\ UNCHANGED <<tables, archived, cycle, reloads, inOrder>>
        /\ faults' \in Nat
    BY <1>3 DEF Fault, RollbackTx, LoadersAlone, Shape, LoaderTypeOK
  <2>. QED BY <2>1, EndTyped, NoWritesTyped
<1>4. ASSUME NEW l \in Loaders, Begin(l) PROVE TypeInv'
  <2>1. UNCHANGED <<tables, archived, cycle, boundVars>> /\ run[l] # <<>>
    BY <1>4 DEF Begin, Loading
  <2>2. CASE EndRun(l) /\ UNCHANGED <<tx, inOrder>>
    BY <2>1, <2>2, EndTyped DEF boundVars, LoadersAlone, LoaderTypeOK
  <2>3. CASE /\ ReadLatest(l, M(l).feed) /\ Goto(l, "raw") /\ UNCHANGED run
             /\ inOrder' \in BOOLEAN
    <3>1. M(l).feed \in Feeds
      <4>1. M(l) \in Manifests
        BY <2>1 DEF ArchiveInv, M
      <4>. QED BY <4>1, GbfsLoaderAssumption
    <3>2. LoadersAlone(l)
      BY <2>3, ReadLatestKeeps DEF KeepsMarks, KeepsWrites
    <3>3. "raw" \in Steps
      BY DEF Steps
    <3>. QED BY <2>1, <2>3, <3>1, <3>2, <3>3, LatestTyped, StatementTyped
  <2>4. \/ EndRun(l) /\ UNCHANGED <<tx, inOrder>>
        \/ /\ ReadLatest(l, M(l).feed) /\ Goto(l, "raw") /\ UNCHANGED run
           /\ inOrder' \in BOOLEAN
    BY <1>4 DEF Begin
  <2>. QED BY <2>2, <2>3, <2>4
<1>5. ASSUME NEW l \in Loaders, Loading(l, pc[l]), pc[l] # "open",
             UNCHANGED <<tables, archived, cycle, run, boundVars, inOrder>>,
             LoadersAlone(l), tx'[l] \in Writes, NEW step \in Steps, Goto(l, step),
             step \in {"current", "scd"} => M(l).feed = Info
      PROVE  TypeInv'
  BY <1>5, StatementTyped DEF LoaderTypeOK
<1>6. ASSUME NEW l \in Loaders, InsertRawManifest(l) PROVE TypeInv'
  <2>1. Key(l) \in Keys
    BY <1>6, LoadedTyped DEF InsertRawManifest, Loading, Key, Keys
  <2>2. LoadersAlone(l) /\ tx'[l] \in Writes
    BY <1>6, <2>1 DEF InsertRawManifest, InsertRaw, LoadersAlone, Shape, Writes
  <2>. QED BY <1>5, <1>6, <2>2 DEF InsertRawManifest, Loading, Steps
<1>7. ASSUME NEW l \in Loaders, InsertLogicalSnapshot(l) PROVE TypeInv'
  <2>1. Key(l) \in Keys
    BY <1>7, LoadedTyped DEF InsertLogicalSnapshot, Loading, Key, Keys
  <2>2. LoadersAlone(l) /\ tx'[l] \in Writes
    BY <1>7, <2>1
    DEF InsertLogicalSnapshot, InsertSnapshot, LoadersAlone, Shape, Writes
  <2>3. \E step \in {"commit", "rows"} : Goto(l, step)
    BY <1>7 DEF InsertLogicalSnapshot
  <2>. QED BY <1>5, <1>7, <2>2, <2>3 DEF InsertLogicalSnapshot, Loading, Steps
<1>8. ASSUME NEW l \in Loaders, InsertRows(l) PROVE TypeInv'
  <2>1. /\ pc[l] = "rows" /\ Loading(l, pc[l])
        /\ UNCHANGED <<tables, archived, cycle, run, boundVars, inOrder>>
    BY <1>8 DEF InsertRows, Loading
  <2>2. CASE Goto(l, "watermark") /\ UNCHANGED tx
    BY <1>5, <2>1, <2>2 DEF LoadersAlone, Steps
  <2>3. CASE /\ M(l).feed = Info /\ Goto(l, "current")
             /\ InsertInformation(l, {InformationRow(l, s) : s \in DOMAIN RowsOf(l)})
    <3>. DEFINE rows == {InformationRow(l, s) : s \in DOMAIN RowsOf(l)}
    <3>1. rows \subseteq InformationRows
      BY <2>1, <2>3, LoadedTyped, RowsTyped DEF InformationRow, InformationRows
    <3>2. NewRows(rows, snapshot_station_information) \subseteq rows
      BY DEF NewRows
    <3>. HIDE DEF rows
    <3>3. tx'[l] \in Writes /\ LoadersAlone(l)
      BY <2>3, <3>1, <3>2 DEF InsertInformation, Writes, LoadersAlone, Shape, rows
    <3>. QED BY <1>5, <2>1, <2>3, <3>3 DEF Steps
  <2>4. CASE /\ M(l).feed = Status /\ Goto(l, "lifecycle")
             /\ InsertStatus(l, {StatusRow(l, s) : s \in DOMAIN RowsOf(l)})
    <3>. DEFINE rows == {StatusRow(l, s) : s \in DOMAIN RowsOf(l)}
    <3>1. rows \subseteq StatusRows
      <4>1. At(l) \in Times /\ DOMAIN RowsOf(l) \subseteq Stations
            /\ \A s \in DOMAIN RowsOf(l) : Observed(l, s) \in Times
        BY <2>1, <2>4, LoadedTyped, RowsTyped
      <4>2. ASSUME NEW s \in DOMAIN RowsOf(l) PROVE StatusRow(l, s) \in StatusRows
        BY <4>1 DEF StatusRow, StatusRows
      <4>. QED BY <4>2
    <3>2. NewRows(rows, snapshot_station_status) \subseteq rows
      BY DEF NewRows
    <3>. HIDE DEF rows
    <3>3. tx'[l] \in Writes /\ LoadersAlone(l)
      BY <2>4, <3>1, <3>2 DEF InsertStatus, Writes, LoadersAlone, Shape, rows
    <3>. QED BY <1>5, <2>1, <2>4, <3>3 DEF Steps
  <2>. QED BY <1>8, <2>2, <2>3, <2>4 DEF InsertRows
<1>9. ASSUME NEW l \in Loaders, SelectCurrent(l) PROVE TypeInv'
  <2>1. M(l).feed = Info
    BY <1>9 DEF SelectCurrent, Loading, TypeInv, InfoSteps
  <2>2. tx'[l] \in Writes /\ LoadersAlone(l)
    BY <1>9 DEF SelectCurrent, ReadCurrent, Writes, LoadersAlone, Shape, LoaderTypeOK
  <2>. QED BY <1>5, <1>9, <2>1, <2>2 DEF SelectCurrent, Loading, Steps
<1>10. ASSUME NEW l \in Loaders, WriteStationsScd(l) PROVE TypeInv'
  <2>1. M(l).feed = Info /\ pc[l] = "scd" /\ WriteScd(l, At(l), RowsOf(l))
    BY <1>10 DEF WriteStationsScd, Loading, TypeInv, InfoSteps
  <2>2. /\ At(l) \in Times /\ DOMAIN RowsOf(l) \subseteq Stations
        /\ \A s \in DOMAIN RowsOf(l) : RowsOf(l)[s] \in Specs
    BY <2>1, LoadedTyped, RowsTyped
  <2>3. tx'[l] \in Writes
    BY <2>1, <2>2, ScdTyped
  <2>4. LoadersAlone(l)
    BY <2>1, WriteScdKeeps DEF KeepsMarks, KeepsWrites
  <2>. QED BY <1>5, <1>10, <2>3, <2>4 DEF WriteStationsScd, Loading, Steps
<1>11. ASSUME NEW l \in Loaders, UpsertLifecycle(l) PROVE TypeInv'
  <2>. DEFINE S == DOMAIN RowsOf(l)
  <2>1. /\ pc[l] = "lifecycle" /\ S \subseteq Stations /\ At(l) \in Times
        /\ M(l).feed \in Feeds
        /\ M(l).feed = Status => \A s \in S : Observed(l, s) \in Times
    BY <1>11, LoadedTyped, RowsTyped DEF UpsertLifecycle, Loading
  <2>2. \E seen, active :
          /\ UpsertLifecycleRows(l, S, seen, active)
          /\ \A s \in S : seen[s] \in Times /\ active[s] \in Times \cup {Null}
    <3>1. CASE M(l).feed = Info
      BY <1>11, <2>1, <3>1 DEF UpsertLifecycle
    <3>2. CASE M(l).feed # Info
      BY <1>11, <2>1, <3>2 DEF UpsertLifecycle, Feeds
    <3>. QED BY <3>1, <3>2
  <2>3. tx'[l] \in Writes
    BY <2>1, <2>2, LifecycleTyped
  <2>4. LoadersAlone(l)
    BY <2>2, UpsertLifecycleKeeps DEF KeepsMarks, KeepsWrites
  <2>. QED BY <1>5, <1>11, <2>3, <2>4 DEF UpsertLifecycle, Loading, Steps
<1>12. ASSUME NEW l \in Loaders, UpsertDatasetWatermark(l) PROVE TypeInv'
  <2>1. /\ pc[l] = "watermark" /\ UpsertWatermarkRow(l, M(l).feed, At(l))
        /\ At(l) \in Times /\ M(l).feed \in Feeds
    BY <1>12, LoadedTyped DEF UpsertDatasetWatermark, Loading
  <2>2. tx'[l] \in Writes
    BY <2>1, MarkTyped
  <2>3. LoadersAlone(l)
    BY <2>1, UpsertWatermarkKeeps DEF KeepsWrites
  <2>. QED BY <1>5, <1>12, <2>2, <2>3 DEF UpsertDatasetWatermark, Loading, Steps
<1>13. ASSUME NEW l \in Loaders, Commit(l) PROVE TypeInv'
  BY <1>13, CommitTyped
<1>. QED
  BY <1>1, <1>2, <1>3, <1>4, <1>6, <1>7, <1>8, <1>9, <1>10, <1>11, <1>12, <1>13
  DEF Next, Step

\* The tables hold rows of their types, whatever is loaded in whatever order:
\* a load computes no time, station or specification of its own, and the
\* newest snapshot it reads is there when there is one.
THEOREM LoaderTypes == Spec => []LoaderTypeOK
<1>1. TypeInv => LoaderTypeOK
  BY DEF TypeInv
<1>. QED BY InitType, NextType, <1>1, PTL DEF Spec

------------------------------------------------------------------------------
(* The lifecycle spans the rows.                                           *)

\* A lifecycle row is not behind any observation that is loaded.
LifecycleCovers ==
  LET life == station_lifecycle
  IN /\ \A r \in snapshot_station_information :
          r.station \in DOMAIN life /\ life[r.station].last_seen_at >= r.at
     /\ \A r \in snapshot_station_status :
          /\ r.station \in DOMAIN life
          /\ life[r.station].last_seen_at >= r.observed
          /\ life[r.station].last_active_at >= r.observed
     /\ \A s \in DOMAIN life :
          /\ life[s].first_seen_at <= life[s].last_seen_at
          /\ life[s].last_active_at <= life[s].last_seen_at

\* What a load tells of a station it lists.
SeenBy(l, s) == IF M(l).feed = Info THEN At(l) ELSE Observed(l, s)
ActiveBy(l, s) == IF M(l).feed = Info THEN Null ELSE Observed(l, s)

\* The rows UpsertLifecycleRows writes.
Life(l) == [s \in DOMAIN RowsOf(l) |->
              IF s \in DOMAIN station_lifecycle
              THEN SeenAgain(station_lifecycle[s], SeenBy(l, s), ActiveBy(l, s))
              ELSE FirstSeen(SeenBy(l, s), ActiveBy(l, s))]

\* The rows a load has written are of the stations it lists.
HeldRows(l) ==
  /\ pc[l] \in {"open", "raw", "snapshot", "rows"} =>
       tx[l].information = {} /\ tx[l].status = {}
  /\ \A r \in tx[l].information :
       M(l).feed = Info /\ r.at = At(l) /\ r.station \in DOMAIN RowsOf(l)
  /\ \A r \in tx[l].status :
       /\ M(l).feed = Status /\ r.station \in DOMAIN RowsOf(l)
       /\ r.observed = Observed(l, r.station)

\* A load that commits rows holds the lifecycle of their stations, up to date.
LifeHeld(l) ==
  IF pc[l] \in {"watermark", "commit"}
  THEN \/ /\ tx[l].information = {} /\ tx[l].status = {}
          /\ tx[l].lifecycle = <<>>
       \/ tx[l].lifecycle = Life(l)
  ELSE tx[l].lifecycle = <<>>

\* No two loads hold the lifecycle row of one station.
LivesApart ==
  \A k, l \in Loaders :
    k # l => DOMAIN tx[k].lifecycle \cap DOMAIN tx[l].lifecycle = {}

LifeInv == /\ TypeInv /\ LifecycleCovers /\ LivesApart
           /\ \A l \in Loaders : HeldRows(l) /\ LifeHeld(l)

\* The empty tables satisfy the invariant.
LEMMA InitLife == Init => LifeInv
<1>. SUFFICES ASSUME Init PROVE LifeInv
  OBVIOUS
<1>1. TypeInv
  BY InitType
<1>2. \A l \in Loaders : /\ tx[l].information = {} /\ tx[l].status = {}
                         /\ tx[l].lifecycle = <<>> /\ pc[l] = "open"
  BY DEF Init, TablesInit, NoWrites
<1>3. /\ snapshot_station_information = {} /\ snapshot_station_status = {}
      /\ DOMAIN station_lifecycle = {}
  BY DEF Init, TablesInit
<1>. QED
  BY <1>1, <1>2, <1>3 DEF LifeInv, LifecycleCovers, LivesApart, HeldRows, LifeHeld

\* A step of one loader that commits nothing and takes no lifecycle row.
LEMMA LifeStays ==
  ASSUME LifeInv, TypeInv', NEW l \in Loaders, LoadersAlone(l), UNCHANGED tables,
         \A k \in Loaders \ {l} : run'[k] = run[k] /\ pc'[k] = pc[k],
         HeldRows(l)', LifeHeld(l)',
         \A k \in Loaders \ {l} :
           DOMAIN tx[k].lifecycle \cap DOMAIN tx'[l].lifecycle = {}
  PROVE  LifeInv'
<1>1. LifecycleCovers'
  BY DEF LifeInv, LifecycleCovers, tables
<1>2. LivesApart'
  BY DEF LifeInv, LivesApart, LoadersAlone
<1>3. ASSUME NEW k \in Loaders \ {l} PROVE HeldRows(k)' /\ LifeHeld(k)'
  <2>1. tx'[k] = tx[k] /\ run'[k] = run[k] /\ pc'[k] = pc[k]
    BY DEF LoadersAlone
  <2>2. HeldRows(k)'
    BY <2>1 DEF LifeInv, HeldRows, M, At, PublisherLastUpdated, RowsOf, Observed
  <2>3. Life(k)' = Life(k)
    BY <2>1 DEF Life, SeenBy, ActiveBy, M, At, PublisherLastUpdated, RowsOf,
       Observed, tables
  <2>4. LifeHeld(k)'
    BY <2>1, <2>3 DEF LifeInv, LifeHeld
  <2>. QED BY <2>2, <2>4
<1>. QED BY <1>1, <1>2, <1>3 DEF LifeInv

\* The lifecycle rows are taken by a load that nobody else keeps them from.
LEMMA TakeLife ==
  ASSUME LifeInv, TypeInv', NEW l \in Loaders, UpsertLifecycle(l)
  PROVE  LifeInv'
<1>1. /\ Shape /\ pc[l] = "lifecycle" /\ HeldRows(l)
      /\ M(l).feed \in Feeds
  BY LoadedTyped
  DEF LifeInv, TypeInv, WatermarkInv, Base, RawInv, UpsertLifecycle, Loading
<1>2. UNCHANGED <<tables, run>> /\ Goto(l, "watermark")
  BY DEF UpsertLifecycle
<1>3. /\ \A k \in Others(l) : DOMAIN tx[k].lifecycle \cap DOMAIN RowsOf(l) = {}
      /\ tx' = [tx EXCEPT ![l].lifecycle = Life(l)]
  <2>1. CASE M(l).feed = Info
    BY <2>1 DEF UpsertLifecycle, UpsertLifecycleRows, LifecycleFree, Life, SeenBy, ActiveBy
  <2>2. CASE M(l).feed # Info
    BY <2>2 DEF UpsertLifecycle, UpsertLifecycleRows, LifecycleFree, Life, SeenBy, ActiveBy
  <2>. QED BY <2>1, <2>2
<1>4. /\ tx'[l].lifecycle = Life(l) /\ LoadersAlone(l)
      /\ tx'[l].information = tx[l].information /\ tx'[l].status = tx[l].status
  BY <1>1, <1>3 DEF LoadersAlone, Shape, Fields
<1>5. pc'[l] = "watermark" /\ \A k \in Loaders \ {l} : pc'[k] = pc[k]
  BY <1>1, <1>2 DEF Goto, Shape
<1>6. Life(l)' = Life(l)
  BY <1>2 DEF Life, SeenBy, ActiveBy, M, At, PublisherLastUpdated, RowsOf,
     Observed, tables
<1>7. LifeHeld(l)'
  BY <1>4, <1>5, <1>6 DEF LifeHeld
<1>8. HeldRows(l)'
  BY <1>1, <1>2, <1>4, <1>5
  DEF HeldRows, M, At, PublisherLastUpdated, RowsOf, Observed
<1>9. DOMAIN Life(l) = DOMAIN RowsOf(l)
  BY DEF Life
<1>. QED BY <1>2, <1>3, <1>4, <1>5, <1>7, <1>8, <1>9, LifeStays DEF Others

\* A lifecycle row that a load has written spans what it tells, and what the
\* row spanned before.
LEMMA LifeSpans ==
  ASSUME LifeInv, NEW l \in Loaders, pc[l] # "open", NEW s \in DOMAIN RowsOf(l)
  PROVE  LET new == Life(l)[s]
             old == station_lifecycle[s]
         IN /\ SeenBy(l, s) <= new.last_seen_at
            /\ ActiveBy(l, s) <= new.last_active_at
            /\ new.first_seen_at <= new.last_seen_at
            /\ new.last_active_at <= new.last_seen_at
            /\ s \in DOMAIN station_lifecycle =>
                 /\ \A t \in Times : t <= old.last_seen_at => t <= new.last_seen_at
                 /\ \A t \in Times : t <= old.last_active_at => t <= new.last_active_at
<1>. DEFINE seen == SeenBy(l, s)
            active == ActiveBy(l, s)
            old == station_lifecycle[s]
<1>1. seen \in Nat /\ active \in Nat /\ active <= seen
  <2>1. /\ At(l) \in Nat /\ M(l).feed \in Feeds
        /\ M(l).feed = Status => Observed(l, s) \in Times
    BY LoadedTyped, RowsTyped DEF LifeInv, TypeInv, WatermarkInv, Base
  <2>2. CASE M(l).feed = Info
    BY <2>1, <2>2 DEF SeenBy, ActiveBy, Null
  <2>3. CASE M(l).feed # Info
    <3>1. Observed(l, s) \in Nat
      BY <2>1, <2>3, GbfsTablesAssumption DEF Feeds
    <3>. QED BY <2>3, <3>1 DEF SeenBy, ActiveBy
  <2>. QED BY <2>2, <2>3
<1>2. Times \subseteq Nat
  BY GbfsTablesAssumption
<1>3. CASE s \in DOMAIN station_lifecycle
  <2>1. old \in LifecycleRow
    BY <1>3, PartialValues DEF LifeInv, TypeInv, LoaderTypeOK
  <2>2. /\ old.first_seen_at \in Nat /\ old.last_seen_at \in Nat
        /\ old.last_active_at \in Nat
    <3>1. /\ old.first_seen_at \in Times /\ old.last_seen_at \in Times
          /\ old.last_active_at \in Times \cup {0}
      BY <2>1 DEF LifecycleRow, Null
    <3>2. \A u \in Times \cup {0} : u \in Nat
      BY <1>2
    <3>. QED BY <3>1, <3>2
  <2>3. /\ old.first_seen_at <= old.last_seen_at
        /\ old.last_active_at <= old.last_seen_at
    BY <1>3 DEF LifeInv, LifecycleCovers
  <2>4. Life(l)[s] = SeenAgain(old, seen, active)
    BY <1>3 DEF Life
  <2>. HIDE DEF seen, active, old
  <2>5. /\ Life(l)[s].first_seen_at = old.first_seen_at
        /\ Life(l)[s].last_seen_at = Later(old.last_seen_at, seen)
        /\ Life(l)[s].last_active_at = Later(old.last_active_at, active)
    BY <2>1, <2>4 DEF SeenAgain, LifecycleRow
  <2>6. /\ seen <= Later(old.last_seen_at, seen)
        /\ old.last_seen_at <= Later(old.last_seen_at, seen)
        /\ active <= Later(old.last_active_at, active)
        /\ old.last_active_at <= Later(old.last_active_at, active)
        /\ Later(old.last_active_at, active) <= Later(old.last_seen_at, seen)
        /\ Later(old.last_seen_at, seen) \in Nat
        /\ Later(old.last_active_at, active) \in Nat
    BY <1>1, <2>2, <2>3 DEF Later
  <2>7. /\ seen <= Life(l)[s].last_seen_at /\ active <= Life(l)[s].last_active_at
        /\ Life(l)[s].first_seen_at <= Life(l)[s].last_seen_at
        /\ Life(l)[s].last_active_at <= Life(l)[s].last_seen_at
        /\ \A t \in Times : t <= old.last_seen_at => t <= Life(l)[s].last_seen_at
        /\ \A t \in Times :
             t <= old.last_active_at => t <= Life(l)[s].last_active_at
    BY <1>1, <1>2, <2>2, <2>3, <2>5, <2>6
  <2>. QED BY <2>7 DEF seen, active, old
<1>4. CASE s \notin DOMAIN station_lifecycle
  <2>1. Life(l)[s] = FirstSeen(seen, active)
    BY <1>4 DEF Life
  <2>. QED BY <1>1, <1>4, <2>1 DEF FirstSeen
<1>. QED BY <1>3, <1>4

\* COMMIT publishes rows together with the lifecycle of their stations.
LEMMA CommitLife ==
  ASSUME LifeInv, TypeInv', NEW l \in Loaders, Commit(l)
  PROVE  LifeInv'
<1>. DEFINE lives == tx[l].lifecycle
            life == station_lifecycle
<1>1. /\ Shape /\ pc[l] = "commit" /\ HeldRows(l) /\ LifeHeld(l)
      /\ LoaderTypeOK /\ LifecycleCovers
  BY DEF LifeInv, TypeInv, WatermarkInv, Base, RawInv, Commit, Loading
<1>2. /\ snapshot_station_information' =
           snapshot_station_information \cup tx[l].information
      /\ snapshot_station_status' = snapshot_station_status \cup tx[l].status
      /\ DOMAIN life' = DOMAIN life \cup DOMAIN lives
      /\ \A s \in DOMAIN lives : life'[s] = lives[s]
      /\ \A s \in DOMAIN life \ DOMAIN lives : life'[s] = life[s]
  BY DEF Commit, CommitTx, Upserted
<1>3. /\ LoadersAlone(l) /\ tx'[l] = NoWrites /\ pc'[l] = "open"
      /\ \A k \in Loaders \ {l} : run'[k] = run[k] /\ pc'[k] = pc[k]
  BY <1>1 DEF Shape, LoadersAlone, Commit, CommitTx, Goto
<1>4. \/ tx[l].information = {} /\ tx[l].status = {} /\ DOMAIN lives = {}
      \/ lives = Life(l) /\ DOMAIN lives = DOMAIN RowsOf(l)
  BY <1>1 DEF LifeHeld, Life
<1>5. \A s \in DOMAIN life : s \in DOMAIN life' /\
        /\ \A t \in Times : t <= life[s].last_seen_at => t <= life'[s].last_seen_at
        /\ \A t \in Times : t <= life[s].last_active_at => t <= life'[s].last_active_at
  BY <1>1, <1>2, <1>4, LifeSpans
<1>6. \A s \in DOMAIN life' : /\ life'[s].first_seen_at <= life'[s].last_seen_at
                              /\ life'[s].last_active_at <= life'[s].last_seen_at
  BY <1>1, <1>2, <1>4, LifeSpans DEF LifecycleCovers
<1>7. ASSUME NEW r \in snapshot_station_information'
      PROVE  r.station \in DOMAIN life' /\ life'[r.station].last_seen_at >= r.at
  <2>1. CASE r \in snapshot_station_information
    <3>1. r.at \in Times /\ r.at \in Nat
      BY <1>1, <2>1, GbfsTablesAssumption DEF LoaderTypeOK, InformationRows
    <3>2. r.station \in DOMAIN life /\ r.at <= life[r.station].last_seen_at
      BY <1>1, <2>1, <3>1 DEF LifecycleCovers
    <3>. QED BY <1>5, <3>1, <3>2
  <2>2. CASE r \in tx[l].information
    <3>1. /\ M(l).feed = Info /\ r.at = At(l) /\ r.station \in DOMAIN RowsOf(l)
          /\ r.station \in DOMAIN lives /\ lives = Life(l)
      BY <1>1, <1>4, <2>2 DEF HeldRows
    <3>. QED BY <1>1, <1>2, <3>1, LifeSpans DEF SeenBy
  <2>. QED BY <1>2, <2>1, <2>2
<1>8. ASSUME NEW r \in snapshot_station_status'
      PROVE  /\ r.station \in DOMAIN life'
             /\ life'[r.station].last_seen_at >= r.observed
             /\ life'[r.station].last_active_at >= r.observed
  <2>1. CASE r \in snapshot_station_status
    <3>1. r.observed \in Times /\ r.observed \in Nat
      BY <1>1, <2>1, GbfsTablesAssumption DEF LoaderTypeOK, StatusRows
    <3>2. /\ r.station \in DOMAIN life
          /\ r.observed <= life[r.station].last_seen_at
          /\ r.observed <= life[r.station].last_active_at
      BY <1>1, <2>1, <3>1 DEF LifecycleCovers
    <3>. QED BY <1>5, <3>1, <3>2
  <2>2. CASE r \in tx[l].status
    <3>1. /\ M(l).feed # Info /\ r.observed = Observed(l, r.station)
          /\ r.station \in DOMAIN RowsOf(l)
          /\ r.station \in DOMAIN lives /\ lives = Life(l)
      BY <1>1, <1>4, <2>2 DEF HeldRows, Info, Status
    <3>. QED BY <1>1, <1>2, <3>1, LifeSpans DEF SeenBy, ActiveBy
  <2>. QED BY <1>2, <2>1, <2>2
<1>9. LifecycleCovers'
  BY <1>6, <1>7, <1>8 DEF LifecycleCovers
<1>10. /\ tx'[l].lifecycle = <<>> /\ tx'[l].information = {} /\ tx'[l].status = {}
  BY <1>3 DEF NoWrites
<1>11. LivesApart'
  BY <1>3, <1>10 DEF LifeInv, LivesApart, LoadersAlone
<1>12. HeldRows(l)' /\ LifeHeld(l)'
  BY <1>3, <1>10 DEF HeldRows, LifeHeld
<1>13. ASSUME NEW k \in Loaders \ {l} PROVE HeldRows(k)' /\ LifeHeld(k)'
  <2>1. tx'[k] = tx[k] /\ run'[k] = run[k] /\ pc'[k] = pc[k]
    BY <1>3 DEF LoadersAlone
  <2>2. HeldRows(k)'
    BY <2>1 DEF LifeInv, HeldRows, M, At, PublisherLastUpdated, RowsOf, Observed
  <2>3. CASE tx[k].lifecycle = Life(k)
    <3>1. \A s \in DOMAIN RowsOf(k) :
            /\ s \in DOMAIN life' <=> s \in DOMAIN life
            /\ s \in DOMAIN life => life'[s] = life[s]
      <4>1. DOMAIN tx[k].lifecycle \cap DOMAIN lives = {}
        BY DEF LifeInv, LivesApart
      <4>2. DOMAIN tx[k].lifecycle = DOMAIN RowsOf(k)
        BY <2>3 DEF Life
      <4>. QED BY <1>2, <4>1, <4>2
    <3>2. /\ RowsOf(k)' = RowsOf(k)
          /\ \A s : SeenBy(k, s)' = SeenBy(k, s) /\ ActiveBy(k, s)' = ActiveBy(k, s)
      BY <2>1 DEF SeenBy, ActiveBy, M, At, PublisherLastUpdated, RowsOf, Observed
    <3>3. Life(k)' = Life(k)
      BY <3>1, <3>2 DEF Life
    <3>. QED BY <2>1, <2>2, <2>3, <3>3 DEF LifeInv, LifeHeld
  <2>4. CASE tx[k].lifecycle # Life(k)
    BY <2>1, <2>2, <2>4 DEF LifeInv, LifeHeld
  <2>. QED BY <2>3, <2>4
<1>. QED BY <1>9, <1>11, <1>12, <1>13 DEF LifeInv

\* A statement before the lifecycle's, and before COMMIT.
LEMMA BeforeLife ==
  ASSUME LifeInv, TypeInv', NEW l \in Loaders, LoadersAlone(l), UNCHANGED tables,
         UNCHANGED run, NEW step, Goto(l, step), DOMAIN tx'[l] = Fields,
         tx'[l].lifecycle = <<>>, HeldRows(l)',
         step \in {"watermark", "commit"} =>
           tx'[l].information = {} /\ tx'[l].status = {}
  PROVE  LifeInv'
<1>1. pc'[l] = step /\ \A k \in Loaders \ {l} : pc'[k] = pc[k]
  BY DEF LifeInv, TypeInv, WatermarkInv, Base, RawInv, Shape, Goto
<1>2. LifeHeld(l)'
  BY <1>1 DEF LifeHeld
<1>. QED BY <1>1, <1>2, LifeStays

\* The rows a load has written stay those of what it loads.
LEMMA HeldRowsStay ==
  ASSUME NEW l \in Loaders, HeldRows(l), UNCHANGED run,
         tx'[l].information = tx[l].information, tx'[l].status = tx[l].status,
         pc[l] \in {"open", "raw", "snapshot", "rows"} \/
           pc'[l] \notin {"open", "raw", "snapshot", "rows"}
  PROVE  HeldRows(l)'
BY DEF HeldRows, M, At, PublisherLastUpdated, RowsOf, Observed

\* Every step keeps the invariant.
LEMMA NextLife == LifeInv /\ [Next]_vars => LifeInv'
<1>. SUFFICES ASSUME LifeInv, [Next]_vars PROVE LifeInv'
  OBVIOUS
<1>0. /\ TypeInv /\ TypeInv' /\ RawInv /\ Shape /\ Shape'
      /\ \A l \in Loaders : HeldRows(l) /\ LifeHeld(l) /\ Written(l)
  BY NextType DEF LifeInv, TypeInv, WatermarkInv, Base, RawInv
<1>. USE <1>0
<1>1. CASE UNCHANGED vars
  <2>1. UNCHANGED <<tables, tx, run, pc>>
    BY <1>1 DEF vars
  <2>2. \A l \in Loaders : HeldRows(l)'
    BY <2>1 DEF HeldRows, M, At, PublisherLastUpdated, RowsOf, Observed
  <2>3. \A l \in Loaders : Life(l)' = Life(l)
    BY <2>1 DEF Life, SeenBy, ActiveBy, M, At, PublisherLastUpdated, RowsOf,
       Observed, tables
  <2>4. \A l \in Loaders : LifeHeld(l)'
    BY <2>1, <2>3 DEF LifeHeld
  <2>5. LifecycleCovers' /\ LivesApart'
    BY <2>1 DEF LifeInv, LifecycleCovers, LivesApart, tables
  <2>. QED BY <2>2, <2>4, <2>5 DEF LifeInv
<1>2. ASSUME NEW l \in Loaders, UNCHANGED tables, LoadersAlone(l), pc'[l] = "open",
             \A k \in Loaders \ {l} : run'[k] = run[k] /\ pc'[k] = pc[k],
             tx'[l].information = {}, tx'[l].status = {}, tx'[l].lifecycle = <<>>
      PROVE  LifeInv'
  <2>1. HeldRows(l)' /\ LifeHeld(l)'
    BY <1>2 DEF HeldRows, LifeHeld
  <2>. QED BY <1>2, <2>1, LifeStays
<1>3. ASSUME NEW l \in Loaders, Collect(l) \/ LoadAll(l) PROVE LifeInv'
  <2>1. /\ UNCHANGED <<tables, tx, pc>> /\ run[l] = <<>>
        /\ \A k \in Loaders \ {l} : run'[k] = run[k]
    BY <1>3 DEF Collect, LoadAll, Shape
  <2>2. pc[l] = "open"
    BY <2>1 DEF Written
  <2>3. /\ tx[l].information = {} /\ tx[l].status = {}
        /\ tx[l].lifecycle = <<>>
    BY <2>2 DEF HeldRows, LifeHeld
  <2>. QED BY <1>2, <2>1, <2>2, <2>3 DEF LoadersAlone
<1>4. ASSUME NEW l \in Loaders, Fault(l) PROVE LifeInv'
  <2>1. /\ LoadersAlone(l) /\ UNCHANGED tables /\ tx'[l] = NoWrites
        /\ pc'[l] = "open"
        /\ \A k \in Loaders \ {l} : run'[k] = run[k] /\ pc'[k] = pc[k]
    BY <1>4 DEF Fault, RollbackTx, EndRun, Goto, LoadersAlone, Shape
  <2>2. /\ NoWrites.information = {} /\ NoWrites.status = {}
        /\ NoWrites.lifecycle = <<>>
    BY DEF NoWrites
  <2>. QED BY <1>2, <2>1, <2>2
<1>5. ASSUME NEW l \in Loaders, Begin(l) PROVE LifeInv'
  <2>1. /\ UNCHANGED tables /\ pc[l] = "open"
        /\ tx[l].information = {} /\ tx[l].status = {} /\ tx[l].lifecycle = <<>>
    BY <1>5 DEF Begin, Loading, HeldRows, LifeHeld
  <2>2. CASE EndRun(l) /\ UNCHANGED tx
    <3>1. pc'[l] = "open"
          /\ \A k \in Loaders \ {l} : run'[k] = run[k] /\ pc'[k] = pc[k]
      BY <2>2 DEF EndRun, Goto, Shape
    <3>. QED BY <1>2, <2>1, <2>2, <3>1 DEF LoadersAlone
  <2>3. CASE ReadLatest(l, M(l).feed) /\ Goto(l, "raw") /\ UNCHANGED run
    <3>1. /\ LoadersAlone(l) /\ tx'[l].lifecycle = <<>>
          /\ tx'[l].information = tx[l].information
          /\ tx'[l].status = tx[l].status
      BY <2>1, <2>3 DEF ReadLatest, LoadersAlone, Shape, Fields
    <3>. QED BY <2>1, <2>3, <3>1, HeldRowsStay, BeforeLife DEF Shape
  <2>. QED BY <1>5, <2>2, <2>3 DEF Begin
<1>6. ASSUME NEW l \in Loaders, InsertRawManifest(l) PROVE LifeInv'
  <2>1. /\ UNCHANGED <<tables, run>> /\ pc[l] = "raw" /\ Goto(l, "snapshot")
        /\ tx[l].lifecycle = <<>>
    BY <1>6 DEF InsertRawManifest, Loading, LifeHeld
  <2>2. /\ LoadersAlone(l) /\ tx'[l].lifecycle = <<>>
        /\ tx'[l].information = tx[l].information
        /\ tx'[l].status = tx[l].status
    BY <1>6, <2>1 DEF InsertRawManifest, InsertRaw, LoadersAlone, Shape, Fields
  <2>. QED BY <2>1, <2>2, HeldRowsStay, BeforeLife DEF Shape
<1>7. ASSUME NEW l \in Loaders, InsertLogicalSnapshot(l) PROVE LifeInv'
  <2>1. /\ UNCHANGED <<tables, run>> /\ pc[l] = "snapshot"
        /\ \E step \in {"commit", "rows"} : Goto(l, step)
        /\ tx[l].lifecycle = <<>> /\ tx[l].information = {} /\ tx[l].status = {}
    BY <1>7 DEF InsertLogicalSnapshot, Loading, LifeHeld, HeldRows
  <2>2. /\ LoadersAlone(l) /\ tx'[l].lifecycle = <<>>
        /\ tx'[l].information = {} /\ tx'[l].status = {}
    BY <1>7, <2>1
    DEF InsertLogicalSnapshot, InsertSnapshot, LoadersAlone, Shape, Fields
  <2>. QED BY <2>1, <2>2, HeldRowsStay, BeforeLife DEF Shape
<1>8. ASSUME NEW l \in Loaders, InsertRows(l) PROVE LifeInv'
  <2>1. /\ UNCHANGED <<tables, run>> /\ pc[l] = "rows"
        /\ tx[l].lifecycle = <<>> /\ tx[l].information = {} /\ tx[l].status = {}
    BY <1>8 DEF InsertRows, Loading, LifeHeld, HeldRows
  <2>2. CASE Goto(l, "watermark") /\ UNCHANGED tx
    BY <2>1, <2>2, HeldRowsStay, BeforeLife DEF Shape, LoadersAlone
  <2>3. CASE /\ M(l).feed = Info /\ Goto(l, "current")
             /\ InsertInformation(l, {InformationRow(l, s) : s \in DOMAIN RowsOf(l)})
    <3>1. /\ LoadersAlone(l) /\ tx'[l].lifecycle = <<>> /\ tx'[l].status = {}
          /\ tx'[l].information \subseteq {InformationRow(l, s) : s \in DOMAIN RowsOf(l)}
      BY <2>1, <2>3 DEF InsertInformation, NewRows, LoadersAlone, Shape, Fields
    <3>2. pc'[l] = "current"
      BY <2>3 DEF Goto, Shape
    <3>3. /\ M(l)' = M(l) /\ At(l)' = At(l) /\ RowsOf(l)' = RowsOf(l)
      BY <2>1 DEF M, At, PublisherLastUpdated, RowsOf
    <3>4. HeldRows(l)'
      BY <2>3, <3>1, <3>2, <3>3 DEF HeldRows, InformationRow
    <3>. QED BY <2>1, <2>3, <3>1, <3>4, BeforeLife DEF Shape
  <2>4. CASE /\ M(l).feed = Status /\ Goto(l, "lifecycle")
             /\ InsertStatus(l, {StatusRow(l, s) : s \in DOMAIN RowsOf(l)})
    <3>1. /\ LoadersAlone(l) /\ tx'[l].lifecycle = <<>> /\ tx'[l].information = {}
          /\ tx'[l].status \subseteq {StatusRow(l, s) : s \in DOMAIN RowsOf(l)}
      BY <2>1, <2>4 DEF InsertStatus, NewRows, LoadersAlone, Shape, Fields
    <3>2. pc'[l] = "lifecycle"
      BY <2>4 DEF Goto, Shape
    <3>3. /\ M(l)' = M(l) /\ At(l)' = At(l) /\ RowsOf(l)' = RowsOf(l)
          /\ \A s : Observed(l, s)' = Observed(l, s)
      BY <2>1 DEF M, At, PublisherLastUpdated, RowsOf, Observed
    <3>4. HeldRows(l)'
      BY <2>4, <3>1, <3>2, <3>3 DEF HeldRows, StatusRow
    <3>. QED BY <2>1, <2>4, <3>1, <3>4, BeforeLife DEF Shape
  <2>. QED BY <1>8, <2>2, <2>3, <2>4 DEF InsertRows
<1>9. ASSUME NEW l \in Loaders, SelectCurrent(l) PROVE LifeInv'
  <2>1. /\ UNCHANGED <<tables, run>> /\ pc[l] = "current" /\ Goto(l, "scd")
        /\ tx[l].lifecycle = <<>>
    BY <1>9 DEF SelectCurrent, Loading, LifeHeld
  <2>2. /\ LoadersAlone(l) /\ tx'[l].lifecycle = <<>> /\ pc'[l] = "scd"
        /\ tx'[l].information = tx[l].information
        /\ tx'[l].status = tx[l].status
    BY <1>9, <2>1 DEF SelectCurrent, ReadCurrent, LoadersAlone, Shape, Fields, Goto
  <2>. QED BY <2>1, <2>2, HeldRowsStay, BeforeLife DEF Shape
<1>10. ASSUME NEW l \in Loaders, WriteStationsScd(l) PROVE LifeInv'
  <2>1. /\ UNCHANGED <<tables, run>> /\ pc[l] = "scd" /\ Goto(l, "lifecycle")
        /\ tx[l].lifecycle = <<>>
    BY <1>10 DEF WriteStationsScd, Loading, LifeHeld
  <2>2. /\ LoadersAlone(l) /\ tx'[l].lifecycle = <<>> /\ pc'[l] = "lifecycle"
        /\ tx'[l].information = tx[l].information
        /\ tx'[l].status = tx[l].status
    BY <1>10, <2>1 DEF WriteStationsScd, WriteScd, Closing, Opening, LoadersAlone, Shape, Fields, Goto
  <2>. QED BY <2>1, <2>2, HeldRowsStay, BeforeLife DEF Shape
<1>11. ASSUME NEW l \in Loaders, UpsertLifecycle(l) PROVE LifeInv'
  BY <1>11, TakeLife
<1>12. ASSUME NEW l \in Loaders, UpsertDatasetWatermark(l) PROVE LifeInv'
  <2>1. /\ UNCHANGED <<tables, run>> /\ pc[l] = "watermark" /\ Goto(l, "commit")
        /\ UpsertWatermarkRow(l, M(l).feed, At(l))
    BY <1>12 DEF UpsertDatasetWatermark, Loading
  <2>2. /\ LoadersAlone(l) /\ pc'[l] = "commit"
        /\ \A k \in Loaders \ {l} : pc'[k] = pc[k]
        /\ tx'[l].lifecycle = tx[l].lifecycle
        /\ tx'[l].information = tx[l].information
        /\ tx'[l].status = tx[l].status
    BY <2>1 DEF UpsertWatermarkRow, LoadersAlone, Shape, Fields, Goto
  <2>3. Life(l)' = Life(l)
    BY <2>1 DEF Life, SeenBy, ActiveBy, M, At, PublisherLastUpdated, RowsOf,
       Observed, tables
  <2>4. HeldRows(l)' /\ LifeHeld(l)'
    BY <2>1, <2>2, <2>3, HeldRowsStay DEF LifeHeld
  <2>. QED BY <2>1, <2>2, <2>4, LifeStays DEF LifeInv, LivesApart
<1>13. ASSUME NEW l \in Loaders, Commit(l) PROVE LifeInv'
  BY <1>13, CommitLife
<1>. QED
  BY <1>1, <1>3, <1>4, <1>5, <1>6, <1>7, <1>8, <1>9, <1>10, <1>11, <1>12, <1>13
  DEF Next, Step

------------------------------------------------------------------------------
(* stations_scd is a history as long as information is loaded in order.    *)

InfoLoad(l) == pc[l] # "open" /\ M(l).feed = Info

InfoAts == {s.at : s \in {t \in logical_snapshots : t.feed = Info}}

OpenRows == {r \in stations_scd : r.valid_to = Null}

\* The stations of a load that the history knows nothing of, or other things.
ChangedBy(l) ==
  {s \in DOMAIN RowsOf(l) :
     \/ \A r \in OpenRows : r.station # s
     \/ \E r \in OpenRows : r.station = s /\ r.spec # RowsOf(l)[s]}

Opened(l, s) == [station |-> s, valid_from |-> At(l), valid_to |-> Null,
                 spec |-> RowsOf(l)[s]]

\* What a load has written of the history, statement by statement.
Historic(l) ==
  IF InfoLoad(l)
  THEN /\ tx[l].information = IF pc[l] \in {"raw", "snapshot", "rows"} THEN {}
                              ELSE {InformationRow(l, s) : s \in DOMAIN RowsOf(l)}
       /\ pc[l] = "scd" =>
            tx[l].current = {r \in OpenRows : r.station \in DOMAIN RowsOf(l)}
       /\ IF pc[l] \in {"lifecycle", "watermark", "commit"}
          THEN /\ tx[l].closed = {r \in OpenRows : r.station \in ChangedBy(l)}
               /\ tx[l].opened = {Opened(l, s) : s \in ChangedBy(l)}
          ELSE tx[l].closed = {} /\ tx[l].opened = {}
  ELSE tx[l].information = {} /\ tx[l].closed = {} /\ tx[l].opened = {}

\* One information load at a time, of a snapshot newer than all.
Alone == /\ \A k, l \in Loaders : InfoLoad(k) /\ InfoLoad(l) => k = l
         /\ \A l \in Loaders : InfoLoad(l) => \A at \in InfoAts : at < At(l)

\* The rows are of loaded snapshots, unique by their keys, and a station the
\* history knows has an open row.
Rowed ==
  /\ \A r \in snapshot_station_information : r.at \in InfoAts
  /\ \A q, r \in snapshot_station_information : SameStation(q, r) => q = r
  /\ \A r \in stations_scd : /\ r.valid_from \in InfoAts
                             /\ r.valid_to \in InfoAts \cup {Null}
                             /\ \E o \in OpenRows : o.station = r.station
  /\ \A q, r \in stations_scd : SameScd(q, r) => q = r

\* What HistoryTiles says of a station, row by row.
OpenIsLast == \A r \in stations_scd :
  r.valid_to = Null <=> \A q \in stations_scd :
                          q.station = r.station => q.valid_from <= r.valid_from
ClosedIsFollowed == \A r \in stations_scd : r.valid_to # Null =>
  /\ r.valid_from < r.valid_to
  /\ \E q \in stations_scd : /\ q.station = r.station
                             /\ q.valid_from = r.valid_to /\ q.spec # r.spec
  /\ \A q \in stations_scd : q.station = r.station =>
       q.valid_from <= r.valid_from \/ q.valid_from >= r.valid_to
NewestIsOpen == \A i \in snapshot_station_information :
  (\A j \in snapshot_station_information : j.station = i.station => j.at <= i.at) =>
    \E r \in stations_scd : r.station = i.station /\ r.valid_to = Null
                              /\ r.spec = i.spec

Tiles == OpenIsLast /\ ClosedIsFollowed /\ NewestIsOpen

HistoryInv == /\ TypeInv
              /\ inOrder => Alone /\ Rowed /\ Tiles /\ \A l \in Loaders : Historic(l)

\* Row by row is station by station.
LEMMA TilesHistory == TypeInv /\ (inOrder => Tiles) => HistoryTiles
<1>. SUFFICES ASSUME TypeInv, inOrder, Tiles, NEW s \in Stations
              PROVE  LET rows == ScdOf(s)
                         told == {r \in snapshot_station_information : r.station = s}
                     IN /\ \A r \in rows : r.valid_to = Null <=>
                             \A q \in rows : q.valid_from <= r.valid_from
                        /\ \A r \in rows : r.valid_to # Null =>
                             /\ r.valid_from < r.valid_to
                             /\ \E q \in rows : q.valid_from = r.valid_to
                                                  /\ q.spec # r.spec
                             /\ \A q \in rows : q.valid_from <= r.valid_from
                                                  \/ q.valid_from >= r.valid_to
                        /\ \A i \in told : (\A j \in told : j.at <= i.at) =>
                             \E r \in rows : r.valid_to = Null /\ r.spec = i.spec
  BY DEF HistoryTiles
<1>. DEFINE rows == ScdOf(s)
            told == {r \in snapshot_station_information : r.station = s}
<1>1. \A r : r \in rows <=> r \in stations_scd /\ r.station = s
  BY DEF ScdOf
<1>2. \A r \in rows : r.valid_to = Null <=>
        \A q \in rows : q.valid_from <= r.valid_from
  BY <1>1 DEF Tiles, OpenIsLast
<1>3. \A r \in rows : r.valid_to # Null =>
        /\ r.valid_from < r.valid_to
        /\ \E q \in rows : q.valid_from = r.valid_to /\ q.spec # r.spec
        /\ \A q \in rows : q.valid_from <= r.valid_from
                             \/ q.valid_from >= r.valid_to
  BY <1>1 DEF Tiles, ClosedIsFollowed
<1>4. \A i \in told : (\A j \in told : j.at <= i.at) =>
        \E r \in rows : r.valid_to = Null /\ r.spec = i.spec
  BY <1>1 DEF Tiles, NewestIsOpen
<1>. QED BY <1>2, <1>3, <1>4

\* The empty tables satisfy the invariant.
LEMMA InitHistory == Init => HistoryInv
<1>. SUFFICES ASSUME Init PROVE HistoryInv
  OBVIOUS
<1>1. TypeInv
  BY InitType
<1>2. \A l \in Loaders : /\ pc[l] = "open" /\ tx[l].information = {}
                         /\ tx[l].closed = {} /\ tx[l].opened = {}
  BY DEF Init, TablesInit, NoWrites
<1>3. stations_scd = {} /\ snapshot_station_information = {}
  BY DEF Init, TablesInit
<1>. QED
  BY <1>1, <1>2, <1>3 DEF HistoryInv, Alone, Rowed, Tiles, OpenIsLast,
     ClosedIsFollowed, NewestIsOpen, Historic, InfoLoad

\* A step that commits nothing, begins no load and writes what it should.
LEMMA HistoryStays ==
  ASSUME HistoryInv, TypeInv', NEW l \in Loaders, LoadersAlone(l), UNCHANGED tables,
         inOrder' => inOrder,
         \A k \in Loaders \ {l} : run'[k] = run[k] /\ pc'[k] = pc[k],
         InfoLoad(l)' => InfoLoad(l) /\ At(l)' = At(l),
         inOrder => Historic(l)'
  PROVE  HistoryInv'
<1>. SUFFICES ASSUME inOrder', inOrder
              PROVE  Alone' /\ Rowed' /\ Tiles' /\ \A k \in Loaders : Historic(k)'
  BY DEF HistoryInv
<1>1. Rowed' /\ Tiles'
  BY DEF HistoryInv, Rowed, Tiles, OpenIsLast, ClosedIsFollowed, NewestIsOpen,
     InfoAts, OpenRows, tables
<1>2. \A k \in Loaders \ {l} : /\ M(k)' = M(k) /\ At(k)' = At(k)
                               /\ RowsOf(k)' = RowsOf(k) /\ tx'[k] = tx[k]
                               /\ InfoLoad(k)' <=> InfoLoad(k)
  BY DEF M, At, PublisherLastUpdated, RowsOf, InfoLoad, LoadersAlone
<1>3. Alone'
  <2>1. InfoAts' = InfoAts
    BY DEF InfoAts, tables
  <2>2. \A k \in Loaders : InfoLoad(k)' => InfoLoad(k) /\ At(k)' = At(k)
    BY <1>2
  <2>. QED BY <2>1, <2>2 DEF HistoryInv, Alone
<1>4. ASSUME NEW k \in Loaders \ {l} PROVE Historic(k)'
  <2>1. OpenRows' = OpenRows
    BY DEF OpenRows, tables
  <2>2. ChangedBy(k)' = ChangedBy(k)
    BY <1>2, <2>1 DEF ChangedBy
  <2>3. \A s : /\ Opened(k, s)' = Opened(k, s)
               /\ InformationRow(k, s)' = InformationRow(k, s)
    BY <1>2 DEF Opened, InformationRow
  <2>. QED BY <1>2, <2>1, <2>2, <2>3 DEF HistoryInv, Historic
<1>. QED BY <1>1, <1>3, <1>4

\* An open row is the only one of its station.
LEMMA OneOpen ==
  ASSUME TypeInv, Rowed, OpenIsLast, NEW q \in OpenRows, NEW r \in OpenRows,
         q.station = r.station
  PROVE  q = r
<1>1. /\ q \in stations_scd /\ r \in stations_scd
      /\ q.valid_to = Null /\ r.valid_to = Null
  BY DEF OpenRows
<1>2. q.valid_from \in Nat /\ r.valid_from \in Nat
  BY <1>1, GbfsTablesAssumption DEF TypeInv, LoaderTypeOK, ScdRow
<1>3. q.valid_from <= r.valid_from /\ r.valid_from <= q.valid_from
  BY <1>1 DEF OpenIsLast
<1>4. SameScd(q, r)
  BY <1>2, <1>3 DEF SameScd
<1>. QED BY <1>1, <1>4 DEF Rowed

\* COMMIT of an information load, the only one, of the newest snapshot.
LEMMA CommitTiles ==
  ASSUME HistoryInv, inOrder, NEW l \in Loaders, Commit(l), InfoLoad(l)
  PROVE  Rowed' /\ Tiles'
<1>. DEFINE at == At(l)
            changed == ChangedBy(l)
            closed == {r \in OpenRows : r.station \in changed}
            Closed(o) == [o EXCEPT !.valid_to = at]
            info == snapshot_station_information
<1>1. /\ TypeInv /\ LoaderTypeOK /\ Alone /\ Rowed /\ Tiles /\ Historic(l)
      /\ pc[l] = "commit" /\ M(l).feed = Info /\ Written(l)
      /\ OpenIsLast /\ ClosedIsFollowed /\ NewestIsOpen
  BY DEF HistoryInv, TypeInv, WatermarkInv, Base, RawInv, Commit, Loading,
         InfoLoad, Tiles
<1>2. at \in Nat /\ at # Null /\ \A a \in InfoAts : a \in Nat /\ a < at /\ a # Null
  <2>1. at \in Times /\ InfoAts \subseteq Times
    BY <1>1, LoadedTyped
    DEF TypeInv, WatermarkInv, Base, LoaderTypeOK, InfoAts, Keys
  <2>. QED BY <1>1, <2>1, GbfsTablesAssumption DEF Alone, Null, InfoLoad
<1>3. /\ stations_scd' = (stations_scd \ closed) \cup {Opened(l, s) : s \in changed}
                           \cup {Closed(o) : o \in closed}
      /\ info' = info \cup {InformationRow(l, s) : s \in DOMAIN RowsOf(l)}
  BY <1>1 DEF Commit, CommitTx, Historic, InfoLoad
<1>4. InfoAts' = InfoAts \cup {at}
  <2>1. tx[l].snapshots = {Key(l)}
    <3>1. ~Taken(l)
      BY <1>1, <1>2 DEF Taken, SnapshotsOf, Key, InfoAts
    <3>. QED BY <1>1, <3>1 DEF Written
  <2>2. logical_snapshots' = logical_snapshots \cup {Key(l)}
    BY <2>1 DEF Commit, CommitTx
  <2>3. Key(l).feed = Info /\ Key(l).at = at
    BY <1>1 DEF Key
  <2>. QED BY <2>2, <2>3 DEF InfoAts
<1>5. /\ \A r \in stations_scd : /\ r \in ScdRow /\ r.valid_from \in Nat
                                 /\ r.valid_from < at
                                 /\ r.valid_to # Null => r.valid_to < at
                                 /\ r.valid_to \in Nat
      /\ \A i \in info : i.at \in Nat /\ i.at < at
  BY <1>1, <1>2 DEF Rowed, LoaderTypeOK, Null
<1>6. \A s : /\ Opened(l, s).station = s /\ Opened(l, s).valid_from = at
             /\ Opened(l, s).valid_to = Null /\ Opened(l, s).spec = RowsOf(l)[s]
             /\ InformationRow(l, s).at = at /\ InformationRow(l, s).station = s
             /\ InformationRow(l, s).spec = RowsOf(l)[s]
  BY DEF Opened, InformationRow
<1>7. \A o \in closed : /\ o \in stations_scd /\ o.valid_to = Null
                        /\ o.station \in changed /\ Closed(o).station = o.station
                        /\ Closed(o).valid_from = o.valid_from
                        /\ Closed(o).valid_to = at /\ Closed(o).spec = o.spec
  BY <1>5 DEF OpenRows, ScdRow
<1>8. changed \subseteq DOMAIN RowsOf(l)
  BY DEF ChangedBy
<1>. HIDE DEF at, changed, closed, Closed
\* A row afterwards is a new one, or one that was there, closed or not.
<1>9. ASSUME NEW r \in stations_scd'
      PROVE  \/ \E s \in changed : r = Opened(l, s)
             \/ r \in stations_scd /\ r \notin closed
             \/ \E o \in closed : r = Closed(o)
  BY <1>3
<1>10. ASSUME NEW r \in stations_scd', ~\E s \in changed : r = Opened(l, s)
       PROVE  \E o \in stations_scd :
                /\ o.station = r.station /\ o.valid_from = r.valid_from
                /\ o.spec = r.spec
                /\ \/ r = o /\ o \notin closed
                   \/ r = Closed(o) /\ o \in closed
  BY <1>7, <1>9, <1>10
<1>11. ASSUME NEW o \in stations_scd
       PROVE  \E r \in stations_scd' :
                o.station = r.station /\ o.valid_from = r.valid_from /\ o.spec = r.spec
  <2>1. CASE o \in closed
    BY <1>3, <1>7, <2>1
  <2>2. CASE o \notin closed
    BY <1>3, <2>2
  <2>. QED BY <2>1, <2>2
<1>12. \A o \in OpenRows : o.station \in changed => o \in closed
  BY DEF closed
<1>13. OpenRows \subseteq stations_scd /\ \A o \in OpenRows : o.valid_to = Null
  BY DEF OpenRows
<1>14. \A s \in changed : Opened(l, s) \in OpenRows'
  BY <1>3, <1>6 DEF OpenRows
<1>15. \A o \in OpenRows : o \notin closed => o \in OpenRows'
  BY <1>3, <1>13 DEF OpenRows
<1>16. Rowed'
  <2>1. \A r \in info' : r.at \in InfoAts'
    BY <1>1, <1>3, <1>4, <1>6 DEF Rowed
  <2>2. \A q, r \in info' : SameStation(q, r) => q = r
    BY <1>1, <1>3, <1>5, <1>6 DEF Rowed, SameStation
  <2>3. ASSUME NEW r \in stations_scd'
        PROVE  /\ r.valid_from \in InfoAts' /\ r.valid_to \in InfoAts' \cup {Null}
               /\ \E o \in OpenRows' : o.station = r.station
    <3>1. CASE \E s \in changed : r = Opened(l, s)
      BY <1>4, <1>6, <1>14, <3>1
    <3>2. CASE ~\E s \in changed : r = Opened(l, s)
      <4>1. PICK o \in stations_scd :
              /\ o.station = r.station /\ o.valid_from = r.valid_from
              /\ \/ r = o /\ o \notin closed
                 \/ r = Closed(o) /\ o \in closed
        BY <1>10, <3>2
      <4>2. r.valid_from \in InfoAts' /\ r.valid_to \in InfoAts' \cup {Null}
        BY <1>1, <1>4, <1>7, <4>1 DEF Rowed
      <4>3. PICK p \in OpenRows : p.station = r.station
        BY <1>1, <4>1 DEF Rowed
      <4>4. \E p1 \in OpenRows' : p1.station = r.station
        BY <1>6, <1>7, <1>14, <1>15, <4>3
      <4>. QED BY <4>2, <4>4
    <3>. QED BY <3>1, <3>2
  <2>4. ASSUME NEW q \in stations_scd', NEW r \in stations_scd', SameScd(q, r)
        PROVE  q = r
    <3>0. q.station = r.station /\ q.valid_from = r.valid_from
      BY <2>4 DEF SameScd
    <3>1. CASE \E s \in changed : q = Opened(l, s)
      BY <1>5, <1>6, <1>10, <3>0, <3>1
    <3>2. CASE \E s \in changed : r = Opened(l, s)
      BY <1>5, <1>6, <1>10, <3>0, <3>2
    <3>3. CASE /\ ~\E s \in changed : q = Opened(l, s)
               /\ ~\E s \in changed : r = Opened(l, s)
      <4>1. PICK o \in stations_scd :
              /\ o.station = q.station /\ o.valid_from = q.valid_from
              /\ \/ q = o /\ o \notin closed
                 \/ q = Closed(o) /\ o \in closed
        BY <1>10, <3>3
      <4>2. PICK p \in stations_scd :
              /\ p.station = r.station /\ p.valid_from = r.valid_from
              /\ \/ r = p /\ p \notin closed
                 \/ r = Closed(p) /\ p \in closed
        BY <1>10, <3>3
      <4>3. o = p
        BY <1>1, <3>0, <4>1, <4>2 DEF Rowed, SameScd
      <4>. QED BY <4>1, <4>2, <4>3
    <3>. QED BY <3>1, <3>2, <3>3
  <2>. QED BY <2>1, <2>2, <2>3, <2>4 DEF Rowed
<1>17. OpenIsLast'
  <2>. SUFFICES ASSUME NEW r \in stations_scd'
                PROVE  r.valid_to = Null <=> \A q \in stations_scd' :
                         q.station = r.station => q.valid_from <= r.valid_from
    BY DEF OpenIsLast
  <2>1. CASE \E s \in changed : r = Opened(l, s)
    BY <1>2, <1>5, <1>6, <1>10, <2>1
  <2>2. CASE ~\E s \in changed : r = Opened(l, s)
    <3>1. PICK o \in stations_scd :
            /\ o.station = r.station /\ o.valid_from = r.valid_from
            /\ \/ r = o /\ o \notin closed
               \/ r = Closed(o) /\ o \in closed
      BY <1>10, <2>2
    <3>2. CASE r.station \in changed
      <4>1. r.valid_to # Null
        BY <1>2, <1>7, <1>12, <3>1, <3>2 DEF OpenRows
      <4>2. /\ Opened(l, r.station) \in stations_scd'
            /\ ~(Opened(l, r.station).valid_from <= r.valid_from)
        BY <1>2, <1>3, <1>5, <1>6, <3>1, <3>2
      <4>. QED BY <1>6, <4>1, <4>2
    <3>3. CASE r.station \notin changed
      <4>1. r = o
        BY <1>7, <3>1, <3>3
      <4>2. ASSUME NEW q \in stations_scd', q.station = r.station
            PROVE  \E p \in stations_scd :
                     p.station = r.station /\ p.valid_from = q.valid_from
        BY <1>6, <1>10, <3>3, <4>2
      <4>. QED BY <1>1, <1>11, <4>1, <4>2 DEF OpenIsLast
    <3>. QED BY <3>2, <3>3
  <2>. QED BY <2>1, <2>2
<1>18. ClosedIsFollowed'
  <2>. SUFFICES ASSUME NEW r \in stations_scd', r.valid_to # Null
                PROVE  /\ r.valid_from < r.valid_to
                       /\ \E q \in stations_scd' :
                            /\ q.station = r.station
                            /\ q.valid_from = r.valid_to /\ q.spec # r.spec
                       /\ \A q \in stations_scd' : q.station = r.station =>
                            q.valid_from <= r.valid_from \/ q.valid_from >= r.valid_to
    BY DEF ClosedIsFollowed
  <2>1. PICK o \in stations_scd :
          /\ o.station = r.station /\ o.valid_from = r.valid_from /\ o.spec = r.spec
          /\ \/ r = o /\ o \notin closed
             \/ r = Closed(o) /\ o \in closed
    BY <1>6, <1>10
  <2>2. \A q \in stations_scd' : \/ q.valid_from = at
                                 \/ \E p \in stations_scd :
                                      /\ p.station = q.station
                                      /\ p.valid_from = q.valid_from
    BY <1>6, <1>10
  <2>3. CASE r = o
    <3>1. /\ r.valid_from < r.valid_to
          /\ \E q \in stations_scd : /\ q.station = r.station
                                     /\ q.valid_from = r.valid_to /\ q.spec # r.spec
          /\ \A q \in stations_scd : q.station = r.station =>
               q.valid_from <= r.valid_from \/ q.valid_from >= r.valid_to
      BY <1>1, <2>1, <2>3 DEF ClosedIsFollowed
    <3>2. at >= r.valid_to
      BY <1>2, <1>5, <2>1, <2>3
    <3>3. \E q \in stations_scd' : /\ q.station = r.station
                                   /\ q.valid_from = r.valid_to /\ q.spec # r.spec
      BY <1>11, <3>1
    <3>4. \A q \in stations_scd' : q.station = r.station =>
            q.valid_from <= r.valid_from \/ q.valid_from >= r.valid_to
      BY <2>2, <3>1, <3>2
    <3>. QED BY <3>1, <3>3, <3>4
  <2>4. CASE r = Closed(o) /\ o \in closed
    <3>1. /\ r.valid_to = at /\ r.station \in changed /\ o \in OpenRows
          /\ r.valid_from < at
      BY <1>5, <1>7, <2>1, <2>4 DEF closed
    <3>2. RowsOf(l)[r.station] # o.spec
      <4>1. PICK p \in OpenRows : p.station = r.station
                                   /\ p.spec # RowsOf(l)[r.station]
        BY <2>1, <3>1 DEF changed, ChangedBy
      <4>2. p = o
        BY <1>1, <2>1, <3>1, <4>1, OneOpen
      <4>. QED BY <4>1, <4>2
    <3>3. \E q \in stations_scd' : /\ q.station = r.station
                                   /\ q.valid_from = r.valid_to /\ q.spec # r.spec
      BY <1>3, <1>6, <2>1, <3>1, <3>2
    <3>4. \A q \in stations_scd : q.station = r.station =>
            q.valid_from <= r.valid_from
      BY <1>1, <1>13, <2>1, <3>1 DEF OpenIsLast
    <3>5. \A q \in stations_scd' : q.station = r.station =>
            q.valid_from <= r.valid_from \/ q.valid_from >= r.valid_to
      BY <1>2, <2>2, <3>1, <3>4
    <3>. QED BY <3>1, <3>3, <3>5
  <2>. QED BY <2>1, <2>3, <2>4
<1>19. NewestIsOpen'
  <2>. SUFFICES ASSUME NEW i \in info',
                       \A j \in info' : j.station = i.station => j.at <= i.at
                PROVE  \E r \in stations_scd' : /\ r.station = i.station
                                                /\ r.valid_to = Null /\ r.spec = i.spec
    BY DEF NewestIsOpen
  <2>1. CASE i.station \in DOMAIN RowsOf(l)
    <3>1. i = InformationRow(l, i.station)
      <4>1. i \in info => FALSE
        <5>1. SUFFICES ASSUME i \in info PROVE FALSE
          OBVIOUS
        <5>2. /\ InformationRow(l, i.station) \in info'
              /\ InformationRow(l, i.station).at <= i.at
          BY <1>3, <1>6, <2>1
        <5>. QED BY <1>2, <1>5, <1>6, <5>1, <5>2
      <4>. QED BY <1>3, <1>6, <4>1
    <3>2. CASE i.station \in changed
      BY <1>3, <1>6, <3>1, <3>2
    <3>3. CASE i.station \notin changed
      <4>1. PICK r \in OpenRows : r.station = i.station
                                   /\ r.spec = RowsOf(l)[i.station]
        BY <2>1, <3>3 DEF changed, ChangedBy
      <4>2. r \notin closed
        BY <1>7, <3>3, <4>1
      <4>. QED BY <1>3, <1>6, <1>13, <3>1, <4>1, <4>2
    <3>. QED BY <3>2, <3>3
  <2>2. CASE i.station \notin DOMAIN RowsOf(l)
    <3>1. i \in info
      BY <1>3, <1>6, <2>2
    <3>2. PICK r \in stations_scd :
            r.station = i.station /\ r.valid_to = Null /\ r.spec = i.spec
      BY <1>1, <1>3, <3>1 DEF NewestIsOpen
    <3>3. r \notin closed
      BY <1>7, <1>8, <2>2, <3>2
    <3>. QED BY <1>3, <3>2, <3>3
  <2>. QED BY <2>1, <2>2
<1>. QED BY <1>16, <1>17, <1>18, <1>19 DEF Tiles

\* COMMIT of any load.
LEMMA CommitHistory ==
  ASSUME HistoryInv, TypeInv', NEW l \in Loaders, Commit(l)
  PROVE  HistoryInv'
<1>. SUFFICES ASSUME inOrder
              PROVE  Alone' /\ Rowed' /\ Tiles' /\ \A k \in Loaders : Historic(k)'
  BY DEF HistoryInv, Commit
<1>1. /\ TypeInv /\ Shape /\ Alone /\ Rowed /\ Tiles
      /\ \A k \in Loaders : Historic(k) /\ Written(k)
      /\ pc[l] = "commit"
  BY DEF HistoryInv, TypeInv, WatermarkInv, Base, RawInv, Commit, Loading
<1>2. /\ LoadersAlone(l) /\ tx'[l] = NoWrites /\ pc'[l] = "open"
      /\ \A k \in Loaders \ {l} : run'[k] = run[k] /\ pc'[k] = pc[k]
  BY <1>1 DEF Shape, LoadersAlone, Commit, CommitTx, Goto
<1>3. \A k \in Loaders \ {l} : /\ M(k)' = M(k) /\ At(k)' = At(k)
                               /\ RowsOf(k)' = RowsOf(k) /\ tx'[k] = tx[k]
                               /\ InfoLoad(k)' <=> InfoLoad(k)
  BY <1>2 DEF M, At, PublisherLastUpdated, RowsOf, InfoLoad, LoadersAlone
<1>4. ~InfoLoad(l)'
  BY <1>2 DEF InfoLoad
<1>5. Historic(l)'
  <2>1. /\ tx'[l].information = {} /\ tx'[l].closed = {} /\ tx'[l].opened = {}
    BY <1>2 DEF NoWrites
  <2>. QED BY <1>4, <2>1 DEF Historic
<1>6. CASE InfoLoad(l)
  <2>1. Rowed' /\ Tiles'
    BY <1>6, CommitTiles
  <2>2. \A k \in Loaders \ {l} : ~InfoLoad(k)
    BY <1>1, <1>6 DEF Alone
  <2>3. \A k \in Loaders : ~InfoLoad(k)'
    BY <1>3, <1>4, <2>2
  <2>4. \A k \in Loaders \ {l} : Historic(k)'
    BY <1>1, <1>3, <2>2, <2>3 DEF Historic
  <2>. QED BY <1>5, <2>1, <2>3, <2>4 DEF Alone
<1>7. CASE ~InfoLoad(l)
  <2>1. /\ tx[l].information = {} /\ tx[l].closed = {} /\ tx[l].opened = {}
    BY <1>1, <1>7 DEF Historic
  <2>2. /\ stations_scd' = stations_scd
        /\ snapshot_station_information' = snapshot_station_information
    BY <2>1 DEF Commit, CommitTx
  <2>3. InfoAts' = InfoAts
    <3>1. \A s \in tx[l].snapshots : s.feed # Info
      BY <1>1, <1>7 DEF Written, Key, InfoLoad
    <3>2. logical_snapshots' = logical_snapshots \cup tx[l].snapshots
      BY DEF Commit, CommitTx
    <3>. QED BY <3>1, <3>2 DEF InfoAts
  <2>4. Rowed' /\ Tiles'
    BY <1>1, <2>2, <2>3
    DEF Rowed, Tiles, OpenIsLast, ClosedIsFollowed, NewestIsOpen, OpenRows
  <2>5. Alone'
    <3>1. \A k \in Loaders : InfoLoad(k)' => InfoLoad(k) /\ At(k)' = At(k)
      BY <1>3, <1>4
    <3>. QED BY <1>1, <2>3, <3>1 DEF Alone
  <2>6. ASSUME NEW k \in Loaders \ {l} PROVE Historic(k)'
    <3>1. OpenRows' = OpenRows
      BY <2>2 DEF OpenRows
    <3>2. ChangedBy(k)' = ChangedBy(k)
      BY <1>3, <3>1 DEF ChangedBy
    <3>3. \A s : /\ Opened(k, s)' = Opened(k, s)
                 /\ InformationRow(k, s)' = InformationRow(k, s)
      BY <1>3 DEF Opened, InformationRow
    <3>. QED BY <1>1, <1>2, <1>3, <3>1, <3>2, <3>3 DEF Historic
  <2>. QED BY <1>5, <2>4, <2>5, <2>6
<1>. QED BY <1>6, <1>7

\* A load begins; an information load alone, and of a newer snapshot, as long
\* as the history is in order.
LEMMA BeginHistory ==
  ASSUME HistoryInv, TypeInv', NEW l \in Loaders, Begin(l),
         ReadLatest(l, M(l).feed), Goto(l, "raw"), UNCHANGED run,
         inOrder' = (inOrder /\ (M(l).feed = Info =>
           /\ \A k \in Others(l) : InProgress(k) => M(k).feed # Info
           /\ \A s \in logical_snapshots : s.feed = Info => s.at < At(l)))
  PROVE  HistoryInv'
<1>. SUFFICES ASSUME inOrder, M(l).feed = Info =>
                /\ \A k \in Others(l) : InProgress(k) => M(k).feed # Info
                /\ \A s \in logical_snapshots : s.feed = Info => s.at < At(l)
              PROVE  Alone' /\ Rowed' /\ Tiles' /\ \A k \in Loaders : Historic(k)'
  BY DEF HistoryInv
<1>1. /\ TypeInv /\ Shape /\ Alone /\ Rowed /\ Tiles
      /\ \A k \in Loaders : Historic(k) /\ Written(k)
      /\ pc[l] = "open" /\ UNCHANGED tables
  BY DEF HistoryInv, TypeInv, WatermarkInv, Base, RawInv, Begin, Loading
<1>2. /\ LoadersAlone(l) /\ tx'[l].information = tx[l].information
      /\ tx'[l].closed = tx[l].closed /\ tx'[l].opened = tx[l].opened
      /\ pc'[l] = "raw" /\ \A k \in Loaders \ {l} : pc'[k] = pc[k]
  BY <1>1 DEF ReadLatest, LoadersAlone, Shape, Fields, Goto
<1>3. \A k \in Loaders : /\ M(k)' = M(k) /\ At(k)' = At(k) /\ RowsOf(k)' = RowsOf(k)
  BY DEF M, At, PublisherLastUpdated, RowsOf
<1>4. InfoAts' = InfoAts /\ OpenRows' = OpenRows
  BY <1>1 DEF InfoAts, OpenRows, tables
<1>5. Rowed' /\ Tiles'
  BY <1>1, <1>4 DEF Rowed, Tiles, OpenIsLast, ClosedIsFollowed, NewestIsOpen, tables
<1>6. Alone'
  <2>1. \A k \in Loaders \ {l} : InfoLoad(k)' <=> InfoLoad(k)
    BY <1>2, <1>3 DEF InfoLoad
  <2>2. \A k \in Loaders : InfoLoad(k) => InProgress(k)
    BY <1>1 DEF InfoLoad, InProgress, Written
  <2>3. InfoLoad(l)' => /\ \A k \in Loaders \ {l} : ~InfoLoad(k)
                        /\ \A at \in InfoAts : at < At(l)
    BY <1>3, <2>2 DEF InfoLoad, Others, InfoAts
  <2>. QED BY <1>1, <1>3, <1>4, <2>1, <2>3 DEF Alone
<1>7. Historic(l)'
  BY <1>1, <1>2 DEF Historic, InfoLoad
<1>8. ASSUME NEW k \in Loaders \ {l} PROVE Historic(k)'
  <2>1. ChangedBy(k)' = ChangedBy(k)
    BY <1>3, <1>4 DEF ChangedBy
  <2>2. \A s : /\ Opened(k, s)' = Opened(k, s)
               /\ InformationRow(k, s)' = InformationRow(k, s)
    BY <1>3 DEF Opened, InformationRow
  <2>3. tx'[k] = tx[k] /\ (InfoLoad(k)' <=> InfoLoad(k))
    BY <1>2, <1>3 DEF InfoLoad, LoadersAlone
  <2>4. CASE ~InfoLoad(k)
    BY <1>1, <2>3, <2>4 DEF Historic
  <2>5. CASE InfoLoad(k)
    <3>1. Historic(k) /\ pc'[k] = pc[k]
      BY <1>1, <1>2
    <3>. QED BY <1>3, <1>4, <2>1, <2>2, <2>3, <2>5, <3>1 DEF Historic
  <2>. QED BY <2>4, <2>5
<1>. QED BY <1>5, <1>6, <1>7, <1>8

\* The stations_scd statement writes the changes and nothing else.
LEMMA ScdHistory ==
  ASSUME HistoryInv, TypeInv', NEW l \in Loaders, WriteStationsScd(l)
  PROVE  inOrder => Historic(l)'
<1>. SUFFICES ASSUME inOrder PROVE Historic(l)'
  OBVIOUS
<1>. DEFINE current == {r \in OpenRows : r.station \in DOMAIN RowsOf(l)}
            changed == Changed(l, RowsOf(l))
            closing == {r \in tx[l].current : r.station \in changed}
            opening == {Opened(l, s) : s \in changed}
<1>1. /\ TypeInv /\ LoaderTypeOK /\ Shape /\ Alone /\ Rowed /\ Historic(l)
      /\ pc[l] = "scd" /\ M(l).feed = Info /\ InfoLoad(l)
      /\ UNCHANGED <<tables, run>> /\ pc'[l] = "lifecycle"
  BY DEF HistoryInv, TypeInv, WatermarkInv, Base, RawInv, WriteStationsScd, Loading,
         InfoSteps, InfoLoad, Goto, Shape
<1>2. /\ tx[l].current = current
      /\ tx[l].information = {InformationRow(l, s) : s \in DOMAIN RowsOf(l)}
  BY <1>1 DEF Historic
<1>3. changed = ChangedBy(l)
  BY <1>2 DEF Changed, ChangedBy
<1>4. /\ tx'[l].closed = closing \cap stations_scd
      /\ tx'[l].opened = {r \in opening : \A s \in stations_scd : ~SameScd(r, s)}
      /\ tx'[l].information = tx[l].information
  BY <1>1 DEF WriteStationsScd, WriteScd, Closing, Opening, Shape, Fields, Opened
<1>5. closing \cap stations_scd = {r \in OpenRows : r.station \in ChangedBy(l)}
  BY <1>2, <1>3 DEF OpenRows, ChangedBy
<1>6. \A s, r : r \in stations_scd => ~SameScd(Opened(l, s), r)
  <2>1. \A r \in stations_scd : r.valid_from < At(l) /\ r.valid_from \in Nat
    BY <1>1, GbfsTablesAssumption DEF Alone, Rowed, LoaderTypeOK, ScdRow
  <2>2. At(l) \in Nat
    BY <1>1, LoadedTyped DEF TypeInv, WatermarkInv, Base
  <2>. QED BY <2>1, <2>2 DEF SameScd, Opened
<1>7. tx'[l].opened = {Opened(l, s) : s \in ChangedBy(l)}
  BY <1>3, <1>4, <1>6
<1>8. /\ M(l)' = M(l) /\ At(l)' = At(l) /\ RowsOf(l)' = RowsOf(l)
      /\ OpenRows' = OpenRows
  BY <1>1 DEF M, At, PublisherLastUpdated, RowsOf, OpenRows, tables
<1>9. ChangedBy(l)' = ChangedBy(l)
  BY <1>8 DEF ChangedBy
<1>10. \A s : /\ Opened(l, s)' = Opened(l, s)
              /\ InformationRow(l, s)' = InformationRow(l, s)
  BY <1>8 DEF Opened, InformationRow
<1>. QED
  BY <1>1, <1>2, <1>4, <1>5, <1>7, <1>8, <1>9, <1>10 DEF Historic, InfoLoad

\* The rows of an information load in order are all new.
LEMMA RowsHistory ==
  ASSUME HistoryInv, NEW l \in Loaders, InfoLoad(l), inOrder
  PROVE  LET rows == {InformationRow(l, s) : s \in DOMAIN RowsOf(l)}
         IN NewRows(rows, snapshot_station_information) = rows
<1>1. Alone /\ Rowed /\ LoaderTypeOK
  BY DEF HistoryInv, TypeInv
<1>2. At(l) \in Nat /\ InfoAts \subseteq Nat
  BY LoadedTyped, GbfsTablesAssumption
  DEF HistoryInv, TypeInv, WatermarkInv, Base, InfoLoad, LoaderTypeOK, InfoAts, Keys
<1>3. \A r \in snapshot_station_information : r.at # At(l)
  BY <1>1, <1>2 DEF Alone, Rowed
<1>. DEFINE rows == {InformationRow(l, s) : s \in DOMAIN RowsOf(l)}
<1>4. \A r \in rows : \A s \in snapshot_station_information : ~SameStation(r, s)
  BY <1>3 DEF SameStation, InformationRow
<1>. HIDE DEF rows
<1>5. NewRows(rows, snapshot_station_information) = rows
  BY <1>4 DEF NewRows
<1>. QED BY <1>5 DEF rows

\* A statement of a load that leaves what it has written of the history.
LEMMA HistoryKept ==
  ASSUME HistoryInv, TypeInv', NEW l \in Loaders, LoadersAlone(l),
         UNCHANGED <<tables, run, inOrder>>, NEW step, Goto(l, step),
         pc[l] # "open", step # "open", pc[l] # "current",
         tx'[l].information = tx[l].information, tx'[l].closed = tx[l].closed,
         tx'[l].opened = tx[l].opened,
         \/ pc[l] \in {"raw", "snapshot"} /\ step \in {"raw", "snapshot", "rows"}
         \/ /\ pc[l] \in {"lifecycle", "watermark"}
            /\ step \in {"lifecycle", "watermark", "commit"}
         \/ M(l).feed # Info
  PROVE  HistoryInv'
<1>1. /\ Shape /\ pc'[l] = step /\ \A k \in Loaders \ {l} : pc'[k] = pc[k]
  BY DEF HistoryInv, TypeInv, WatermarkInv, Base, RawInv, Shape, Goto
<1>2. /\ M(l)' = M(l) /\ At(l)' = At(l) /\ RowsOf(l)' = RowsOf(l)
      /\ OpenRows' = OpenRows
  BY DEF M, At, PublisherLastUpdated, RowsOf, OpenRows, tables
<1>3. ChangedBy(l)' = ChangedBy(l)
  BY <1>2 DEF ChangedBy
<1>4. \A s : /\ Opened(l, s)' = Opened(l, s)
             /\ InformationRow(l, s)' = InformationRow(l, s)
  BY <1>2 DEF Opened, InformationRow
<1>5. InfoLoad(l)' <=> InfoLoad(l)
  BY <1>1, <1>2 DEF InfoLoad
<1>6. ASSUME inOrder PROVE Historic(l)'
  <2>1. Historic(l)
    BY <1>6 DEF HistoryInv
  <2>2. CASE InfoLoad(l)
    <3>1. \/ pc[l] \in {"raw", "snapshot"} /\ step \in {"raw", "snapshot", "rows"}
          \/ /\ pc[l] \in {"lifecycle", "watermark"}
             /\ step \in {"lifecycle", "watermark", "commit"}
      BY <2>2 DEF InfoLoad
    <3>. QED
      BY <1>1, <1>2, <1>3, <1>4, <1>5, <2>1, <2>2, <3>1 DEF Historic
  <2>3. CASE ~InfoLoad(l)
    BY <1>5, <2>1, <2>3 DEF Historic
  <2>. QED BY <2>2, <2>3
<1>. QED BY <1>1, <1>2, <1>5, <1>6, HistoryStays

\* An end of the run leaves the history as it is.
LEMMA HistoryAfterEnd ==
  ASSUME HistoryInv, TypeInv', NEW l \in Loaders, LoadersAlone(l),
         UNCHANGED <<tables, inOrder>>, pc'[l] = "open",
         \A k \in Loaders \ {l} : run'[k] = run[k] /\ pc'[k] = pc[k],
         tx'[l].information = {}, tx'[l].closed = {}, tx'[l].opened = {}
  PROVE  HistoryInv'
<1>1. ~InfoLoad(l)' /\ Historic(l)'
  BY DEF InfoLoad, Historic
<1>. QED BY <1>1, HistoryStays

\* Every step keeps the invariant.
LEMMA NextHistory == HistoryInv /\ [Next]_vars => HistoryInv'
<1>. SUFFICES ASSUME HistoryInv, [Next]_vars PROVE HistoryInv'
  OBVIOUS
<1>0. /\ TypeInv /\ TypeInv' /\ Shape /\ Shape'
      /\ \A l \in Loaders : Written(l)
      /\ inOrder => \A l \in Loaders : Historic(l)
  BY NextType DEF HistoryInv, TypeInv, WatermarkInv, Base, RawInv
<1>. USE <1>0
<1>1. CASE UNCHANGED vars
  <2>1. UNCHANGED <<tables, tx, run, pc, inOrder>>
    BY <1>1 DEF vars
  <2>2. \A k \in Loaders : /\ M(k)' = M(k) /\ At(k)' = At(k)
                           /\ RowsOf(k)' = RowsOf(k)
                           /\ InfoLoad(k)' <=> InfoLoad(k)
    BY <2>1 DEF M, At, PublisherLastUpdated, RowsOf, InfoLoad
  <2>3. OpenRows' = OpenRows /\ InfoAts' = InfoAts
    BY <2>1 DEF OpenRows, InfoAts, tables
  <2>4. \A k \in Loaders : ChangedBy(k)' = ChangedBy(k)
    BY <2>2, <2>3 DEF ChangedBy
  <2>5. \A k \in Loaders : \A s : /\ Opened(k, s)' = Opened(k, s)
                                  /\ InformationRow(k, s)' = InformationRow(k, s)
    BY <2>2 DEF Opened, InformationRow
  <2>6. ASSUME NEW k \in Loaders, Historic(k) PROVE Historic(k)'
    <3>1. tx'[k] = tx[k] /\ pc'[k] = pc[k]
      BY <2>1
    <3>2. CASE InfoLoad(k)
      BY <2>2, <2>3, <2>4, <2>5, <2>6, <3>1, <3>2 DEF Historic
    <3>3. CASE ~InfoLoad(k)
      BY <2>2, <2>6, <3>1, <3>3 DEF Historic
    <3>. QED BY <3>2, <3>3
  <2>7. /\ Alone => Alone'
        /\ Rowed => Rowed'
        /\ Tiles => Tiles'
    BY <2>1, <2>2, <2>3 DEF Alone, Rowed, Tiles, OpenIsLast, ClosedIsFollowed,
       NewestIsOpen, tables
  <2>. QED BY <2>1, <2>6, <2>7 DEF HistoryInv
<1>2. ASSUME NEW l \in Loaders, Collect(l) \/ LoadAll(l) PROVE HistoryInv'
  <2>1. /\ UNCHANGED <<tables, tx, pc, inOrder>> /\ run[l] = <<>>
        /\ \A k \in Loaders \ {l} : run'[k] = run[k]
    BY <1>2 DEF Collect, LoadAll, Shape
  <2>2. pc[l] = "open"
    BY <2>1 DEF Written
  <2>3. ~InfoLoad(l) /\ ~InfoLoad(l)'
    BY <2>1, <2>2 DEF InfoLoad
  <2>4. inOrder => Historic(l)'
    BY <2>1, <2>3 DEF Historic
  <2>. QED BY <2>1, <2>3, <2>4, HistoryStays DEF LoadersAlone
<1>3. ASSUME NEW l \in Loaders, Fault(l) PROVE HistoryInv'
  <2>1. /\ LoadersAlone(l) /\ UNCHANGED <<tables, inOrder>> /\ tx'[l] = NoWrites
        /\ pc'[l] = "open"
        /\ \A k \in Loaders \ {l} : run'[k] = run[k] /\ pc'[k] = pc[k]
    BY <1>3 DEF Fault, RollbackTx, EndRun, Goto, LoadersAlone, Shape
  <2>2. /\ NoWrites.information = {} /\ NoWrites.closed = {}
        /\ NoWrites.opened = {}
    BY DEF NoWrites
  <2>. QED BY <2>1, <2>2, HistoryAfterEnd
<1>4. ASSUME NEW l \in Loaders, Begin(l) PROVE HistoryInv'
  <2>1. CASE EndRun(l) /\ UNCHANGED <<tx, inOrder>>
    <3>1. /\ pc'[l] = "open" /\ LoadersAlone(l) /\ UNCHANGED tables
          /\ \A k \in Loaders \ {l} : run'[k] = run[k] /\ pc'[k] = pc[k]
          /\ ~InfoLoad(l)
      BY <1>4, <2>1 DEF Begin, Loading, EndRun, Goto, Shape, LoadersAlone, InfoLoad
    <3>2. ~InfoLoad(l)'
      BY <3>1 DEF InfoLoad
    <3>3. inOrder => Historic(l)'
      BY <2>1, <3>1, <3>2 DEF Historic
    <3>. QED BY <2>1, <3>1, <3>2, <3>3, HistoryStays
  <2>2. CASE ~(EndRun(l) /\ UNCHANGED <<tx, inOrder>>)
    BY <1>4, <2>2, BeginHistory DEF Begin
  <2>. QED BY <2>1, <2>2
<1>5. ASSUME NEW l \in Loaders, InsertRawManifest(l) PROVE HistoryInv'
  <2>1. /\ UNCHANGED <<tables, run, inOrder>> /\ pc[l] = "raw" /\ Goto(l, "snapshot")
    BY <1>5 DEF InsertRawManifest, Loading
  <2>2. /\ LoadersAlone(l) /\ tx'[l].information = tx[l].information
        /\ tx'[l].closed = tx[l].closed /\ tx'[l].opened = tx[l].opened
    BY <1>5 DEF InsertRawManifest, InsertRaw, LoadersAlone, Shape, Fields
  <2>. QED BY <2>1, <2>2, HistoryKept
<1>6. ASSUME NEW l \in Loaders, InsertLogicalSnapshot(l) PROVE HistoryInv'
  <2>1. /\ UNCHANGED <<tables, run>> /\ UNCHANGED inOrder /\ pc[l] = "snapshot"
    BY <1>6 DEF InsertLogicalSnapshot, Loading
  <2>2. /\ LoadersAlone(l) /\ tx'[l].information = tx[l].information
        /\ tx'[l].closed = tx[l].closed /\ tx'[l].opened = tx[l].opened
    BY <1>6 DEF InsertLogicalSnapshot, InsertSnapshot, LoadersAlone, Shape, Fields
  <2>3. CASE Goto(l, "rows")
    BY <2>1, <2>2, <2>3, HistoryKept
  <2>4. CASE M(l).feed # Info /\ Goto(l, "commit")
    BY <2>1, <2>2, <2>4, HistoryKept
  <2>5. CASE M(l).feed = Info /\ inOrder
    <3>1. InfoLoad(l) /\ Alone
      BY <2>1, <2>5 DEF InfoLoad, HistoryInv
    <3>2. At(l) \in Nat
      BY <2>1, LoadedTyped DEF TypeInv, WatermarkInv, Base
    <3>3. SnapshotsOf(M(l).feed, At(l)) = {}
      BY <2>5, <3>1, <3>2 DEF SnapshotsOf, Alone, InfoAts
    <3>4. Goto(l, "rows")
      BY <1>6, <3>3 DEF InsertLogicalSnapshot
    <3>. QED BY <2>3, <3>4
  <2>6. CASE ~inOrder
    BY <2>1, <2>6 DEF HistoryInv
  <2>7. Goto(l, "rows") \/ Goto(l, "commit")
    BY <1>6 DEF InsertLogicalSnapshot
  <2>. QED BY <2>3, <2>4, <2>5, <2>6, <2>7
<1>7. ASSUME NEW l \in Loaders, InsertRows(l) PROVE HistoryInv'
  <2>1. /\ UNCHANGED <<tables, run>> /\ UNCHANGED inOrder /\ pc[l] = "rows"
        /\ \A k \in Loaders \ {l} : pc'[k] = pc[k]
    BY <1>7 DEF InsertRows, Loading, Goto, Shape
  <2>2. /\ M(l)' = M(l) /\ At(l)' = At(l) /\ RowsOf(l)' = RowsOf(l)
    BY <2>1 DEF M, At, PublisherLastUpdated, RowsOf
  <2>3. CASE RowsOf(l) = <<>> /\ Goto(l, "watermark") /\ UNCHANGED tx
    <3>1. pc'[l] = "watermark" /\ LoadersAlone(l) /\ DOMAIN RowsOf(l) = {}
      BY <2>3 DEF Goto, Shape, LoadersAlone
    <3>2. ASSUME inOrder PROVE Historic(l)'
      <4>1. ChangedBy(l)' = {}
        BY <2>2, <3>1 DEF ChangedBy
      <4>2. /\ tx[l].information = {} /\ tx[l].closed = {} /\ tx[l].opened = {}
        BY <2>1, <3>2 DEF Historic
      <4>. QED BY <2>2, <2>3, <3>1, <4>1, <4>2 DEF Historic
    <3>3. InfoLoad(l)' => InfoLoad(l)
      BY <2>1, <2>2 DEF InfoLoad
    <3>. QED BY <2>1, <2>2, <3>1, <3>2, <3>3, HistoryStays
  <2>4. CASE /\ M(l).feed = Info /\ Goto(l, "current")
             /\ InsertInformation(l, {InformationRow(l, s) : s \in DOMAIN RowsOf(l)})
    <3>1. /\ LoadersAlone(l) /\ pc'[l] = "current"
          /\ tx'[l].closed = tx[l].closed /\ tx'[l].opened = tx[l].opened
          /\ tx'[l].information = NewRows({InformationRow(l, s) : s \in DOMAIN RowsOf(l)},
                                          snapshot_station_information)
      BY <2>4 DEF InsertInformation, LoadersAlone, Shape, Fields, Goto
    <3>2. InfoLoad(l) /\ InfoLoad(l)'
      BY <2>1, <2>2, <2>4, <3>1 DEF InfoLoad
    <3>3. ASSUME inOrder PROVE Historic(l)'
      <4>1. tx'[l].information = {InformationRow(l, s) : s \in DOMAIN RowsOf(l)}
        BY <3>1, <3>2, <3>3, RowsHistory
      <4>2. tx[l].closed = {} /\ tx[l].opened = {}
        BY <2>1, <3>2, <3>3 DEF Historic
      <4>3. \A s : InformationRow(l, s)' = InformationRow(l, s)
        BY <2>2 DEF InformationRow
      <4>. QED BY <2>2, <3>1, <3>2, <4>1, <4>2, <4>3 DEF Historic
    <3>. QED BY <2>1, <2>2, <3>1, <3>2, <3>3, HistoryStays
  <2>5. CASE /\ M(l).feed = Status /\ Goto(l, "lifecycle")
             /\ InsertStatus(l, {StatusRow(l, s) : s \in DOMAIN RowsOf(l)})
    <3>1. /\ LoadersAlone(l) /\ tx'[l].information = tx[l].information
          /\ tx'[l].closed = tx[l].closed /\ tx'[l].opened = tx[l].opened
      BY <2>5 DEF InsertStatus, LoadersAlone, Shape, Fields
    <3>2. M(l).feed # Info
      BY <2>5 DEF Info, Status
    <3>. QED BY <2>1, <2>5, <3>1, <3>2, HistoryKept
  <2>. QED BY <1>7, <2>3, <2>4, <2>5 DEF InsertRows
<1>8. ASSUME NEW l \in Loaders, SelectCurrent(l) PROVE HistoryInv'
  <2>1. /\ UNCHANGED <<tables, run>> /\ UNCHANGED inOrder /\ pc[l] = "current"
        /\ pc'[l] = "scd" /\ \A k \in Loaders \ {l} : pc'[k] = pc[k]
        /\ M(l).feed = Info
    BY <1>8 DEF SelectCurrent, Loading, Goto, Shape, TypeInv, InfoSteps
  <2>2. /\ M(l)' = M(l) /\ At(l)' = At(l) /\ RowsOf(l)' = RowsOf(l)
        /\ OpenRows' = OpenRows
    BY <2>1 DEF M, At, PublisherLastUpdated, RowsOf, OpenRows, tables
  <2>3. /\ LoadersAlone(l) /\ tx'[l].information = tx[l].information
        /\ tx'[l].closed = tx[l].closed /\ tx'[l].opened = tx[l].opened
        /\ tx'[l].current = {r \in OpenRows : r.station \in DOMAIN RowsOf(l)}
    BY <1>8 DEF SelectCurrent, ReadCurrent, LoadersAlone, Shape, Fields, OpenRows
  <2>4. InfoLoad(l) /\ InfoLoad(l)'
    BY <2>1, <2>2 DEF InfoLoad
  <2>5. \A s : InformationRow(l, s)' = InformationRow(l, s)
    BY <2>2 DEF InformationRow
  <2>6. ASSUME inOrder PROVE Historic(l)'
    <3>1. /\ tx[l].information = {InformationRow(l, s) : s \in DOMAIN RowsOf(l)}
          /\ tx[l].closed = {} /\ tx[l].opened = {}
      BY <2>1, <2>4, <2>6 DEF Historic
    <3>2. tx'[l].information = {InformationRow(l, s)' : s \in DOMAIN RowsOf(l)}
      BY <2>3, <2>5, <3>1
    <3>. QED BY <2>1, <2>2, <2>3, <2>4, <3>1, <3>2 DEF Historic
  <2>. QED BY <2>1, <2>2, <2>3, <2>4, <2>6, HistoryStays
<1>9. ASSUME NEW l \in Loaders, WriteStationsScd(l) PROVE HistoryInv'
  <2>1. /\ UNCHANGED <<tables, run>> /\ UNCHANGED inOrder /\ pc[l] = "scd"
        /\ \A k \in Loaders \ {l} : pc'[k] = pc[k]
    BY <1>9 DEF WriteStationsScd, Loading, Goto, Shape
  <2>2. LoadersAlone(l)
    BY <1>9, WriteScdKeeps DEF WriteStationsScd, KeepsMarks, KeepsWrites
  <2>3. At(l)' = At(l) /\ (InfoLoad(l)' => InfoLoad(l))
    BY <2>1 DEF M, At, PublisherLastUpdated, InfoLoad
  <2>. QED BY <1>9, <2>1, <2>2, <2>3, ScdHistory, HistoryStays
<1>10. ASSUME NEW l \in Loaders, UpsertLifecycle(l) PROVE HistoryInv'
  <2>1. /\ UNCHANGED <<tables, run, inOrder>> /\ pc[l] = "lifecycle"
        /\ Goto(l, "watermark")
        /\ \E stations, seen, active :
             UpsertLifecycleRows(l, stations, seen, active)
    BY <1>10 DEF UpsertLifecycle, Loading
  <2>2. /\ LoadersAlone(l) /\ tx'[l].information = tx[l].information
        /\ tx'[l].closed = tx[l].closed /\ tx'[l].opened = tx[l].opened
    BY <2>1 DEF UpsertLifecycleRows, LoadersAlone, Shape, Fields
  <2>. QED BY <2>1, <2>2, HistoryKept
<1>11. ASSUME NEW l \in Loaders, UpsertDatasetWatermark(l) PROVE HistoryInv'
  <2>1. /\ UNCHANGED <<tables, run, inOrder>> /\ pc[l] = "watermark"
        /\ Goto(l, "commit") /\ UpsertWatermarkRow(l, M(l).feed, At(l))
    BY <1>11 DEF UpsertDatasetWatermark, Loading
  <2>2. /\ LoadersAlone(l) /\ tx'[l].information = tx[l].information
        /\ tx'[l].closed = tx[l].closed /\ tx'[l].opened = tx[l].opened
    BY <2>1 DEF UpsertWatermarkRow, LoadersAlone, Shape, Fields
  <2>. QED BY <2>1, <2>2, HistoryKept
<1>12. ASSUME NEW l \in Loaders, Commit(l) PROVE HistoryInv'
  BY <1>12, CommitHistory
<1>. QED
  BY <1>1, <1>2, <1>3, <1>4, <1>5, <1>6, <1>7, <1>8, <1>9, <1>10, <1>11, <1>12
  DEF Next, Step

\* As long as station_information is loaded in order stations_scd is a history
\* without gap or overlap that ends in what the newest snapshot says, whatever
\* else is loaded, overlaps or fails (loader.ts:455-526).
THEOREM HistoryIsTiled == Spec => []HistoryTiles
<1>1. HistoryInv => HistoryTiles
  BY TilesHistory DEF HistoryInv
<1>. QED BY InitHistory, NextHistory, <1>1, PTL DEF Spec

------------------------------------------------------------------------------
(***************************************************************************)
(* The loads implement the catalog of snapshots: every snapshot appears    *)
(* once, with all its rows, and stays as it is.                            *)
(***************************************************************************)

Early == {"open", "raw", "snapshot", "rows"}

NoRows(l) == tx[l].information = {} /\ tx[l].status = {}

\* What a load will add to its snapshot.
Offers(l) == IF M(l).feed = Info
             THEN {<<r.station, r.spec>> : r \in tx[l].information}
             ELSE {<<r.station, Status>> : r \in tx[l].status}

RowsAt(l) ==
  /\ \A r \in tx[l].information : M(l).feed = Info /\ r.at = At(l)
  /\ \A r \in tx[l].status : M(l).feed = Status /\ r.at = At(l)

\* A load writes the rows of a new snapshot, all of them, and no row of a
\* snapshot that is there: that one is of the same object.
Filled(l) ==
  /\ RowsAt(l)
  /\ pc[l] \in Early => NoRows(l)
  /\ pc[l] \notin Early => IF tx[l].snapshots = {} THEN NoRows(l)
                           ELSE Offers(l) = Listed(M(l).object)
  /\ pc[l] = "rows" /\ tx[l].snapshots = {} =>
       \E s \in SnapshotsOf(M(l).feed, At(l)) : s.object = M(l).object

OneSnapshotPerKey ==
  \A s, t \in logical_snapshots : s.feed = t.feed /\ s.at = t.at => s = t

\* A snapshot being written is nobody else's.
SnapshotsApart ==
  \A l \in Loaders : \A s \in tx[l].snapshots :
    /\ SnapshotsOf(s.feed, s.at) = {}
    /\ \A k \in Loaders \ {l} : \A t \in tx[k].snapshots :
         s.feed # t.feed \/ s.at # t.at

RowsHaveSnapshot ==
  /\ \A r \in snapshot_station_information : SnapshotsOf(Info, r.at) # {}
  /\ \A r \in snapshot_station_status : SnapshotsOf(Status, r.at) # {}

Whole == \A s \in logical_snapshots :
           s.object.feed = s.feed /\ Shown(s) = Listed(s.object)

CatalogInv == /\ WatermarkInv /\ OneSnapshotPerKey /\ SnapshotsApart
              /\ RowsHaveSnapshot /\ Whole /\ \A l \in Loaders : Filled(l)

\* The empty tables satisfy the invariant.
LEMMA InitCatalog == Init => CatalogInv
BY InitWatermark DEF Init, TablesInit, NoWrites, CatalogInv, OneSnapshotPerKey,
   SnapshotsApart, RowsHaveSnapshot, Whole, Filled, RowsAt, NoRows, Early

\* The part of the tables the catalog is read from.
CatalogTables == <<logical_snapshots, snapshot_station_information,
                   snapshot_station_status>>

\* A step of one loader that commits nothing leaves the others' part alone.
LEMMA OthersFilled ==
  ASSUME CatalogInv, NEW l \in Loaders, LoadersAlone(l),
         UNCHANGED logical_snapshots,
         \A k \in Loaders \ {l} : run'[k] = run[k] /\ pc'[k] = pc[k],
         NEW k \in Loaders \ {l}
  PROVE  Filled(k)'
<1>1. M(k)' = M(k) /\ At(k)' = At(k) /\ tx'[k] = tx[k]
  BY DEF M, At, PublisherLastUpdated, LoadersAlone
<1>2. Filled(k) /\ pc'[k] = pc[k]
  BY DEF CatalogInv
<1>3. (RowsAt(k)' <=> RowsAt(k)) /\ (NoRows(k)' <=> NoRows(k))
  BY <1>1 DEF RowsAt, NoRows
<1>4. Offers(k)' = Offers(k)
  BY <1>1 DEF Offers
<1>5. SnapshotsOf(M(k).feed, At(k))' = SnapshotsOf(M(k).feed, At(k))
  BY <1>1 DEF SnapshotsOf
<1>. QED BY <1>1, <1>2, <1>3, <1>4, <1>5 DEF Filled

\* A step of one loader that commits nothing.
LEMMA RowsStay ==
  ASSUME CatalogInv, WatermarkInv', NEW l \in Loaders, LoadersAlone(l),
         UNCHANGED CatalogTables, SnapshotsApart',
         \A k \in Loaders \ {l} : run'[k] = run[k] /\ pc'[k] = pc[k],
         Filled(l)'
  PROVE  CatalogInv'
<1>. USE DEF CatalogTables
<1>1. OneSnapshotPerKey' /\ RowsHaveSnapshot' /\ Whole'
  BY DEF CatalogInv, OneSnapshotPerKey, RowsHaveSnapshot, Whole, SnapshotsOf, Shown
<1>2. \A k \in Loaders \ {l} : Filled(k)'
  BY OthersFilled
<1>. QED BY <1>1, <1>2 DEF CatalogInv

\* Fewer snapshots being written stay apart.
LEMMA StillApart ==
  ASSUME CatalogInv, NEW l \in Loaders, LoadersAlone(l),
         UNCHANGED logical_snapshots, tx'[l].snapshots \subseteq tx[l].snapshots
  PROVE  SnapshotsApart'
BY DEF CatalogInv, SnapshotsApart, SnapshotsOf, LoadersAlone

\* A statement that leaves the snapshot and its rows alone, before the rows are
\* written or after.
LEMMA RowsUntouched ==
  ASSUME CatalogInv, WatermarkInv', NEW l \in Loaders, LoadersAlone(l),
         UNCHANGED <<tables, run>>, NEW step, Goto(l, step),
         tx'[l].snapshots = tx[l].snapshots,
         tx'[l].information = tx[l].information, tx'[l].status = tx[l].status,
         step # "rows", pc[l] \in Early <=> step \in Early
  PROVE  CatalogInv'
<1>1. Shape
  BY DEF CatalogInv, WatermarkInv, Base, RawInv
<1>2. pc'[l] = step /\ \A k \in Loaders \ {l} : pc'[k] = pc[k]
  BY <1>1 DEF Goto, Shape
<1>3. M(l)' = M(l) /\ At(l)' = At(l)
  BY DEF M, At, PublisherLastUpdated
<1>4. Filled(l)'
  BY <1>2, <1>3 DEF CatalogInv, Filled, RowsAt, NoRows, Offers
<1>5. SnapshotsApart'
  BY StillApart DEF tables
<1>. QED BY <1>2, <1>4, <1>5, RowsStay DEF CatalogTables, tables

\* A run that ends, its writes rolled back or not begun.
LEMMA RowsDropped ==
  ASSUME CatalogInv, WatermarkInv', NEW l \in Loaders, LoadersAlone(l),
         UNCHANGED tables, pc'[l] = "open",
         \A k \in Loaders \ {l} : run'[k] = run[k] /\ pc'[k] = pc[k],
         tx'[l].snapshots = {}, NoRows(l)'
  PROVE  CatalogInv'
<1>1. Filled(l)'
  BY DEF Filled, RowsAt, NoRows, Early
<1>2. SnapshotsApart'
  BY StillApart DEF tables
<1>. QED BY <1>1, <1>2, RowsStay DEF CatalogTables, tables

\* A snapshot is taken, or found with the same object, or conflicts.
LEMMA SnapshotTaken ==
  ASSUME CatalogInv, WatermarkInv', NEW l \in Loaders, InsertLogicalSnapshot(l)
  PROVE  CatalogInv'
<1>. USE DEF InsertLogicalSnapshot, Loading
<1>. DEFINE existing == SnapshotsOf(M(l).feed, At(l))
<1>1. Shape /\ Written(l) /\ Filled(l)
  BY DEF CatalogInv, WatermarkInv, Base, RawInv
<1>2. /\ LoadersAlone(l) /\ UNCHANGED <<CatalogTables, run>>
      /\ \A k \in Loaders \ {l} : pc'[k] = pc[k]
      /\ tx'[l].information = tx[l].information /\ tx'[l].status = tx[l].status
  BY <1>1 DEF Shape, Fields, LoadersAlone, InsertSnapshot, Goto, tables, CatalogTables
<1>3. /\ tx[l].snapshots = {} /\ NoRows(l)
      /\ tx'[l].snapshots = IF existing = {} THEN {Key(l)} ELSE {}
  BY <1>1 DEF Written, Filled, Early, InsertSnapshot, Shape, Fields, Key
<1>4. pc'[l] = IF \E s \in existing : s.object # M(l).object THEN "commit" ELSE "rows"
  BY <1>1 DEF Goto, Shape
<1>5. M(l)' = M(l) /\ At(l)' = At(l) /\ SnapshotsOf(M(l).feed, At(l))' = existing
  BY <1>2 DEF M, At, PublisherLastUpdated, SnapshotsOf, CatalogTables
<1>6. NoRows(l)' /\ RowsAt(l)'
  BY <1>2, <1>3 DEF NoRows, RowsAt
<1>7. Filled(l)'
  <2>1. CASE existing = {}
    BY <2>1, <1>3, <1>4, <1>5, <1>6 DEF Filled, Early
  <2>2. CASE existing # {}
    BY <2>2, <1>3, <1>4, <1>5, <1>6 DEF Filled, Early
  <2>. QED BY <2>1, <2>2
<1>8. SnapshotsApart'
  <2>1. CASE existing = {}
    <3>1. Key(l).feed = M(l).feed /\ Key(l).at = At(l)
      BY DEF Key
    <3>2. \A k \in Loaders \ {l} : \A t \in tx[k].snapshots :
            t.feed # Key(l).feed \/ t.at # Key(l).at
      BY DEF SnapshotFree, Others
    <3>. QED
      BY <2>1, <1>2, <1>3, <3>1, <3>2
      DEF CatalogInv, SnapshotsApart, SnapshotsOf, LoadersAlone, CatalogTables
  <2>2. CASE existing # {}
    BY <2>2, <1>2, <1>3, StillApart DEF CatalogTables
  <2>. QED BY <2>1, <2>2
<1>. QED BY <1>2, <1>7, <1>8, RowsStay

\* The rows of a new snapshot are written, all of them; those of one that is
\* there are there.
LEMMA RowsInserted ==
  ASSUME CatalogInv, WatermarkInv', NEW l \in Loaders, InsertRows(l)
  PROVE  CatalogInv'
<1>. USE DEF InsertRows, Loading
<1>1. Shape /\ Written(l) /\ Filled(l) /\ ArchiveInv
  BY DEF CatalogInv, WatermarkInv, Base, RawInv
<1>2. /\ LoadersAlone(l) /\ UNCHANGED <<CatalogTables, run>>
      /\ \A k \in Loaders \ {l} : pc'[k] = pc[k]
      /\ tx'[l].snapshots = tx[l].snapshots
  BY <1>1 DEF Shape, Fields, LoadersAlone, InsertInformation, InsertStatus,
     Goto, tables, CatalogTables
<1>3. pc[l] = "rows" /\ pc'[l] \notin Early
  BY <1>1 DEF Goto, Shape, Early
<1>4. M(l)' = M(l) /\ At(l)' = At(l) /\ RowsOf(l) = Parsed(M(l).object)
  BY <1>2 DEF M, At, PublisherLastUpdated, RowsOf
<1>5. M(l).object.feed = M(l).feed /\ M(l).feed \in Feeds
  BY <1>1, <1>3, LoadedTyped
<1>6. RowsAt(l)' /\ IF tx[l].snapshots = {} THEN NoRows(l)'
                     ELSE Offers(l)' = Listed(M(l).object)
  <2>1. CASE RowsOf(l) = <<>> /\ UNCHANGED tx
    <3>1. NoRows(l)' /\ RowsAt(l)'
      BY <2>1, <1>1, <1>3 DEF Filled, NoRows, RowsAt, Early
    <3>2. Listed(M(l).object) = {}
      BY <2>1, <1>4 DEF Listed
    <3>3. Offers(l)' = {}
      BY <3>1 DEF Offers, NoRows
    <3>. QED BY <3>1, <3>2, <3>3
  <2>2. CASE M(l).feed = Info /\
             InsertInformation(l, {InformationRow(l, s) : s \in DOMAIN RowsOf(l)})
    <3>. DEFINE rows == {InformationRow(l, s) : s \in DOMAIN RowsOf(l)}
    <3>1. /\ tx'[l].information = NewRows(rows, snapshot_station_information)
          /\ tx'[l].status = {}
      BY <2>2, <1>1, <1>3 DEF InsertInformation, Shape, Fields, Filled, NoRows, Early
    <3>2. \A r \in rows : r.at = At(l)
      BY DEF InformationRow
    <3>3. RowsAt(l)'
      BY <2>2, <3>1, <3>2, <1>4 DEF RowsAt, NewRows
    <3>4. CASE tx[l].snapshots = {}
      <4>1. PICK s \in logical_snapshots :
              s.feed = Info /\ s.at = At(l) /\ s.object = M(l).object
        BY <3>4, <2>2, <1>1, <1>3 DEF Filled, SnapshotsOf
      <4>2. Shown(s) = Listed(M(l).object)
        BY <4>1 DEF CatalogInv, Whole
      <4>3. \A t \in DOMAIN RowsOf(l) :
              \E i \in snapshot_station_information : i.at = At(l) /\ i.station = t
        <5>. TAKE t \in DOMAIN RowsOf(l)
        <5>1. <<t, RowsOf(l)[t]>> \in Listed(M(l).object)
          BY <1>4, <1>5, <2>2 DEF Listed
        <5>2. PICK i \in snapshot_station_information :
                i.at = At(l) /\ <<i.station, i.spec>> = <<t, RowsOf(l)[t]>>
          BY <5>1, <4>1, <4>2 DEF Shown
        <5>. QED BY <5>2
      <4>4. \A r \in rows : \E i \in snapshot_station_information : SameStation(r, i)
        BY <4>3 DEF InformationRow, SameStation
      <4>. QED BY <3>1, <3>3, <3>4, <4>4 DEF NewRows, NoRows
    <3>5. CASE tx[l].snapshots # {}
      <4>0. Key(l) \in tx[l].snapshots
        BY <3>5, <1>1, <1>3 DEF Written, Early
      <4>1. SnapshotsOf(Info, At(l)) = {}
        BY <4>0, <2>2 DEF Key, CatalogInv, SnapshotsApart
      <4>2. \A i \in snapshot_station_information : i.at # At(l)
        BY <4>1 DEF CatalogInv, RowsHaveSnapshot
      <4>3. tx'[l].information = rows
        BY <3>1, <3>2, <4>2 DEF NewRows, SameStation
      <4>4. Offers(l)' = {<<r.station, r.spec>> : r \in rows}
        BY <2>2, <1>4, <4>3 DEF Offers
      <4>5. {<<r.station, r.spec>> : r \in rows}
              = {<<t, RowsOf(l)[t]>> : t \in DOMAIN RowsOf(l)}
        <5>1. \A t : /\ InformationRow(l, t).station = t
                     /\ InformationRow(l, t).spec = RowsOf(l)[t]
          BY DEF InformationRow
        <5>. QED BY <5>1
      <4>6. Listed(M(l).object) = {<<t, RowsOf(l)[t]>> : t \in DOMAIN RowsOf(l)}
        BY <1>4, <1>5, <2>2 DEF Listed
      <4>. QED BY <3>3, <3>5, <4>4, <4>5, <4>6
    <3>. QED BY <3>4, <3>5
  <2>3. CASE M(l).feed = Status /\
             InsertStatus(l, {StatusRow(l, s) : s \in DOMAIN RowsOf(l)})
    <3>. DEFINE rows == {StatusRow(l, s) : s \in DOMAIN RowsOf(l)}
    <3>0. Status # Info
      BY DEF Status, Info
    <3>1. /\ tx'[l].status = NewRows(rows, snapshot_station_status)
          /\ tx'[l].information = {}
      BY <2>3, <1>1, <1>3 DEF InsertStatus, Shape, Fields, Filled, NoRows, Early
    <3>2. \A r \in rows : r.at = At(l)
      BY DEF StatusRow
    <3>3. RowsAt(l)'
      BY <2>3, <3>1, <3>2, <1>4 DEF RowsAt, NewRows
    <3>4. CASE tx[l].snapshots = {}
      <4>1. PICK s \in logical_snapshots :
              s.feed = Status /\ s.at = At(l) /\ s.object = M(l).object
        BY <3>4, <2>3, <1>1, <1>3 DEF Filled, SnapshotsOf
      <4>2. Shown(s) = Listed(M(l).object)
        BY <4>1 DEF CatalogInv, Whole
      <4>3. \A t \in DOMAIN RowsOf(l) :
              \E i \in snapshot_station_status : i.at = At(l) /\ i.station = t
        <5>. TAKE t \in DOMAIN RowsOf(l)
        <5>1. <<t, Status>> \in Listed(M(l).object)
          BY <1>4, <1>5, <2>3, <3>0 DEF Listed
        <5>2. PICK i \in snapshot_station_status :
                i.at = At(l) /\ <<i.station, Status>> = <<t, Status>>
          BY <5>1, <4>1, <4>2, <3>0 DEF Shown
        <5>. QED BY <5>2
      <4>4. \A r \in rows : \E i \in snapshot_station_status : SameStation(r, i)
        BY <4>3 DEF StatusRow, SameStation
      <4>. QED BY <3>1, <3>3, <3>4, <4>4 DEF NewRows, NoRows
    <3>5. CASE tx[l].snapshots # {}
      <4>0. Key(l) \in tx[l].snapshots
        BY <3>5, <1>1, <1>3 DEF Written, Early
      <4>1. SnapshotsOf(Status, At(l)) = {}
        BY <4>0, <2>3 DEF Key, CatalogInv, SnapshotsApart
      <4>2. \A i \in snapshot_station_status : i.at # At(l)
        BY <4>1 DEF CatalogInv, RowsHaveSnapshot
      <4>3. tx'[l].status = rows
        BY <3>1, <3>2, <4>2 DEF NewRows, SameStation
      <4>4. Offers(l)' = {<<r.station, Status>> : r \in rows}
        BY <2>3, <1>4, <4>3, <3>0 DEF Offers
      <4>5. {<<r.station, Status>> : r \in rows}
              = {<<t, Status>> : t \in DOMAIN RowsOf(l)}
        <5>1. \A t : StatusRow(l, t).station = t
          BY DEF StatusRow
        <5>. QED BY <5>1
      <4>6. Listed(M(l).object) = {<<t, Status>> : t \in DOMAIN RowsOf(l)}
        BY <1>4, <1>5, <2>3, <3>0 DEF Listed
      <4>. QED BY <3>3, <3>5, <4>4, <4>5, <4>6
    <3>. QED BY <3>4, <3>5
  <2>. QED BY <2>1, <2>2, <2>3
<1>7. Filled(l)'
  BY <1>2, <1>3, <1>4, <1>6 DEF Filled, Early
<1>8. SnapshotsApart'
  BY <1>2, StillApart DEF CatalogTables
<1>. QED BY <1>2, <1>7, <1>8, RowsStay

\* What COMMIT does to the snapshots: it adds one, whole, or none.
LEMMA CommitAdds ==
  ASSUME CatalogInv, NEW l \in Loaders, Commit(l)
  PROVE  /\ logical_snapshots' = logical_snapshots \cup tx[l].snapshots
         /\ \A s \in logical_snapshots : Shown(s)' = Shown(s)
         /\ \/ /\ tx[l].snapshots = {}
               /\ UNCHANGED <<snapshot_station_information, snapshot_station_status>>
            \/ /\ tx[l].snapshots = {Key(l)} /\ SnapshotsOf(M(l).feed, At(l)) = {}
               /\ \A s \in {Key(l)} : Shown(s)' = Listed(M(l).object)
<1>. USE DEF Commit, Loading
<1>1. Written(l) /\ Filled(l) /\ ArchiveInv
  BY DEF CatalogInv, WatermarkInv, Base, RawInv
<1>2. /\ logical_snapshots' = logical_snapshots \cup tx[l].snapshots
      /\ snapshot_station_information' =
           snapshot_station_information \cup tx[l].information
      /\ snapshot_station_status' = snapshot_station_status \cup tx[l].status
  BY DEF CommitTx
<1>3. pc[l] = "commit" /\ M(l).feed \in Feeds
  BY <1>1, LoadedTyped
<1>4. CASE tx[l].snapshots = {}
  <2>1. NoRows(l)
    BY <1>1, <1>3, <1>4 DEF Filled, Early
  <2>2. UNCHANGED CatalogTables
    BY <1>2, <1>4, <2>1 DEF NoRows, CatalogTables
  <2>. QED BY <1>2, <1>4, <2>2 DEF CatalogTables, Shown
<1>5. CASE tx[l].snapshots = {Key(l)}
  <2>1. Key(l).feed = M(l).feed /\ Key(l).at = At(l)
    BY DEF Key
  <2>2. SnapshotsOf(M(l).feed, At(l)) = {}
    BY <1>5, <2>1 DEF CatalogInv, SnapshotsApart
  <2>3. RowsAt(l) /\ Offers(l) = Listed(M(l).object)
    BY <1>1, <1>3, <1>5 DEF Filled, Early
  <2>4. ASSUME NEW s \in logical_snapshots PROVE Shown(s)' = Shown(s)
    <3>1. s.feed # M(l).feed \/ s.at # At(l)
      BY <2>2 DEF SnapshotsOf
    <3>2. s.feed = Info => \A r \in tx[l].information : r.at # s.at
      BY <2>3, <3>1 DEF RowsAt
    <3>3. s.feed # Info => \A r \in tx[l].status : r.at # s.at
      BY <2>3, <3>1 DEF RowsAt, CatalogInv, WatermarkInv, SnapshotsTyped, Feeds
    <3>. QED BY <1>2, <3>2, <3>3 DEF Shown
  <2>5. ASSUME NEW s \in {Key(l)} PROVE Shown(s)' = Listed(M(l).object)
    <3>1. s.feed = M(l).feed /\ s.at = At(l)
      BY <2>1
    <3>2. CASE M(l).feed = Info
      <4>1. \A r \in snapshot_station_information : r.at # At(l)
        BY <2>2, <3>2 DEF CatalogInv, RowsHaveSnapshot
      <4>2. Shown(s)' = {<<r.station, r.spec>> : r \in tx[l].information}
        BY <1>2, <2>3, <3>1, <3>2, <4>1 DEF Shown, RowsAt
      <4>. QED BY <2>3, <3>2, <4>2 DEF Offers
    <3>3. CASE M(l).feed = Status
      <4>0. Status # Info
        BY DEF Status, Info
      <4>1. \A r \in snapshot_station_status : r.at # At(l)
        BY <2>2, <3>3 DEF CatalogInv, RowsHaveSnapshot
      <4>2. Shown(s)' = {<<r.station, Status>> : r \in tx[l].status}
        BY <1>2, <2>3, <3>1, <3>3, <4>0, <4>1 DEF Shown, RowsAt
      <4>. QED BY <2>3, <3>3, <4>0, <4>2 DEF Offers
    <3>. QED BY <1>3, <3>2, <3>3 DEF Feeds
  <2>. QED BY <1>2, <1>5, <2>2, <2>4, <2>5
<1>. QED BY <1>1, <1>3, <1>4, <1>5 DEF Written

\* COMMIT keeps the invariant.
LEMMA CatalogCommit ==
  ASSUME CatalogInv, WatermarkInv', NEW l \in Loaders, Commit(l)
  PROVE  CatalogInv'
<1>. USE DEF Commit, Loading
<1>1. Shape /\ Written(l) /\ Filled(l) /\ ArchiveInv
  BY DEF CatalogInv, WatermarkInv, Base, RawInv
<1>2. /\ LoadersAlone(l) /\ pc'[l] = "open" /\ tx'[l] = NoWrites
      /\ \A k \in Loaders \ {l} : run'[k] = run[k] /\ pc'[k] = pc[k]
  BY <1>1 DEF Shape, LoadersAlone, CommitTx, Goto
<1>3. /\ logical_snapshots' = logical_snapshots \cup tx[l].snapshots
      /\ snapshot_station_information' =
           snapshot_station_information \cup tx[l].information
      /\ snapshot_station_status' = snapshot_station_status \cup tx[l].status
  BY DEF CommitTx
<1>4. /\ \A s \in logical_snapshots : Shown(s)' = Shown(s)
      /\ \/ tx[l].snapshots = {} /\ NoRows(l)
         \/ /\ tx[l].snapshots = {Key(l)} /\ SnapshotsOf(M(l).feed, At(l)) = {}
            /\ \A s \in {Key(l)} : Shown(s)' = Listed(M(l).object)
  BY <1>1, CommitAdds DEF Filled, Early
<1>5. Key(l).feed = M(l).feed /\ Key(l).at = At(l) /\ Key(l).object = M(l).object
  BY DEF Key
<1>6. OneSnapshotPerKey'
  BY <1>3, <1>4, <1>5 DEF CatalogInv, OneSnapshotPerKey, SnapshotsOf
<1>7. SnapshotsApart'
  <2>1. ASSUME NEW k \in Loaders \ {l}, NEW s \in tx[k].snapshots
        PROVE  \A u \in logical_snapshots' : u.feed # s.feed \/ u.at # s.at
    BY <1>3 DEF CatalogInv, SnapshotsApart, SnapshotsOf
  <2>2. tx'[l].snapshots = {}
    BY <1>2 DEF NoWrites
  <2>. QED
    BY <1>2, <2>1, <2>2 DEF CatalogInv, SnapshotsApart, SnapshotsOf, LoadersAlone
<1>8. RowsHaveSnapshot'
  <2>1. \A r \in tx[l].information : SnapshotsOf(Info, r.at)' # {}
    BY <1>1, <1>3, <1>4, <1>5 DEF NoRows, Filled, RowsAt, SnapshotsOf
  <2>2. \A r \in tx[l].status : SnapshotsOf(Status, r.at)' # {}
    BY <1>1, <1>3, <1>4, <1>5 DEF NoRows, Filled, RowsAt, SnapshotsOf
  <2>. QED
    BY <1>3, <2>1, <2>2 DEF CatalogInv, RowsHaveSnapshot, SnapshotsOf
<1>9. Whole'
  <2>1. M(l).object.feed = M(l).feed
    BY <1>1, LoadedTyped
  <2>2. \A s \in logical_snapshots :
          s.object.feed = s.feed /\ Shown(s)' = Listed(s.object)
    BY <1>4 DEF CatalogInv, Whole
  <2>. QED BY <1>3, <1>4, <1>5, <2>1, <2>2 DEF Whole
<1>10. ASSUME NEW k \in Loaders \ {l} PROVE Filled(k)'
  <2>1. M(k)' = M(k) /\ At(k)' = At(k) /\ tx'[k] = tx[k] /\ pc'[k] = pc[k]
    BY <1>2 DEF M, At, PublisherLastUpdated, LoadersAlone
  <2>2. (RowsAt(k)' <=> RowsAt(k)) /\ (NoRows(k)' <=> NoRows(k))
    BY <2>1 DEF RowsAt, NoRows
  <2>3. Offers(k)' = Offers(k)
    BY <2>1 DEF Offers
  <2>4. SnapshotsOf(M(k).feed, At(k)) \subseteq SnapshotsOf(M(k).feed, At(k))'
    BY <2>1, <1>3 DEF SnapshotsOf
  <2>5. Filled(k)
    BY DEF CatalogInv
  <2>. QED BY <2>1, <2>2, <2>3, <2>4, <2>5 DEF Filled
<1>11. Filled(l)'
  BY <1>2 DEF Filled, RowsAt, NoRows, Early, NoWrites
<1>. QED BY <1>6, <1>7, <1>8, <1>9, <1>10, <1>11 DEF CatalogInv

\* Every step keeps the invariant.
LEMMA NextCatalog == CatalogInv /\ [Next]_vars => CatalogInv'
<1>. SUFFICES ASSUME CatalogInv, [Next]_vars PROVE CatalogInv'
  OBVIOUS
<1>0. /\ WatermarkInv' /\ Shape
      /\ \A l \in Loaders : Written(l) /\ Filled(l)
  BY NextWatermark DEF CatalogInv, WatermarkInv, Base, RawInv
<1>. USE <1>0
<1>1. CASE UNCHANGED vars
  <2>1. OneSnapshotPerKey' /\ RowsHaveSnapshot' /\ Whole' /\ SnapshotsApart'
    BY <1>1 DEF vars, tables, CatalogInv, OneSnapshotPerKey, RowsHaveSnapshot,
       Whole, SnapshotsOf, Shown, SnapshotsApart
  <2>2. ASSUME NEW l \in Loaders PROVE Filled(l)'
    <3>1. M(l)' = M(l) /\ At(l)' = At(l) /\ UNCHANGED <<tx, pc, logical_snapshots>>
      BY <1>1 DEF vars, tables, M, At, PublisherLastUpdated
    <3>. QED BY <3>1 DEF Filled, RowsAt, NoRows, Offers, SnapshotsOf
  <2>. QED BY <2>1, <2>2 DEF CatalogInv
<1>2. ASSUME NEW l \in Loaders, Collect(l) \/ LoadAll(l) PROVE CatalogInv'
  <2>1. /\ run[l] = <<>> /\ UNCHANGED <<tx, pc, tables>>
        /\ run' = run \/ \E s : run' = [run EXCEPT ![l] = s]
    BY <1>2 DEF Collect, LoadAll
  <2>2. pc[l] = "open" /\ tx[l].snapshots = {} /\ NoRows(l)
    BY <2>1 DEF Written, Filled, Early
  <2>. QED BY <2>1, <2>2, RowsDropped DEF LoadersAlone, NoRows, Shape
<1>3. ASSUME NEW l \in Loaders, Fault(l) PROVE CatalogInv'
  <2>1. /\ LoadersAlone(l) /\ UNCHANGED tables /\ tx'[l] = NoWrites
        /\ pc'[l] = "open"
        /\ \A k \in Loaders \ {l} : run'[k] = run[k] /\ pc'[k] = pc[k]
    BY <1>3 DEF Fault, RollbackTx, EndRun, Goto, LoadersAlone, Shape
  <2>2. tx'[l].snapshots = {} /\ NoRows(l)'
    BY <2>1 DEF NoWrites, NoRows
  <2>. QED BY <2>1, <2>2, RowsDropped
<1>4. ASSUME NEW l \in Loaders, Begin(l) PROVE CatalogInv'
  <2>1. pc[l] = "open" /\ UNCHANGED tables /\ NoRows(l) /\ tx[l].snapshots = {}
    BY <1>4 DEF Begin, Loading, Written, Filled, Early
  <2>2. CASE EndRun(l) /\ UNCHANGED tx
    <3>1. /\ pc'[l] = "open"
          /\ \A k \in Loaders \ {l} : run'[k] = run[k] /\ pc'[k] = pc[k]
      BY <2>2 DEF EndRun, Goto, Shape
    <3>. QED BY <2>1, <2>2, <3>1, RowsDropped DEF LoadersAlone, NoRows
  <2>3. CASE ReadLatest(l, M(l).feed) /\ Goto(l, "raw") /\ UNCHANGED run
    <3>1. /\ LoadersAlone(l) /\ tx'[l].snapshots = tx[l].snapshots
          /\ tx'[l].information = tx[l].information
          /\ tx'[l].status = tx[l].status
      BY <2>3 DEF ReadLatest, LoadersAlone, Shape, Fields
    <3>. QED BY <2>1, <2>3, <3>1, RowsUntouched DEF Early
  <2>. QED BY <1>4, <2>2, <2>3 DEF Begin
<1>5. ASSUME NEW l \in Loaders, InsertRawManifest(l) PROVE CatalogInv'
  <2>1. /\ LoadersAlone(l) /\ tx'[l].snapshots = tx[l].snapshots
        /\ tx'[l].information = tx[l].information
        /\ tx'[l].status = tx[l].status
    BY <1>5 DEF InsertRawManifest, InsertRaw, LoadersAlone, Shape, Fields
  <2>2. /\ pc[l] = "raw" /\ Goto(l, "snapshot") /\ UNCHANGED <<tables, run>>
    BY <1>5 DEF InsertRawManifest, Loading
  <2>. QED BY <2>1, <2>2, RowsUntouched DEF Early
<1>6. ASSUME NEW l \in Loaders, InsertLogicalSnapshot(l) PROVE CatalogInv'
  BY <1>6, SnapshotTaken
<1>7. ASSUME NEW l \in Loaders, InsertRows(l) PROVE CatalogInv'
  BY <1>7, RowsInserted
<1>8. ASSUME NEW l \in Loaders, SelectCurrent(l) PROVE CatalogInv'
  <2>1. /\ LoadersAlone(l) /\ tx'[l].snapshots = tx[l].snapshots
        /\ tx'[l].information = tx[l].information
        /\ tx'[l].status = tx[l].status
    BY <1>8 DEF SelectCurrent, ReadCurrent, LoadersAlone, Shape, Fields
  <2>. QED BY <1>8, <2>1, RowsUntouched DEF SelectCurrent, Loading, Early
<1>9. ASSUME NEW l \in Loaders, WriteStationsScd(l) PROVE CatalogInv'
  <2>1. /\ LoadersAlone(l) /\ tx'[l].snapshots = tx[l].snapshots
        /\ tx'[l].information = tx[l].information
        /\ tx'[l].status = tx[l].status
    BY <1>9 DEF WriteStationsScd, WriteScd, Closing, Opening, LoadersAlone, Shape, Fields
  <2>. QED BY <1>9, <2>1, RowsUntouched DEF WriteStationsScd, Loading, Early
<1>10. ASSUME NEW l \in Loaders, UpsertLifecycle(l) PROVE CatalogInv'
  <2>1. PICK stations, seen, active :
          UpsertLifecycleRows(l, stations, seen, active)
    BY <1>10 DEF UpsertLifecycle
  <2>2. /\ LoadersAlone(l) /\ tx'[l].snapshots = tx[l].snapshots
        /\ tx'[l].information = tx[l].information
        /\ tx'[l].status = tx[l].status
    BY <2>1 DEF UpsertLifecycleRows, LoadersAlone, Shape, Fields
  <2>. QED BY <1>10, <2>2, RowsUntouched DEF UpsertLifecycle, Loading, Early
<1>11. ASSUME NEW l \in Loaders, UpsertDatasetWatermark(l) PROVE CatalogInv'
  <2>1. /\ LoadersAlone(l) /\ tx'[l].snapshots = tx[l].snapshots
        /\ tx'[l].information = tx[l].information
        /\ tx'[l].status = tx[l].status
    BY <1>11 DEF UpsertDatasetWatermark, UpsertWatermarkRow, LoadersAlone, Shape,
       Fields
  <2>. QED BY <1>11, <2>1, RowsUntouched DEF UpsertDatasetWatermark, Loading, Early
<1>12. ASSUME NEW l \in Loaders, Commit(l) PROVE CatalogInv'
  BY <1>12, CatalogCommit
<1>. QED
  BY <1>1, <1>2, <1>3, <1>4, <1>5, <1>6, <1>7, <1>8, <1>9, <1>10, <1>11, <1>12
  DEF Next, Step

------------------------------------------------------------------------------

\* The one snapshot of a key is the one chosen.
LEMMA TheSnapshot ==
  ASSUME NEW T, \A s, t \in T : s.feed = t.feed /\ s.at = t.at => s = t,
         NEW s \in T
  PROVE  (CHOOSE u \in {t \in T : t.feed = s.feed /\ t.at = s.at} : TRUE) = s
<1>1. {t \in T : t.feed = s.feed /\ t.at = s.at} = {s}
  OBVIOUS
<1>. QED BY <1>1

\* The catalog has the keys loaded, and an entry is what its snapshot shows.
LEMMA EntryIs ==
  ASSUME OneSnapshotPerKey
  PROVE  /\ catalog = [k \in Loaded |-> catalog[k]]
         /\ \A s \in logical_snapshots :
              catalog[<<s.feed, s.at>>] = [object |-> s.object, stations |-> Shown(s)]
<1>1. ASSUME NEW s \in logical_snapshots
      PROVE  catalog[<<s.feed, s.at>>] = [object |-> s.object, stations |-> Shown(s)]
  <2>1. (CHOOSE u \in SnapshotsOf(s.feed, s.at) : TRUE) = s
    BY TheSnapshot DEF OneSnapshotPerKey, SnapshotsOf
  <2>2. <<s.feed, s.at>> \in Loaded
    BY DEF Loaded
  <2>. QED BY <2>1, <2>2 DEF catalog, Entry
<1>. QED BY <1>1 DEF catalog

\* And so it is in the next state.
LEMMA EntryIsNext ==
  ASSUME OneSnapshotPerKey'
  PROVE  /\ catalog' = [k \in Loaded' |-> catalog'[k]]
         /\ \A s \in logical_snapshots' :
              catalog'[<<s.feed, s.at>>] = [object |-> s.object, stations |-> Shown(s)']
<1>1. ASSUME NEW s \in logical_snapshots'
      PROVE  catalog'[<<s.feed, s.at>>] = [object |-> s.object, stations |-> Shown(s)']
  <2>1. (CHOOSE u \in SnapshotsOf(s.feed, s.at)' : TRUE) = s
    BY TheSnapshot DEF OneSnapshotPerKey, SnapshotsOf
  <2>2. <<s.feed, s.at>> \in Loaded'
    BY DEF Loaded
  <2>. QED BY <2>1, <2>2 DEF catalog, Entry, SnapshotsOf
<1>. QED BY <1>1 DEF catalog

\* A COMMIT of a new snapshot is Admit; every other step is a stutter.
LEMMA StepsAdmit ==
  ASSUME CatalogInv, CatalogInv', [Next]_vars
  PROVE  [Catalog!Next]_catalog
<1>. USE DEF CatalogInv
<1>1. ASSUME UNCHANGED CatalogTables PROVE UNCHANGED catalog
  BY <1>1 DEF CatalogTables, catalog, Loaded, Entry, SnapshotsOf, Shown
<1>2. ASSUME NEW l \in Loaders, Commit(l) PROVE [Catalog!Next]_catalog
  <2>1. /\ logical_snapshots' = logical_snapshots \cup tx[l].snapshots
        /\ \A s \in logical_snapshots : Shown(s)' = Shown(s)
    BY <1>2, CommitAdds
  <2>2. CASE tx[l].snapshots = {} /\ UNCHANGED <<snapshot_station_information,
                                                  snapshot_station_status>>
    BY <1>1, <2>1, <2>2 DEF CatalogTables
  <2>3. CASE /\ tx[l].snapshots = {Key(l)}
             /\ SnapshotsOf(M(l).feed, At(l)) = {}
             /\ \A s \in {Key(l)} : Shown(s)' = Listed(M(l).object)
    <3>. DEFINE k == <<M(l).feed, At(l)>>
                o == M(l).object
    <3>1. k \in Feeds \X Times /\ o \in Objects
      BY <1>2, LoadedTyped DEF Commit, Loading, WatermarkInv, Base
    <3>2. Loaded' = Loaded \cup {k}
      BY <2>1, <2>3 DEF Loaded, Key
    <3>3. k \notin Loaded
      BY <2>3 DEF Loaded, SnapshotsOf
    <3>4. catalog'[k] = [object |-> o, stations |-> Listed(o)]
      <4>1. /\ Key(l) \in logical_snapshots'
            /\ Key(l).feed = M(l).feed /\ Key(l).at = At(l) /\ Key(l).object = o
        BY <2>1, <2>3 DEF Key
      <4>. QED BY <2>3, <4>1, EntryIsNext
    <3>5. \A j \in Loaded : catalog'[j] = catalog[j]
      <4>1. ASSUME NEW s \in logical_snapshots
            PROVE  catalog'[<<s.feed, s.at>>] = catalog[<<s.feed, s.at>>]
        <5>1. catalog[<<s.feed, s.at>>] = [object |-> s.object, stations |-> Shown(s)]
          BY EntryIs
        <5>2. s \in logical_snapshots'
          BY <2>1
        <5>3. catalog'[<<s.feed, s.at>>]
                = [object |-> s.object, stations |-> Shown(s)']
          BY <5>2, EntryIsNext
        <5>4. Shown(s)' = Shown(s)
          BY <2>1
        <5>. QED BY <5>1, <5>3, <5>4
      <4>. QED BY <4>1 DEF Loaded
    <3>6. catalog' = [j \in Loaded \cup {k} |->
            IF j = k THEN [object |-> o, stations |-> Listed(o)] ELSE catalog[j]]
      <4>. HIDE DEF k, o
      <4>1. catalog' = [j \in Loaded' |-> catalog'[j]]
        BY EntryIsNext
      <4>. QED BY <3>2, <3>3, <3>4, <3>5, <4>1
    <3>7. Catalog!Admit(k, o)
      <4>1. DOMAIN catalog = Loaded
        BY DEF catalog
      <4>. HIDE DEF k, o
      <4>. QED BY <3>3, <3>6, <4>1 DEF Catalog!Admit
    <3>. QED BY <3>1, <3>7 DEF Catalog!Next
  <2>. QED BY <1>2, <2>2, <2>3, CommitAdds
<1>3. ASSUME NEW l \in Loaders, ~Commit(l),
             Collect(l) \/ LoadAll(l) \/ Fault(l) \/ Step(l)
      PROVE  UNCHANGED CatalogTables
  BY <1>3 DEF Collect, LoadAll, Fault, RollbackTx, Step, Begin,
     InsertRawManifest, InsertLogicalSnapshot, InsertRows, SelectCurrent,
     WriteStationsScd, UpsertLifecycle, UpsertDatasetWatermark, tables, CatalogTables
<1>. QED BY <1>1, <1>2, <1>3 DEF Next, vars, tables, CatalogTables

\* The loader implements SnapshotCatalog, for all archives, loaders, overlaps
\* and faults (loader.ts:709-879).
THEOREM LoaderImplements == Spec => ImplementsCatalog
<1>1. Init => Catalog!Init
  BY DEF Init, TablesInit, Catalog!Init, catalog, Loaded
<1>. QED
  BY InitCatalog, NextCatalog, StepsAdmit, <1>1, PTL
  DEF Spec, ImplementsCatalog, Catalog!Spec

------------------------------------------------------------------------------
(* The lifecycle row of a station is what its loaded rows say of it.       *)

\* A row of station_status tells what the object of its snapshot reports.
StatusTells ==
  \A r \in snapshot_station_status : \A s \in SnapshotsOf(Status, r.at) :
    r.observed = Later(Parsed(s.object)[r.station].reported, r.at)

\* Some loaded row tells each time of a lifecycle row.
LifecycleTold ==
  \A s \in DOMAIN station_lifecycle :
    /\ station_lifecycle[s].first_seen_at \in Observations(s)
    /\ station_lifecycle[s].last_seen_at \in Observations(s)
    /\ station_lifecycle[s].last_active_at \in StatusTimes(s) \cup {Null}

\* What a load tells of a station is in a row, loaded or of its own.
Told(l, s) ==
  IF M(l).feed = Info
  THEN \E r \in snapshot_station_information \cup tx[l].information :
         r.station = s /\ r.at = At(l)
  ELSE \E r \in snapshot_station_status \cup tx[l].status :
         r.station = s /\ r.observed = Observed(l, s)

Witnessed(l) ==
  pc[l] \in {"current", "scd", "lifecycle"} \/ tx[l].lifecycle # <<>> =>
    \A s \in DOMAIN RowsOf(l) : Told(l, s)

ToldInv == /\ LifeInv /\ CatalogInv /\ StatusTells /\ LifecycleTold
           /\ \A l \in Loaders : Witnessed(l)

\* The empty tables satisfy the invariant.
LEMMA InitTold == Init => ToldInv
<1>. SUFFICES ASSUME Init PROVE ToldInv
  OBVIOUS
<1>1. LifeInv /\ CatalogInv
  BY InitLife, InitCatalog
<1>2. /\ snapshot_station_status = {} /\ DOMAIN station_lifecycle = {}
      /\ \A l \in Loaders : tx[l].lifecycle = <<>> /\ pc[l] = "open"
  BY DEF Init, TablesInit, NoWrites
<1>. QED BY <1>1, <1>2 DEF ToldInv, StatusTells, LifecycleTold, Witnessed

\* A step of one loader leaves what the others tell in a row.
LEMMA OthersTold ==
  ASSUME ToldInv, NEW l \in Loaders, LoadersAlone(l),
         \A k \in Loaders \ {l} : run'[k] = run[k] /\ pc'[k] = pc[k],
         snapshot_station_information \subseteq snapshot_station_information',
         snapshot_station_status \subseteq snapshot_station_status',
         NEW k \in Loaders \ {l}
  PROVE  Witnessed(k)'
<1>1. /\ M(k)' = M(k) /\ At(k)' = At(k) /\ RowsOf(k)' = RowsOf(k)
      /\ tx'[k] = tx[k] /\ pc'[k] = pc[k]
      /\ \A s : Observed(k, s)' = Observed(k, s)
  BY DEF M, At, PublisherLastUpdated, RowsOf, Observed, LoadersAlone
<1>2. ASSUME NEW s, Told(k, s) PROVE Told(k, s)'
  BY <1>1, <1>2 DEF Told
<1>. QED BY <1>1, <1>2 DEF ToldInv, Witnessed

\* A step that commits nothing.
LEMMA ToldStays ==
  ASSUME ToldInv, LifeInv', CatalogInv', NEW l \in Loaders, LoadersAlone(l),
         UNCHANGED tables,
         \A k \in Loaders \ {l} : run'[k] = run[k] /\ pc'[k] = pc[k],
         Witnessed(l)'
  PROVE  ToldInv'
<1>1. StatusTells' /\ LifecycleTold'
  BY DEF ToldInv, StatusTells, LifecycleTold, SnapshotsOf, Observations,
     StatusTimes, tables
<1>2. \A k \in Loaders \ {l} : Witnessed(k)'
  BY OthersTold DEF tables
<1>. QED BY <1>1, <1>2 DEF ToldInv

\* A statement after the rows are written, and before COMMIT.
LEMMA ToldGoesOn ==
  ASSUME ToldInv, LifeInv', CatalogInv', NEW l \in Loaders, LoadersAlone(l),
         UNCHANGED <<tables, run>>, NEW step, Goto(l, step),
         tx'[l].information = tx[l].information, tx'[l].status = tx[l].status,
         \/ pc[l] \in {"current", "scd", "lifecycle"}
         \/ /\ tx'[l].lifecycle = tx[l].lifecycle
            /\ step \notin {"current", "scd", "lifecycle"}
  PROVE  ToldInv'
<1>1. pc'[l] = step /\ \A k \in Loaders \ {l} : pc'[k] = pc[k]
  BY DEF ToldInv, LifeInv, TypeInv, WatermarkInv, Base, RawInv, Shape, Goto
<1>2. /\ M(l)' = M(l) /\ At(l)' = At(l) /\ RowsOf(l)' = RowsOf(l)
      /\ \A s : Observed(l, s)' = Observed(l, s)
  BY DEF M, At, PublisherLastUpdated, RowsOf, Observed
<1>3. \A s : Told(l, s)' <=> Told(l, s)
  BY <1>2 DEF Told, tables
<1>4. Witnessed(l)'
  BY <1>1, <1>2, <1>3 DEF ToldInv, Witnessed
<1>. QED BY <1>1, <1>4, ToldStays

\* A row that gives way to one of its snapshot and station is told by that one:
\* a snapshot has one object.
LEMMA RowsTold ==
  ASSUME ToldInv, LifeInv', CatalogInv', NEW l \in Loaders, InsertRows(l)
  PROVE  ToldInv'
<1>. USE DEF InsertRows, Loading
<1>1. /\ Shape /\ Written(l) /\ Filled(l) /\ HeldRows(l) /\ LifeHeld(l)
      /\ CatalogInv /\ StatusTells
  BY DEF ToldInv, LifeInv, CatalogInv, WatermarkInv, Base, RawInv
<1>2. /\ UNCHANGED <<tables, run>> /\ pc[l] = "rows" /\ LoadersAlone(l)
      /\ \A k \in Loaders \ {l} : pc'[k] = pc[k]
  BY <1>1 DEF Shape, LoadersAlone, InsertInformation, InsertStatus, Goto
<1>3. tx[l].lifecycle = <<>> /\ tx[l].information = {} /\ tx[l].status = {}
  BY <1>1, <1>2 DEF LifeHeld, HeldRows
<1>4. /\ M(l)' = M(l) /\ At(l)' = At(l) /\ RowsOf(l)' = RowsOf(l)
      /\ \A s : Observed(l, s)' = Observed(l, s)
  BY <1>2 DEF M, At, PublisherLastUpdated, RowsOf, Observed
<1>5. CASE RowsOf(l) = <<>>
  <2>1. Witnessed(l)'
    BY <1>4, <1>5 DEF Witnessed
  <2>. QED BY <1>2, <2>1, ToldStays
<1>6. CASE M(l).feed = Info /\
           InsertInformation(l, {InformationRow(l, s) : s \in DOMAIN RowsOf(l)})
  <2>. DEFINE rows == {InformationRow(l, s) : s \in DOMAIN RowsOf(l)}
  <2>1. tx'[l].information = NewRows(rows, snapshot_station_information)
    BY <1>1, <1>6 DEF InsertInformation, Shape, Fields
  <2>2. ASSUME NEW s \in DOMAIN RowsOf(l) PROVE Told(l, s)'
    <3>. DEFINE row == InformationRow(l, s)
    <3>1. row \in rows /\ row.at = At(l) /\ row.station = s
      BY DEF InformationRow
    <3>. HIDE DEF row, rows
    <3>2. CASE row \in NewRows(rows, snapshot_station_information)
      BY <1>4, <1>6, <2>1, <3>1, <3>2 DEF Told
    <3>3. CASE row \notin NewRows(rows, snapshot_station_information)
      <4>1. PICK r \in snapshot_station_information : SameStation(row, r)
        BY <3>1, <3>3 DEF NewRows
      <4>. QED BY <1>2, <1>4, <1>6, <3>1, <4>1 DEF Told, SameStation, tables
    <3>. QED BY <3>2, <3>3
  <2>3. Witnessed(l)'
    BY <1>4, <2>2 DEF Witnessed
  <2>. QED BY <1>2, <2>3, ToldStays
<1>7. CASE M(l).feed = Status /\
           InsertStatus(l, {StatusRow(l, s) : s \in DOMAIN RowsOf(l)})
  <2>. DEFINE rows == {StatusRow(l, s) : s \in DOMAIN RowsOf(l)}
  <2>0. Status # Info
    BY DEF Status, Info
  <2>1. tx'[l].status = NewRows(rows, snapshot_station_status)
    BY <1>1, <1>7 DEF InsertStatus, Shape, Fields
  <2>2. ASSUME NEW s \in DOMAIN RowsOf(l) PROVE Told(l, s)'
    <3>. DEFINE row == StatusRow(l, s)
    <3>1. /\ row \in rows /\ row.at = At(l) /\ row.station = s
          /\ row.observed = Observed(l, s)
      BY DEF StatusRow
    <3>. HIDE DEF row, rows
    <3>2. CASE row \in NewRows(rows, snapshot_station_status)
      BY <1>4, <1>7, <2>0, <2>1, <3>1, <3>2 DEF Told
    <3>3. CASE row \notin NewRows(rows, snapshot_station_status)
      <4>1. PICK r \in snapshot_station_status : SameStation(row, r)
        BY <3>1, <3>3 DEF NewRows
      <4>2. r.at = At(l) /\ r.station = s
        BY <3>1, <4>1 DEF SameStation
      <4>3. SnapshotsOf(Status, At(l)) # {}
        BY <1>1, <4>2 DEF CatalogInv, RowsHaveSnapshot
      <4>4. tx[l].snapshots = {}
        BY <1>1, <1>2, <1>7, <4>3 DEF Written, Key, CatalogInv, SnapshotsApart
      <4>5. PICK o \in SnapshotsOf(Status, At(l)) : o.object = M(l).object
        BY <1>1, <1>2, <1>7, <4>4 DEF Filled
      <4>6. r.observed = Later(Parsed(M(l).object)[s].reported, At(l))
        BY <1>1, <4>2, <4>5 DEF StatusTells
      <4>7. r.observed = Observed(l, s)
        BY <4>6 DEF Observed, RowsOf
      <4>. QED BY <1>2, <1>4, <1>7, <2>0, <4>2, <4>7 DEF Told, tables
    <3>. QED BY <3>2, <3>3
  <2>3. Witnessed(l)'
    BY <1>4, <2>2 DEF Witnessed
  <2>. QED BY <1>2, <2>3, ToldStays
<1>. QED BY <1>5, <1>6, <1>7

\* COMMIT publishes the rows that tell the lifecycle it publishes.
LEMMA CommitTold ==
  ASSUME ToldInv, LifeInv', CatalogInv', NEW l \in Loaders, Commit(l)
  PROVE  ToldInv'
<1>. DEFINE lives == tx[l].lifecycle
            life == station_lifecycle
<1>1. /\ Shape /\ Written(l) /\ Filled(l) /\ HeldRows(l) /\ LifeHeld(l)
      /\ Witnessed(l) /\ ArchiveInv /\ CatalogInv /\ LifecycleTold
      /\ pc[l] = "commit"
  BY DEF ToldInv, LifeInv, CatalogInv, WatermarkInv, Base, RawInv, Commit, Loading
<1>2. /\ logical_snapshots' = logical_snapshots \cup tx[l].snapshots
      /\ snapshot_station_information' =
           snapshot_station_information \cup tx[l].information
      /\ snapshot_station_status' = snapshot_station_status \cup tx[l].status
      /\ DOMAIN life' = DOMAIN life \cup DOMAIN lives
      /\ \A s \in DOMAIN lives : life'[s] = lives[s]
      /\ \A s \in DOMAIN life \ DOMAIN lives : life'[s] = life[s]
  BY DEF Commit, CommitTx, Upserted
<1>3. /\ LoadersAlone(l) /\ tx'[l] = NoWrites /\ pc'[l] = "open"
      /\ \A k \in Loaders \ {l} : run'[k] = run[k] /\ pc'[k] = pc[k]
  BY <1>1 DEF Shape, LoadersAlone, Commit, CommitTx, Goto
<1>4. Witnessed(l)'
  BY <1>3 DEF Witnessed, NoWrites
<1>5. \A k \in Loaders \ {l} : Witnessed(k)'
  BY <1>2, <1>3, OthersTold
<1>6. \A s : StatusTimes(s) \subseteq StatusTimes(s)'
             /\ Observations(s) \subseteq Observations(s)'
  <2>1. \A s : StatusTimes(s) \subseteq StatusTimes(s)'
    BY <1>2 DEF StatusTimes
  <2>. QED BY <1>2, <2>1 DEF Observations
<1>7. LifecycleTold'
  <2>1. ASSUME NEW s \in DOMAIN life \ DOMAIN lives
        PROVE  /\ life'[s].first_seen_at \in Observations(s)'
               /\ life'[s].last_seen_at \in Observations(s)'
               /\ life'[s].last_active_at \in StatusTimes(s)' \cup {Null}
    BY <1>1, <1>2, <1>6 DEF LifecycleTold
  <2>2. ASSUME NEW s \in DOMAIN lives
        PROVE  /\ life'[s].first_seen_at \in Observations(s)'
               /\ life'[s].last_seen_at \in Observations(s)'
               /\ life'[s].last_active_at \in StatusTimes(s)' \cup {Null}
    <3>. DEFINE seen == SeenBy(l, s)
                active == ActiveBy(l, s)
    <3>1. lives = Life(l) /\ s \in DOMAIN RowsOf(l) /\ Told(l, s)
      <4>1. lives # <<>>
        OBVIOUS
      <4>2. lives = Life(l)
        BY <1>1, <4>1 DEF LifeHeld
      <4>3. s \in DOMAIN RowsOf(l)
        BY <4>2 DEF Life
      <4>. QED BY <1>1, <4>1, <4>2, <4>3 DEF Witnessed
    <3>2. seen \in Observations(s)' /\ active \in StatusTimes(s)' \cup {Null}
      <4>1. CASE M(l).feed = Info
        <5>1. PICK r \in snapshot_station_information \cup tx[l].information :
                r.station = s /\ r.at = At(l)
          BY <3>1, <4>1 DEF Told
        <5>2. At(l) \in Observations(s)'
          BY <1>2, <5>1 DEF Observations
        <5>. QED BY <4>1, <5>2 DEF SeenBy, ActiveBy
      <4>2. CASE M(l).feed # Info
        <5>1. PICK r \in snapshot_station_status \cup tx[l].status :
                r.station = s /\ r.observed = Observed(l, s)
          BY <3>1, <4>2 DEF Told
        <5>2. Observed(l, s) \in StatusTimes(s)'
          BY <1>2, <5>1 DEF StatusTimes
        <5>. QED BY <4>2, <5>2 DEF SeenBy, ActiveBy, Observations
      <4>. QED BY <4>1, <4>2
    <3>3. CASE s \in DOMAIN life
      <4>1. /\ life[s].first_seen_at \in Observations(s)'
            /\ life[s].last_seen_at \in Observations(s)'
            /\ life[s].last_active_at \in StatusTimes(s)' \cup {Null}
        BY <1>1, <1>6, <3>3 DEF LifecycleTold
      <4>2. life[s] \in LifecycleRow
        BY <3>3, PartialValues DEF ToldInv, LifeInv, TypeInv, LoaderTypeOK
      <4>3. life'[s] = SeenAgain(life[s], seen, active)
        BY <1>2, <3>1, <3>3 DEF Life
      <4>. HIDE DEF seen, active
      <4>4. /\ life'[s].first_seen_at = life[s].first_seen_at
            /\ life'[s].last_seen_at \in {life[s].last_seen_at, seen}
            /\ life'[s].last_active_at \in {life[s].last_active_at, active}
        BY <4>2, <4>3 DEF SeenAgain, LifecycleRow, Later
      <4>. QED BY <3>2, <4>1, <4>4
    <3>4. CASE s \notin DOMAIN life
      <4>1. life'[s] = FirstSeen(seen, active)
        BY <1>2, <3>1, <3>4 DEF Life
      <4>. QED BY <3>2, <4>1 DEF FirstSeen
    <3>. QED BY <3>3, <3>4
  <2>. QED BY <1>2, <2>1, <2>2 DEF LifecycleTold
<1>8. StatusTells'
  <2>1. Status # Info /\ Key(l).feed = M(l).feed /\ Key(l).at = At(l)
        /\ Key(l).object = M(l).object
    BY DEF Status, Info, Key
  <2>2. \/ tx[l].snapshots = {} /\ tx[l].status = {}
        \/ tx[l].snapshots = {Key(l)} /\ SnapshotsOf(M(l).feed, At(l)) = {}
    BY <1>1, <2>1 DEF Written, Filled, NoRows, Early, CatalogInv, SnapshotsApart
  <2>3. ASSUME NEW r \in snapshot_station_status, NEW s \in SnapshotsOf(Status, r.at)'
        PROVE  r.observed = Later(Parsed(s.object)[r.station].reported, r.at)
    <3>1. SnapshotsOf(Status, r.at) # {}
      BY <1>1 DEF CatalogInv, RowsHaveSnapshot
    <3>2. s \in SnapshotsOf(Status, r.at)
      BY <1>2, <2>1, <2>2, <3>1 DEF SnapshotsOf
    <3>. QED BY <3>2 DEF ToldInv, StatusTells
  <2>4. ASSUME NEW r \in tx[l].status, NEW s \in SnapshotsOf(Status, r.at)'
        PROVE  r.observed = Later(Parsed(s.object)[r.station].reported, r.at)
    <3>1. /\ M(l).feed = Status /\ r.at = At(l)
          /\ r.observed = Observed(l, r.station)
      BY <1>1 DEF HeldRows, Filled, RowsAt
    <3>2. s = Key(l)
      BY <1>2, <2>2, <3>1 DEF SnapshotsOf
    <3>. QED BY <2>1, <3>1, <3>2 DEF Observed, RowsOf
  <2>. QED BY <1>2, <2>3, <2>4 DEF StatusTells
<1>. QED BY <1>4, <1>5, <1>7, <1>8 DEF ToldInv

\* Every step keeps the invariant.
LEMMA NextTold == ToldInv /\ [Next]_vars => ToldInv'
<1>. SUFFICES ASSUME ToldInv, [Next]_vars PROVE ToldInv'
  OBVIOUS
<1>0. /\ LifeInv' /\ CatalogInv' /\ Shape
      /\ \A l \in Loaders : Written(l) /\ LifeHeld(l)
  BY NextLife, NextCatalog DEF ToldInv, LifeInv, TypeInv, WatermarkInv, Base, RawInv
<1>. USE <1>0
<1>1. CASE UNCHANGED vars
  <2>1. UNCHANGED <<tables, tx, run, pc>>
    BY <1>1 DEF vars
  <2>2. StatusTells' /\ LifecycleTold'
    BY <2>1 DEF ToldInv, StatusTells, LifecycleTold, SnapshotsOf, Observations,
       StatusTimes, tables
  <2>3. ASSUME NEW l \in Loaders PROVE Witnessed(l)'
    <3>1. /\ M(l)' = M(l) /\ At(l)' = At(l) /\ RowsOf(l)' = RowsOf(l)
          /\ \A s : Observed(l, s)' = Observed(l, s)
      BY <2>1 DEF M, At, PublisherLastUpdated, RowsOf, Observed
    <3>. QED BY <2>1, <3>1 DEF ToldInv, Witnessed, Told, tables
  <2>. QED BY <2>2, <2>3 DEF ToldInv
<1>2. ASSUME NEW l \in Loaders, UNCHANGED tables, LoadersAlone(l),
             \A k \in Loaders \ {l} : run'[k] = run[k] /\ pc'[k] = pc[k],
             pc'[l] \notin {"current", "scd", "lifecycle"},
             tx'[l].lifecycle = <<>>
      PROVE  ToldInv'
  <2>1. Witnessed(l)'
    BY <1>2 DEF Witnessed
  <2>. QED BY <1>2, <2>1, ToldStays
<1>3. ASSUME NEW l \in Loaders, Collect(l) \/ LoadAll(l) PROVE ToldInv'
  <2>1. /\ UNCHANGED <<tables, tx, pc>> /\ run[l] = <<>>
        /\ \A k \in Loaders \ {l} : run'[k] = run[k]
    BY <1>3 DEF Collect, LoadAll, Shape
  <2>2. pc[l] = "open" /\ tx[l].lifecycle = <<>>
    BY <2>1 DEF Written, LifeHeld
  <2>. QED BY <1>2, <2>1, <2>2 DEF LoadersAlone
<1>4. ASSUME NEW l \in Loaders, Fault(l) PROVE ToldInv'
  <2>1. /\ LoadersAlone(l) /\ UNCHANGED tables /\ tx'[l] = NoWrites
        /\ pc'[l] = "open"
        /\ \A k \in Loaders \ {l} : run'[k] = run[k] /\ pc'[k] = pc[k]
    BY <1>4 DEF Fault, RollbackTx, EndRun, Goto, LoadersAlone, Shape
  <2>2. NoWrites.lifecycle = <<>>
    BY DEF NoWrites
  <2>. QED BY <1>2, <2>1, <2>2
<1>5. ASSUME NEW l \in Loaders, Begin(l) PROVE ToldInv'
  <2>1. UNCHANGED tables /\ pc[l] = "open" /\ tx[l].lifecycle = <<>>
    BY <1>5 DEF Begin, Loading, LifeHeld
  <2>2. CASE EndRun(l) /\ UNCHANGED tx
    <3>1. pc'[l] = "open"
          /\ \A k \in Loaders \ {l} : run'[k] = run[k] /\ pc'[k] = pc[k]
      BY <2>2 DEF EndRun, Goto, Shape
    <3>. QED BY <1>2, <2>1, <2>2, <3>1 DEF LoadersAlone
  <2>3. CASE ReadLatest(l, M(l).feed) /\ Goto(l, "raw") /\ UNCHANGED run
    <3>1. /\ LoadersAlone(l) /\ tx'[l].lifecycle = <<>> /\ pc'[l] = "raw"
          /\ \A k \in Loaders \ {l} : pc'[k] = pc[k]
      BY <2>1, <2>3 DEF ReadLatest, LoadersAlone, Goto, Shape, Fields
    <3>. QED BY <1>2, <2>1, <2>3, <3>1
  <2>. QED BY <1>5, <2>2, <2>3 DEF Begin
<1>6. ASSUME NEW l \in Loaders, InsertRawManifest(l) PROVE ToldInv'
  <2>1. UNCHANGED <<tables, run>> /\ tx[l].lifecycle = <<>>
    BY <1>6 DEF InsertRawManifest, Loading, LifeHeld
  <2>2. /\ LoadersAlone(l) /\ tx'[l].lifecycle = <<>> /\ pc'[l] = "snapshot"
        /\ \A k \in Loaders \ {l} : pc'[k] = pc[k]
    BY <1>6, <2>1 DEF InsertRawManifest, InsertRaw, LoadersAlone, Goto, Shape, Fields
  <2>. QED BY <1>2, <2>1, <2>2
<1>7. ASSUME NEW l \in Loaders, InsertLogicalSnapshot(l) PROVE ToldInv'
  <2>1. UNCHANGED <<tables, run>> /\ tx[l].lifecycle = <<>>
    BY <1>7 DEF InsertLogicalSnapshot, Loading, LifeHeld
  <2>2. /\ LoadersAlone(l) /\ tx'[l].lifecycle = <<>> /\ pc'[l] \in {"commit", "rows"}
        /\ \A k \in Loaders \ {l} : pc'[k] = pc[k]
    BY <1>7, <2>1
    DEF InsertLogicalSnapshot, InsertSnapshot, LoadersAlone, Goto, Shape, Fields
  <2>. QED BY <1>2, <2>1, <2>2
<1>8. ASSUME NEW l \in Loaders, InsertRows(l) PROVE ToldInv'
  BY <1>8, RowsTold
<1>9. ASSUME NEW l \in Loaders, SelectCurrent(l) PROVE ToldInv'
  <2>1. /\ LoadersAlone(l) /\ tx'[l].information = tx[l].information
        /\ tx'[l].status = tx[l].status
    BY <1>9 DEF SelectCurrent, ReadCurrent, LoadersAlone, Shape, Fields
  <2>. QED BY <1>9, <2>1, ToldGoesOn DEF SelectCurrent, Loading
<1>10. ASSUME NEW l \in Loaders, WriteStationsScd(l) PROVE ToldInv'
  <2>1. /\ LoadersAlone(l) /\ tx'[l].information = tx[l].information
        /\ tx'[l].status = tx[l].status
    BY <1>10 DEF WriteStationsScd, WriteScd, LoadersAlone, Shape, Fields
  <2>. QED BY <1>10, <2>1, ToldGoesOn DEF WriteStationsScd, Loading
<1>11. ASSUME NEW l \in Loaders, UpsertLifecycle(l) PROVE ToldInv'
  <2>1. PICK stations, seen, active :
          UpsertLifecycleRows(l, stations, seen, active)
    BY <1>11 DEF UpsertLifecycle
  <2>2. /\ LoadersAlone(l) /\ tx'[l].information = tx[l].information
        /\ tx'[l].status = tx[l].status
    BY <2>1 DEF UpsertLifecycleRows, LoadersAlone, Shape, Fields
  <2>. QED BY <1>11, <2>2, ToldGoesOn DEF UpsertLifecycle, Loading
<1>12. ASSUME NEW l \in Loaders, UpsertDatasetWatermark(l) PROVE ToldInv'
  <2>1. /\ LoadersAlone(l) /\ tx'[l].information = tx[l].information
        /\ tx'[l].status = tx[l].status /\ tx'[l].lifecycle = tx[l].lifecycle
    BY <1>12 DEF UpsertDatasetWatermark, UpsertWatermarkRow, LoadersAlone, Shape,
       Fields
  <2>. QED BY <1>12, <2>1, ToldGoesOn DEF UpsertDatasetWatermark, Loading
<1>13. ASSUME NEW l \in Loaders, Commit(l) PROVE ToldInv'
  BY <1>13, CommitTold
<1>. QED
  BY <1>1, <1>3, <1>4, <1>5, <1>6, <1>7, <1>8, <1>9, <1>10, <1>11, <1>12, <1>13
  DEF Next, Step

\* A station has a lifecycle row once it is observed, last seen and last active
\* at the newest of its loaded observations and first seen at one of them,
\* whatever the archive, the order of the loads, the number of loaders and their
\* overlap (loader.ts:535-561, 672-701).
THEOREM LifecycleNewest == Spec => []LifecycleIsNewest
<1>1. ToldInv => LifecycleIsNewest
  <2> SUFFICES ASSUME ToldInv, NEW s \in Stations
               PROVE  /\ s \in DOMAIN station_lifecycle <=> Observations(s) # {}
                      /\ s \in DOMAIN station_lifecycle =>
                           LET life == station_lifecycle[s]
                           IN /\ life.first_seen_at \in Observations(s)
                              /\ life.last_seen_at \in Observations(s)
                              /\ \A t \in Observations(s) : t <= life.last_seen_at
                              /\ life.last_active_at \in StatusTimes(s) \cup {Null}
                              /\ \A t \in StatusTimes(s) : t <= life.last_active_at
    BY DEF LifecycleIsNewest
  <2>1. LifecycleTold /\ LifecycleCovers /\ LoaderTypeOK
    BY DEF ToldInv, LifeInv, TypeInv
  <2>2. ASSUME NEW t \in StatusTimes(s)
        PROVE  /\ s \in DOMAIN station_lifecycle
               /\ t <= station_lifecycle[s].last_seen_at
               /\ t <= station_lifecycle[s].last_active_at
    <3>1. PICK r \in snapshot_station_status : r.station = s /\ r.observed = t
      BY DEF StatusTimes
    <3>. QED BY <2>1, <3>1 DEF LifecycleCovers
  <2>3. ASSUME NEW t \in Observations(s) \ StatusTimes(s)
        PROVE  /\ s \in DOMAIN station_lifecycle
               /\ t <= station_lifecycle[s].last_seen_at
    <3>1. PICK r \in snapshot_station_information : r.station = s /\ r.at = t
      BY DEF Observations
    <3>. QED BY <2>1, <3>1 DEF LifecycleCovers
  <2>. QED BY <2>1, <2>2, <2>3 DEF LifecycleTold
<1>. QED BY InitTold, NextTold, <1>1, PTL DEF Spec

------------------------------------------------------------------------------
(* No two loads wait for each other.                                       *)

\* The order of the statements, which is the order of the locks.
Place == [step \in Steps |->
            CASE step = "open" -> 0 [] step = "raw" -> 1 [] step = "snapshot" -> 2
              [] step = "rows" -> 3 [] step = "current" -> 4 [] step = "scd" -> 5
              [] step = "lifecycle" -> 6 [] step = "watermark" -> 7
              [] step = "commit" -> 8]

Reached(l) == Place[pc[l]]

\* A load holds rows only of the statements it has behind it.
Behind(l) ==
  /\ pc[l] \in Steps /\ (run[l] = <<>> => pc[l] = "open")
  /\ tx[l].raw # {} => Reached(l) > 1
  /\ tx[l].snapshots # {} => Reached(l) > 2
  /\ tx[l].information # {} \/ tx[l].status # {} => Reached(l) > 3
  /\ tx[l].closed # {} \/ tx[l].opened # {} => Reached(l) > 5
  /\ DOMAIN tx[l].lifecycle # {} => Reached(l) > 6
  /\ DOMAIN tx[l].watermarks # {} => Reached(l) > 7

LockInv == Shape /\ \A l \in Loaders : Behind(l)

LEMMA PlaceIs ==
  /\ Place["open"] = 0 /\ Place["raw"] = 1 /\ Place["snapshot"] = 2
  /\ Place["rows"] = 3 /\ Place["current"] = 4 /\ Place["scd"] = 5
  /\ Place["lifecycle"] = 6 /\ Place["watermark"] = 7 /\ Place["commit"] = 8
  /\ \A step \in Steps : Place[step] \in 0..8
<1>1. /\ Place["open"] = 0 /\ Place["raw"] = 1 /\ Place["snapshot"] = 2
      /\ Place["rows"] = 3 /\ Place["current"] = 4 /\ Place["scd"] = 5
      /\ Place["lifecycle"] = 6 /\ Place["watermark"] = 7 /\ Place["commit"] = 8
  BY DEF Place, Steps
<1>2. \A step \in Steps : Place[step] \in 0..8
  BY <1>1 DEF Steps
<1> QED
  BY <1>1, <1>2

LEMMA InitLock == Init => LockInv
BY PlaceIs DEF Init, TablesInit, NoWrites, LockInv, Shape, Fields, Behind, Reached, Steps

\* A step of one load leaves the others where they are.
LEMMA OthersBehind ==
  ASSUME LockInv, NEW l \in Loaders, Shape', LoadersAlone(l),
         \A k \in Loaders \ {l} : run'[k] = run[k] /\ pc'[k] = pc[k],
         Behind(l)'
  PROVE  LockInv'
<1>1. ASSUME NEW k \in Loaders \ {l} PROVE Behind(k)'
  BY <1>1 DEF LockInv, Behind, Reached, LoadersAlone
<1> QED
  BY <1>1 DEF LockInv

\* A load that ends, however it ends, holds nothing.
LEMMA EndBehind ==
  ASSUME LockInv, NEW l \in Loaders, tx' = [tx EXCEPT ![l] = NoWrites],
         Goto(l, "open"), NEW rest, run' = [run EXCEPT ![l] = rest]
  PROVE  LockInv'
<1>1. /\ Shape' /\ LoadersAlone(l) /\ tx'[l] = NoWrites /\ pc'[l] = "open"
      /\ \A k \in Loaders \ {l} : run'[k] = run[k] /\ pc'[k] = pc[k]
  BY DEF LockInv, Shape, Goto, LoadersAlone, NoWrites, Fields
<1>2. Behind(l)'
  BY <1>1 DEF Behind, NoWrites, Steps
<1> QED
  BY <1>1, <1>2, OthersBehind

\* A run begins with nothing held.
LEMMA RunBehind ==
  ASSUME LockInv, NEW l \in Loaders, run[l] = <<>>, UNCHANGED <<tx, pc>>,
         NEW s, run' = [run EXCEPT ![l] = s] \/ run' = run
  PROVE  LockInv'
<1>1. /\ Shape' /\ LoadersAlone(l)
      /\ \A k \in Loaders \ {l} : run'[k] = run[k] /\ pc'[k] = pc[k]
  BY DEF LockInv, Shape, LoadersAlone
<1>2. Behind(l)'
  BY DEF LockInv, Behind, Reached
<1> QED
  BY <1>1, <1>2, OthersBehind

\* A statement goes on to a later one, and holds what it locked from then on.
LEMMA StatementBehind ==
  ASSUME LockInv, NEW l \in Loaders, Loading(l, pc[l]), UNCHANGED run,
         Shape', LoadersAlone(l), NEW step \in Steps, Goto(l, step),
         Reached(l) < Place[step],
         tx'[l].raw = tx[l].raw \/ Place[step] > 1,
         tx'[l].snapshots = tx[l].snapshots \/ Place[step] > 2,
         \/ tx'[l].information = tx[l].information /\ tx'[l].status = tx[l].status
         \/ Place[step] > 3,
         \/ tx'[l].closed = tx[l].closed /\ tx'[l].opened = tx[l].opened
         \/ Place[step] > 5,
         tx'[l].lifecycle = tx[l].lifecycle \/ Place[step] > 6,
         tx'[l].watermarks = tx[l].watermarks \/ Place[step] > 7
  PROVE  LockInv'
<1>1. /\ pc'[l] = step /\ pc[l] \in Steps
      /\ \A k \in Loaders \ {l} : run'[k] = run[k] /\ pc'[k] = pc[k]
  BY DEF LockInv, Shape, Goto, Behind
<1> DEFINE a == Reached(l)  b == Place[step]
<1>2. a \in 0..8 /\ b \in 0..8 /\ a < b /\ Reached(l)' = b
  BY <1>1, PlaceIs DEF Reached
<1>3. Behind(l)'
  <2>1. /\ tx[l].raw # {} => a > 1
        /\ tx[l].snapshots # {} => a > 2
        /\ tx[l].information # {} \/ tx[l].status # {} => a > 3
        /\ tx[l].closed # {} \/ tx[l].opened # {} => a > 5
        /\ DOMAIN tx[l].lifecycle # {} => a > 6
        /\ DOMAIN tx[l].watermarks # {} => a > 7
    BY DEF LockInv, Behind
  <2>2. run'[l] # <<>>
    BY DEF Loading
  <2> HIDE DEF a, b
  <2>3. /\ tx'[l].raw # {} => b > 1
        /\ tx'[l].snapshots # {} => b > 2
    BY <1>2, <2>1 DEF b
  <2>4. /\ tx'[l].information # {} \/ tx'[l].status # {} => b > 3
        /\ tx'[l].closed # {} \/ tx'[l].opened # {} => b > 5
    BY <1>2, <2>1 DEF b
  <2>5. /\ DOMAIN tx'[l].lifecycle # {} => b > 6
        /\ DOMAIN tx'[l].watermarks # {} => b > 7
    BY <1>2, <2>1 DEF b
  <2> QED
    BY <1>1, <1>2, <2>2, <2>3, <2>4, <2>5 DEF Behind
<1> QED
  BY <1>1, <1>3, OthersBehind

\* What a statement changes of what its own transaction holds.
LEMMA RawWrites ==
  ASSUME Shape, NEW l \in Loaders, NEW row, InsertRaw(l, row)
  PROVE  /\ DOMAIN tx' = Loaders /\ DOMAIN tx'[l] = Fields /\ LoadersAlone(l)
         /\ \A f \in Fields \ {"raw"} : tx'[l][f] = tx[l][f]
BY DEF Shape, Fields, InsertRaw, LoadersAlone

LEMMA SnapshotWrites ==
  ASSUME Shape, NEW l \in Loaders, NEW row, InsertSnapshot(l, row)
  PROVE  /\ DOMAIN tx' = Loaders /\ DOMAIN tx'[l] = Fields /\ LoadersAlone(l)
         /\ \A f \in Fields \ {"snapshots"} : tx'[l][f] = tx[l][f]
BY DEF Shape, Fields, InsertSnapshot, LoadersAlone

LEMMA RowWrites ==
  ASSUME Shape, NEW l \in Loaders, NEW rows,
         InsertInformation(l, rows) \/ InsertStatus(l, rows)
  PROVE  /\ DOMAIN tx' = Loaders /\ DOMAIN tx'[l] = Fields /\ LoadersAlone(l)
         /\ \A f \in Fields \ {"information", "status"} : tx'[l][f] = tx[l][f]
BY DEF Shape, Fields, InsertInformation, InsertStatus, LoadersAlone

LEMMA CurrentWrites ==
  ASSUME Shape, NEW l \in Loaders, NEW S, NEW feed,
         ReadCurrent(l, S) \/ ReadLatest(l, feed)
  PROVE  /\ DOMAIN tx' = Loaders /\ DOMAIN tx'[l] = Fields /\ LoadersAlone(l)
         /\ \A f \in Fields \ {"current", "latest"} : tx'[l][f] = tx[l][f]
BY DEF Shape, Fields, ReadCurrent, ReadLatest, LoadersAlone

LEMMA ScdWrites ==
  ASSUME Shape, NEW l \in Loaders, NEW at, NEW spec, WriteScd(l, at, spec)
  PROVE  /\ DOMAIN tx' = Loaders /\ DOMAIN tx'[l] = Fields /\ LoadersAlone(l)
         /\ \A f \in Fields \ {"current", "closed", "opened"} : tx'[l][f] = tx[l][f]
BY DEF Shape, Fields, WriteScd, LoadersAlone

LEMMA LifecycleWrites ==
  ASSUME Shape, NEW l \in Loaders, NEW S, NEW seen, NEW active,
         UpsertLifecycleRows(l, S, seen, active)
  PROVE  /\ DOMAIN tx' = Loaders /\ DOMAIN tx'[l] = Fields /\ LoadersAlone(l)
         /\ \A f \in Fields \ {"lifecycle"} : tx'[l][f] = tx[l][f]
BY DEF Shape, Fields, UpsertLifecycleRows, LoadersAlone

LEMMA MarkWrites ==
  ASSUME Shape, NEW l \in Loaders, NEW feed, NEW at, UpsertWatermarkRow(l, feed, at)
  PROVE  /\ DOMAIN tx' = Loaders /\ DOMAIN tx'[l] = Fields /\ LoadersAlone(l)
         /\ \A f \in Fields \ {"watermarks"} : tx'[l][f] = tx[l][f]
BY DEF Shape, Fields, UpsertWatermarkRow, LoadersAlone

\* Every step takes its locks in the order of the statements.
LEMMA NextLock == LockInv /\ [Next]_vars => LockInv'
<1> SUFFICES ASSUME LockInv, [Next]_vars PROVE LockInv'
  OBVIOUS
<1>1. CASE UNCHANGED vars
  BY <1>1 DEF vars, LockInv, Shape, Behind, Reached
<1> SUFFICES ASSUME NEW l \in Loaders, Collect(l) \/ LoadAll(l) \/ Fault(l) \/ Step(l)
             PROVE  LockInv'
  BY <1>1 DEF Next
<1>2. Shape /\ pc[l] \in Steps
  BY DEF LockInv, Behind
\* Where a statement that only changes the fields F leads to.
<1>3. ASSUME NEW step \in Steps, Loading(l, pc[l]), UNCHANGED run, Goto(l, step),
             DOMAIN tx' = Loaders, DOMAIN tx'[l] = Fields, LoadersAlone(l)
      PROVE  Shape'
  BY <1>2, <1>3 DEF Shape, LoadersAlone, Goto
<1>4. CASE Collect(l)
  <2>1. run[l] = <<>> /\ UNCHANGED <<tx, pc>>
    BY <1>4 DEF Collect
  <2>2. \E s : run' = [run EXCEPT ![l] = s] \/ run' = run
    BY <1>4 DEF Collect
  <2> QED
    BY <2>1, <2>2, RunBehind
<1>5. CASE LoadAll(l)
  <2>1. run[l] = <<>> /\ UNCHANGED <<tx, pc>> /\ \E s : run' = [run EXCEPT ![l] = s]
    BY <1>5 DEF LoadAll
  <2> QED
    BY <2>1, RunBehind
<1>6. CASE Fault(l)
  BY <1>6, EndBehind DEF Fault, RollbackTx, EndRun
<1>7. CASE Begin(l)
  <2>1. pc[l] = "open" /\ Loading(l, pc[l])
    BY <1>7 DEF Begin, Loading
  <2>2. CASE EndRun(l) /\ UNCHANGED tx
    <3>1. /\ Shape' /\ LoadersAlone(l) /\ pc'[l] = "open" /\ tx'[l] = tx[l]
          /\ \A k \in Loaders \ {l} : run'[k] = run[k] /\ pc'[k] = pc[k]
      BY <1>2, <2>2 DEF Shape, EndRun, Goto, LoadersAlone
    <3>2. Behind(l)'
      BY <1>2, <2>1, <3>1 DEF LockInv, Behind, Reached
    <3> QED
      BY <3>1, <3>2, OthersBehind
  <2>3. CASE ReadLatest(l, M(l).feed) /\ Goto(l, "raw") /\ UNCHANGED run
    <3>1. /\ DOMAIN tx' = Loaders /\ DOMAIN tx'[l] = Fields /\ LoadersAlone(l)
          /\ \A f \in Fields \ {"current", "latest"} : tx'[l][f] = tx[l][f]
      BY <1>2, <2>3, CurrentWrites
    <3>2. "raw" \in Steps /\ Reached(l) < Place["raw"]
      BY <2>1, PlaceIs DEF Steps, Reached
    <3>3. Shape'
      BY <1>3, <2>1, <2>3, <3>1, <3>2
    <3> QED
      BY <2>1, <2>3, <3>1, <3>2, <3>3, StatementBehind DEF Fields
  <2> QED
    BY <1>7, <2>2, <2>3 DEF Begin
<1>8. CASE InsertRawManifest(l)
  <2>1. /\ Loading(l, pc[l]) /\ pc[l] = "raw" /\ UNCHANGED run
        /\ Goto(l, "snapshot") /\ InsertRaw(l, Key(l))
    BY <1>8 DEF InsertRawManifest, Loading
  <2>2. /\ DOMAIN tx' = Loaders /\ DOMAIN tx'[l] = Fields /\ LoadersAlone(l)
        /\ \A f \in Fields \ {"raw"} : tx'[l][f] = tx[l][f]
    BY <1>2, <2>1, RawWrites
  <2>3. /\ "snapshot" \in Steps /\ Reached(l) < Place["snapshot"]
        /\ Place["snapshot"] > 1
    BY <2>1, PlaceIs DEF Steps, Reached
  <2>4. Shape'
    BY <1>3, <2>1, <2>2, <2>3
  <2> QED
    BY <2>1, <2>2, <2>3, <2>4, StatementBehind DEF Fields
<1>9. CASE InsertLogicalSnapshot(l)
  <2>1. /\ Loading(l, pc[l]) /\ pc[l] = "snapshot" /\ UNCHANGED run
        /\ Goto(l, "commit") \/ Goto(l, "rows")
        /\ InsertSnapshot(l, Key(l))
    BY <1>9 DEF InsertLogicalSnapshot, Loading
  <2>2. /\ DOMAIN tx' = Loaders /\ DOMAIN tx'[l] = Fields /\ LoadersAlone(l)
        /\ \A f \in Fields \ {"snapshots"} : tx'[l][f] = tx[l][f]
    BY <1>2, <2>1, SnapshotWrites
  <2>3. PICK step \in {"commit", "rows"} : Goto(l, step)
    BY <2>1
  <2>4. step \in Steps /\ Reached(l) < Place[step] /\ Place[step] > 2
    BY <2>1, <2>3, PlaceIs DEF Steps, Reached
  <2>5. Shape'
    BY <1>3, <2>1, <2>2, <2>3, <2>4
  <2> QED
    BY <2>1, <2>2, <2>3, <2>4, <2>5, StatementBehind DEF Fields
<1>10. CASE InsertRows(l)
  <2>1. Loading(l, pc[l]) /\ pc[l] = "rows" /\ UNCHANGED run
    BY <1>10 DEF InsertRows, Loading
  <2>2. CASE Goto(l, "watermark") /\ UNCHANGED tx
    <3>1. /\ DOMAIN tx' = Loaders /\ DOMAIN tx'[l] = Fields /\ LoadersAlone(l)
          /\ tx'[l] = tx[l]
      BY <1>2, <2>2 DEF Shape, LoadersAlone
    <3>2. "watermark" \in Steps /\ Reached(l) < Place["watermark"]
      BY <2>1, PlaceIs DEF Steps, Reached
    <3>3. Shape'
      BY <1>3, <2>1, <2>2, <3>1, <3>2
    <3> QED
      BY <2>1, <2>2, <3>1, <3>2, <3>3, StatementBehind
  <2>3. ASSUME NEW rows, InsertInformation(l, rows) \/ InsertStatus(l, rows),
               NEW step \in {"current", "lifecycle"}, Goto(l, step)
        PROVE  LockInv'
    <3>1. /\ DOMAIN tx' = Loaders /\ DOMAIN tx'[l] = Fields /\ LoadersAlone(l)
          /\ \A f \in Fields \ {"information", "status"} : tx'[l][f] = tx[l][f]
      BY <1>2, <2>3, RowWrites
    <3>2. step \in Steps /\ Reached(l) < Place[step] /\ Place[step] > 3
      BY <2>1, <2>3, PlaceIs DEF Steps, Reached
    <3>3. Shape'
      BY <1>3, <2>1, <2>3, <3>1, <3>2
    <3> QED
      BY <2>1, <2>3, <3>1, <3>2, <3>3, StatementBehind DEF Fields
  <2> QED
    BY <1>10, <2>2, <2>3 DEF InsertRows
<1>11. CASE SelectCurrent(l)
  <2>1. /\ Loading(l, pc[l]) /\ pc[l] = "current" /\ UNCHANGED run
        /\ Goto(l, "scd") /\ ReadCurrent(l, DOMAIN RowsOf(l))
    BY <1>11 DEF SelectCurrent, Loading
  <2>2. /\ DOMAIN tx' = Loaders /\ DOMAIN tx'[l] = Fields /\ LoadersAlone(l)
        /\ \A f \in Fields \ {"current", "latest"} : tx'[l][f] = tx[l][f]
    BY <1>2, <2>1, CurrentWrites
  <2>3. "scd" \in Steps /\ Reached(l) < Place["scd"]
    BY <2>1, PlaceIs DEF Steps, Reached
  <2>4. Shape'
    BY <1>3, <2>1, <2>2, <2>3
  <2> QED
    BY <2>1, <2>2, <2>3, <2>4, StatementBehind DEF Fields
<1>12. CASE WriteStationsScd(l)
  <2>1. /\ Loading(l, pc[l]) /\ pc[l] = "scd" /\ UNCHANGED run
        /\ Goto(l, "lifecycle") /\ WriteScd(l, At(l), RowsOf(l))
    BY <1>12 DEF WriteStationsScd, Loading
  <2>2. /\ DOMAIN tx' = Loaders /\ DOMAIN tx'[l] = Fields /\ LoadersAlone(l)
        /\ \A f \in Fields \ {"current", "closed", "opened"} : tx'[l][f] = tx[l][f]
    BY <1>2, <2>1, ScdWrites
  <2>3. /\ "lifecycle" \in Steps /\ Reached(l) < Place["lifecycle"]
        /\ Place["lifecycle"] > 5
    BY <2>1, PlaceIs DEF Steps, Reached
  <2>4. Shape'
    BY <1>3, <2>1, <2>2, <2>3
  <2> QED
    BY <2>1, <2>2, <2>3, <2>4, StatementBehind DEF Fields
<1>13. CASE UpsertLifecycle(l)
  <2>1. /\ Loading(l, pc[l]) /\ pc[l] = "lifecycle" /\ UNCHANGED run
        /\ Goto(l, "watermark")
        /\ \E S, seen, active : UpsertLifecycleRows(l, S, seen, active)
    BY <1>13 DEF UpsertLifecycle, Loading
  <2>2. /\ DOMAIN tx' = Loaders /\ DOMAIN tx'[l] = Fields /\ LoadersAlone(l)
        /\ \A f \in Fields \ {"lifecycle"} : tx'[l][f] = tx[l][f]
    BY <1>2, <2>1, LifecycleWrites
  <2>3. /\ "watermark" \in Steps /\ Reached(l) < Place["watermark"]
        /\ Place["watermark"] > 6
    BY <2>1, PlaceIs DEF Steps, Reached
  <2>4. Shape'
    BY <1>3, <2>1, <2>2, <2>3
  <2> QED
    BY <2>1, <2>2, <2>3, <2>4, StatementBehind DEF Fields
<1>14. CASE UpsertDatasetWatermark(l)
  <2>1. /\ Loading(l, pc[l]) /\ pc[l] = "watermark" /\ UNCHANGED run
        /\ Goto(l, "commit") /\ UpsertWatermarkRow(l, M(l).feed, At(l))
    BY <1>14 DEF UpsertDatasetWatermark, Loading
  <2>2. /\ DOMAIN tx' = Loaders /\ DOMAIN tx'[l] = Fields /\ LoadersAlone(l)
        /\ \A f \in Fields \ {"watermarks"} : tx'[l][f] = tx[l][f]
    BY <1>2, <2>1, MarkWrites
  <2>3. /\ "commit" \in Steps /\ Reached(l) < Place["commit"]
        /\ Place["commit"] > 7
    BY <2>1, PlaceIs DEF Steps, Reached
  <2>4. Shape'
    BY <1>3, <2>1, <2>2, <2>3
  <2> QED
    BY <2>1, <2>2, <2>3, <2>4, StatementBehind DEF Fields
<1>15. CASE Commit(l)
  BY <1>15, EndBehind DEF Commit, CommitTx
<1> QED
  BY <1>4, <1>5, <1>6, <1>7, <1>8, <1>9, <1>10, <1>11, <1>12, <1>13, <1>14, <1>15
     DEF Step

\* Of the loads that run, one is furthest.
LEMMA Furthest ==
  ASSUME LockInv, Running # {}
  PROVE  \E l \in Running : \A k \in Running : Reached(k) <= Reached(l)
<1> DEFINE A(n) == \E l \in Running : Reached(l) >= n
<1>1. \A l \in Running : Reached(l) \in 0..8
  BY PlaceIs DEF LockInv, Behind, Reached, Running
<1>2. A(0) /\ ~ A(9)
  BY <1>1
<1>3. ASSUME NEW n \in 0..8, A(n), ~ A(n + 1)
      PROVE  \E l \in Running : \A k \in Running : Reached(k) <= Reached(l)
  <2>1. PICK l \in Running : Reached(l) >= n
    BY <1>3
  <2>2. \A k \in Running : Reached(k) < n + 1
    BY <1>1, <1>3
  <2>3. \A k \in Running : Reached(k) <= Reached(l)
    BY <1>1, <2>1, <2>2
  <2> QED
    BY <2>3
<1>4. \E n \in 0..8 : A(n) /\ ~ A(n + 1)
  <2>1. SUFFICES ASSUME \A n \in 0..8 : A(n) => A(n + 1) PROVE FALSE
    OBVIOUS
  <2> HIDE DEF A
  <2> QED
    BY <1>2, <2>1
<1> QED
  BY <1>3, <1>4

\* It waits for nobody: what it wants to lock is held only by loads further on.
LEMMA FurthestGoes ==
  ASSUME LockInv, NEW l \in Running, \A k \in Running : Reached(k) <= Reached(l)
  PROVE  ~ Waits(l)
<1>1. l \in Loaders /\ Others(l) \subseteq Loaders
  BY DEF Running, Others
<1>2. ASSUME NEW k \in Others(l), NEW n \in Nat, Reached(k) > n
      PROVE  Reached(l) > n
  <2>1. /\ pc[k] \in Steps /\ pc[l] \in Steps
        /\ Reached(k) \in 0..8 /\ Reached(l) \in 0..8
    BY <1>1, PlaceIs DEF LockInv, Behind, Reached
  <2>2. pc[k] # "open"
    BY <1>2, <2>1, PlaceIs DEF Reached
  <2>3. k \in Running
    BY <1>1, <2>2 DEF LockInv, Behind, Running
  <2>4. Reached(k) <= Reached(l)
    BY <2>3
  <2> QED
    BY <1>2, <2>1, <2>4
<1>3. \A k \in Others(l) : Behind(k)
  BY <1>1 DEF LockInv
<1>4. ASSUME Loading(l, "raw"), ~ RawFree(l, Key(l)) PROVE FALSE
  <2>1. PICK k \in Others(l) : tx[k].raw # {}
    BY <1>4 DEF RawFree
  <2> QED
    BY <1>2, <1>3, <1>4, <2>1, PlaceIs DEF Behind, Loading, Reached
<1>5. ASSUME Loading(l, "snapshot"), ~ SnapshotFree(l, Key(l)) PROVE FALSE
  <2>1. PICK k \in Others(l) : tx[k].snapshots # {}
    BY <1>5 DEF SnapshotFree
  <2> QED
    BY <1>2, <1>3, <1>5, <2>1, PlaceIs DEF Behind, Loading, Reached
<1>6. ASSUME Loading(l, "rows"), NEW rows,
             ~ InformationFree(l, rows) \/ ~ StatusFree(l, rows)
      PROVE  FALSE
  <2>1. PICK k \in Others(l) : tx[k].information # {} \/ tx[k].status # {}
    BY <1>6 DEF InformationFree, StatusFree
  <2> QED
    BY <1>2, <1>3, <1>6, <2>1, PlaceIs DEF Behind, Loading, Reached
<1>7. ASSUME Loading(l, "scd"), NEW rows, ~ ScdFree(l, rows) PROVE FALSE
  <2>1. PICK k \in Others(l) : tx[k].closed # {} \/ tx[k].opened # {}
    BY <1>7 DEF ScdFree
  <2> QED
    BY <1>2, <1>3, <1>7, <2>1, PlaceIs DEF Behind, Loading, Reached
<1>8. ASSUME Loading(l, "lifecycle"), NEW S, ~ LifecycleFree(l, S) PROVE FALSE
  <2>1. PICK k \in Others(l) : DOMAIN tx[k].lifecycle # {}
    BY <1>8 DEF LifecycleFree
  <2> QED
    BY <1>2, <1>3, <1>8, <2>1, PlaceIs DEF Behind, Loading, Reached
<1>9. ASSUME Loading(l, "watermark"), NEW f, ~ WatermarkFree(l, f) PROVE FALSE
  <2>1. PICK k \in Others(l) : DOMAIN tx[k].watermarks # {}
    BY <1>9 DEF WatermarkFree
  <2> QED
    BY <1>2, <1>3, <1>9, <2>1, PlaceIs DEF Behind, Loading, Reached
<1> QED
  BY <1>4, <1>5, <1>6, <1>7, <1>8, <1>9 DEF Waits

\* Among any loads, of any archive, one can always go on, so the locks are
\* never waited for in a circle.
THEOREM LoadsGoOn == Spec => []OneGoesOn
<1>1. LockInv => OneGoesOn
  BY Furthest, FurthestGoes DEF OneGoesOn
<1> QED
  BY InitLock, NextLock, <1>1, PTL DEF Spec

===============================================================================
