# Urbanflow: specifications and proofs

TLA+ models of the bike-share control plane in this repository, the TLC runs that check them
on small instances, and TLAPS proofs of what matters most for every instance. Paths are
relative to the repository root.

Contents: 1 the system · 2 the modules · 3 state and actions against the code · 4 the runs ·
5 fairness · 6 the proofs · 7 what disagrees with the documents · 8 what is only
model-checked, and what is not modelled · 9 the plan.

## 1. The system

Urbanflow is a TypeScript monorepo on PostgreSQL. An ingest program archives GBFS feeds and
loads them; an API serves views, tiles and rebalancing plans; a worker computes the plans; a
web client plays them back. Processes share nothing but the database (and an archive and a
cache on disk). The API and the worker run every statement on its own, so there **every
statement is atomic and no two of them are**. The GBFS loader has one connection
(`cli.ts:121`) and opens a transaction per manifest, at READ COMMITTED: its writes appear
together, but what it reads may change between two of its statements.

| component (code) | state | operations | interacts with |
|---|---|---|---|
| job queue (`packages/api/src/jobs/queue.ts`) | tables `job_queue`, `job_dlq` | enqueue, claim, ack, fail, getPendingByDedupeKey, cancelByDedupeKey | policy routes enqueue and cancel; workers claim, ack, fail |
| policy worker (`packages/api/src/policy/worker.ts`) | memory of one job; nothing survives the process | poll, solve, write the run and its moves, ack; on an exception record it and ack | queue, policy tables, solver |
| policy output store (`packages/policy/src/output_store.ts`) and its reader (`packages/api/src/policy/store.ts`) | tables `policy_runs`, `policy_moves` | upsertRun, replaceMoves; getRunSummary, listMoves | worker writes, routes read |
| solver (`packages/policy/src/greedy_v1.ts`, `global_v1.ts`) and the worker's fallbacks | loop variables | one round of a planning loop | called by the worker |
| policy routes (`packages/api/src/http/policy.ts`) | none across requests | `/run`, `/moves`, `/status`, `/cancel`, `/config` | queue, policy tables |
| serving tokens (`packages/api/src/sv/`) | signing keys, token records | mint, rotate, validate, revoke | every route validates a token |
| serving views (`packages/api/src/serving-views/`) | watermarks, views | read watermarks, mint a view | tokens, loader |
| GBFS collection (`packages/ingest/src/gbfs/{collector,poller,archive}.ts`) | archive files, poll schedule | fetch, archive, back off | loader, retention |
| GBFS loader (`packages/ingest/src/gbfs/loader.ts`) | raw manifests, snapshots, station dimension, watermarks | load a manifest idempotently | archive, serving views |
| ingest command line, retention (`packages/ingest/src/{cli,retention}.ts`) | archive files | load all, refresh aggregates, delete old files | loader, archive |
| tiles and replay cache (`packages/api/src/http/*tiles.ts`, `tiles/`) | cache files | look up, store | serving tokens |
| read endpoints and allowlist (`packages/api/src/http/control-plane.ts` and the handlers behind it) | none | check, validate the token, read, answer | tokens, serving tables |
| web playback (`apps/web/src/lib/useHudControls.ts`) | mode, playing, inspect lock | play, pause, seek, inspect, visibility | map shell |
| web map shell (`apps/web/src/components/map/MapShell.tsx`) and policy client (`lib/policy/`) | optimisation session, status, request in flight | run, sync, cancel, change strategy, go live, preview, inspect, Escape; poll, time out, abort | playback, drawer, policy routes |
| web station drawer (`apps/web/src/components/hud/StationDrawer.tsx`) | selected station, its details, debounce, fetch | open, load, answer, close | map shell |
| admin, wiring, severity, trips baseline, rendering, SQL refreshes | none that evolves by a protocol | parse, SELECT, shape, draw | |

### What is hard, and what makes each part correct

* **Queue.** A lease may end while its consumer works; ack and fail go by `job_id` and do
  not ask who holds the lease; `fail()` is two statements. Correct means: no job is lost,
  doubled or in two places; a key is outstanding once; the DLQ holds exhausted jobs only;
  every job leaves the queue.
* **Worker and store.** A run is written in `n + 3` statements (fail with
  `persisting_moves`, delete, `n` inserts, success) with a crash, an exception or another
  worker between any two. Correct means: a success holds exactly the moves of one solution;
  an interrupted run is finished by a later delivery; whoever is told *pending* gets an
  outcome.
* **Routes.** Check-then-act across awaits. Correct means: an answer describes one state of
  a run.
* **Solver.** Rounding, three budgets, ties. Correct means: bikes conserved, bands and
  budgets kept, no shuffling to and fro, and termination.
* **Loader.** Nothing keeps two loaders apart: a poller and a `--load` over the archive
  overlap, repeat old snapshots and meet each other's rows. Correct means: a snapshot is
  loaded once, whole, and never changes; watermarks are exact; the station history has
  neither gap nor overlap; loads do not block each other.
* **Tokens and views.** A mint and a validation are several statements, between which keys
  rotate, tokens are revoked, time passes and ingest moves the watermarks. Correct means: a
  held token has its record, its view and its key; a view is no older than what the answer
  lists; who is let in had a good token at some moment.
* **Replay cache.** A tile is two files written in place. Correct means: no answer carries a
  part of a tile, or the metadata of another.
* **Archive.** Objects are shared by manifests and written in place; retention deletes
  beside the collector, file by file. Correct means: what is kept can be loaded; a cycle
  comes to its end whatever fails in it.
* **Web client.** One thread, but timers, visibility events, late answers and aborts arrive
  between any two clicks, and a handler sees the state of the last render. Correct means:
  nothing plays under the inspect lock and the lock goes with the drawer; a *pending* has
  somebody to end it; only the latest answer is shown.

The full list, each at its line, is under `hazards` in `PROJECT.json`.

## 2. The modules

    RunKey ── JobTable ─┬─ JobQueue ── MCJobQueue          JobQueueProofs
                        │     └─ refines WorkQueue
           └ PolicyStore┴─ PolicyWorker ── PolicyPipeline ─┬─ MCPolicyPipeline
                           PipelineQueue ──────────────────┘
                             │  └─ refines JobQueue        PolicyPipelineProofs
                             └─ MCPipelineQueue
    PolicySolver ─┬─ MCPolicySolver
       Sorting ───┴─ WorkerPlan ─┬─ MCWorkerPlan
                   ListsAndSums ─┴─ PolicySolverProofs
    GbfsTables ── GbfsLoader ─┬─ MCGbfsLoader              GbfsLoaderProofs
                              └─ refines SnapshotCatalog
       Sorting ── GbfsArchive ─┬─ MCGbfsArchive
                 ListsAndSums ─┴─ GbfsArchiveProofs
    ServingTokens ── ServingViews ─┬─ TileServing ─┬─ MCTileServing
                     ReadRoutes ───┘               └─ ServingProofs
    HudControls ──┬─ MapShell ─┬─ MCMapShell
    StationDrawer ┘            └─ MapShellProofs

| module | models |
|---|---|
| `RunKey` | what names a run: the dedupe key of a job is the run key |
| `JobTable` | the two queue tables and the SQL statements on them |
| `JobQueue` | `PgJobQueue` under any producers and consumers |
| `WorkQueue` | abstract: an at-least-once queue, one waiting item per key, no leases |
| `PolicyStore` | the policy tables and the statements that write and read them |
| `PolicyWorker` | the worker's life of a job, with its catch block |
| `PolicyPipeline` | requests, queue, workers and store together |
| `PipelineQueue` | the same with history variables: the real worker and routes as a use of `JobQueue` |
| `PolicySolver` | both strategies, one round of the loop per step |
| `WorkerPlan` | strategy, relaxed strategy, forced preview, unconstrained fallback |
| `GbfsTables` | the tables the loader writes, its statements on them, READ COMMITTED transactions and row locks |
| `GbfsLoader` | loads of manifests, statement by statement, under any number of pollers and `--load` runs |
| `SnapshotCatalog` | abstract: a catalog in which a snapshot appears once, whole, and stays |
| `GbfsArchive` | the poller's cycles, the archive's files, crashes, and retention beside them |
| `ServingTokens` | keys, token records, and each statement that mints, validates, rotates or revokes |
| `ServingViews` | `GET /api/time`: watermarks, view, key and record, one statement after the other |
| `ReadRoutes` | the read endpoints as data: checks before and after the token, statements, answers |
| `TileServing` | requests of those routes against the tokens, the composite tile and its replay cache |
| `HudControls` | the playback hook: its handlers as functions that compose, its timers and callbacks |
| `StationDrawer` | the drawer and its on-demand load |
| `MapShell` | the optimisation session over both, with the client's poll |
| `Sorting` | `Array.prototype.sort`: the list of a finite set in a strict total order |
| `ListsAndSums` | lemmas, no state: least elements, sums over finite sets, sorted lists |
| `*Proofs` | theorems about the module of that name; `PolicySolverProofs` is about `WorkerPlan` too, `PolicyPipelineProofs` about `PipelineQueue`, `ServingProofs` about `TileServing` |
| `MC*` | values for the constants of the runs |

`JobTable` is shared: `JobQueue` studies the queue by itself with the most general
consumers, and `PolicyPipeline` puts the real consumer on the same statements.
`PipelineQueue` closes the gap: it adds to `PolicyPipeline` what `JobQueue` remembers of a
job, and shows that the real worker and the real routes do nothing that `JobQueue` does not
allow. `PolicyPipeline` takes a plan to be any member of `Outcomes`; `WorkerPlan` and
`PolicySolver` are about what that plan is. `GbfsLoader` starts from the archive as a set of
manifests, which `GbfsArchive` shows being written and removed; a load at the end of a poll
cycle is one step there. `TileServing` sees the loader's effect as watermarks that rise and
serving tables that change version. `MapShell` sees the policy routes as answers that come
in any order, or not at all.

## 3. State and actions against the code

**`JobTable`, `JobQueue`.** A row keeps `job_id`, its key, `attempts` and whether
`visible_at` has passed; so every visibility timeout and backoff is covered, as is every
order of claims. `max_attempts` is one constant: no caller passes its own. `job_type` is
dropped (the program has one) and jobs always have a dedupe key.

| action | code |
|---|---|
| `Enqueue`, `CancelByDedupeKey`, `Ack` | one statement each |
| `Claim` | the CTE with `FOR UPDATE SKIP LOCKED` and its UPDATE: one statement, limit 1 as the worker passes |
| `FailSelect`, `FailDecide` | the SELECT of `fail()`, then the DLQ move or the backoff it decided on |
| `VisibleAgain` | `visible_at` passes, for waiting rows and under a busy consumer alike |
| `Throws` | a statement of the job, or of `fail()`, throws; the consumer still has the job, and the worker's catch block goes on to ack it |
| `Crash` | the consumer stops, or its ack throws and is only logged; its row stays leased |

`acked` and `canceled` are history variables of the model.

**`PolicyStore`, `PolicyWorker`.** `run_id` order stands for `created_at` order: an upsert
of an existing row leaves both unchanged. `pc` is the worker's position:

    idle ─claim→ claimed ─solve, upsert fail/persisting_moves→ begun ─DELETE→ inserting
         ─INSERT…→ inserting ─upsert success→ marked ─ack→ idle
    claimed ─unsupported version→ deciding → idle
    any of them ─exception→ error ─upsert policy_worker_error→ recorded ─ack→ idle

`BeginRun` includes reading the stations and solving, which change nothing shared; their
exception is `SolveThrows`. A fallback solves with another specification, so the spec hash a
run is keyed by may differ between attempts: `Outcomes` is a set of pairs of a spec and a
list of moves. `WriteConflict` is the primary key of `policy_moves` refusing a rank another
worker wrote. `DbError` is a statement that throws without effect; inside the catch block
its two `try`s go on as the code does. `Faults` says which of `crash`, `throw`, `db_error`
and `overrun` (a lease that ends under its worker) can happen, so that a run, or a theorem,
states what its property needs. A claim that throws changes nothing and is left out.
`concluded` is a history variable.

**`PolicyPipeline`.** A request is at the next `await` of its handler.

| action | code (`http/policy.ts`) |
|---|---|
| `Look` | `getRunSummary` and every answer that follows from it alone |
| `ListMoves` | `listMoves` of `/moves` |
| `StatusPending`, `CheckPending` | `getPendingByDedupeKey`; whether the job is past `pending_timeout_ms` is left open |
| `EnqueueRun`, `EnqueueThrows` | `enqueue`, or its exception |
| `CancelRun` | `cancelByDedupeKey` |

**`PipelineQueue`.** `HNext` is `PolicyPipeline!Next` action by action, and notes `acked`,
`canceled` and `lease`, the attempts `claim()` returned, which the worker's main loop drops.
A worker is seen as a `JobQueue` consumer: *idle*; *deciding* between the two statements of
`fail()`; *working* everywhere else, in the catch block too. `ClaimJob` is then `Claim`, an
ack `Ack`, an unsupported version `FailSelect` and `FailDecide`, an exception `Throws` or a
stutter, `LeaseEnds` is `VisibleAgain`, `EnqueueRun` and `CancelRun` are what they call, and
every other step is a stutter.

**`PolicySolver`.** `MoveBikes` is a round of the `while`: candidates, sort, first within
the station budget, transfer. The strategies differ in the order `First` and are one module,
with `policy_version` chosen as the request chooses it. Efficiency, a quotient in the code,
is compared by cross-multiplication, and fractions are percentages: exact where the code
rounds. `bucket_quality` and `min_capacity` decide eligibility.

**`WorkerPlan`.** The strategies are two instances of `PolicySolver`, with the capped
(`buildSpec`) and the relaxed bounds. The fallback loops keep their lists, indices and
budget as the code does; a step is one round.

**`GbfsTables`, `GbfsLoader`.** A transaction is a record of what its loader has written and
not committed (`tx`); `Commit` applies it, `Fault` drops it. Everybody else reads the
tables, which hold what is committed. A statement whose row another transaction holds waits:
its action is not enabled until that one ends. The snapshot key (feed, publisher time)
stands for `logical_snapshot_id`.

    open ─BEGIN, SELECT latest→ raw ─INSERT→ snapshot ─INSERT→ rows ─INSERT→ current
         ─read open rows→ scd ─close, open→ lifecycle ─upsert→ watermark ─upsert→
         commit ─COMMIT→ open, next manifest of the run
    snapshot ─conflict→ commit    rows ─none→ watermark    rows ─status feed→ lifecycle

| action | code |
|---|---|
| `Collect` | a poll cycle as it leaves the archive, with `--load-db` its loads too (`cli.ts`) |
| `LoadAll` | `--load`: every archived manifest in path order, or the ones `--manifest` names, in any order |
| `Begin` | `readManifest`, `BEGIN`, the SELECT of the newest snapshot; a manifest of a failed fetch throws |
| `InsertRawManifest`, `InsertLogicalSnapshot` | the two `ON CONFLICT DO NOTHING`; a snapshot of the key with another object commits at once |
| `InsertRows` | `readRawObject`, the parse and the first insert of station rows |
| `SelectCurrent`, `WriteStationsScd` | the one `stations_scd` statement, in two steps because it reads under the snapshot it started with and may wait before it writes |
| `UpsertLifecycle`, `UpsertDatasetWatermark` | the upserts with GREATEST |
| `Commit`, `Fault` | `COMMIT`; the catch block's `ROLLBACK`, or a crash |

A raw file cut short by a crash (`TornObjects`) parses as no stations, as `parsePayload` has
it. `ReadsDates` is the driver's choice for a `timestamptz`: with a Date the comparison of
`loader.ts:776` is never true. `inOrder` is a history variable: no station information has
been loaded late or beside another. The insert of the dataset row is one step with its
watermark; nothing sets the `retired` lifecycle status.

**`GbfsArchive`.** A file is named by what its path is made of: an object by its body's
hash, a manifest by feed, time and cycle. It is on the disk from its opening and `whole`
from its last byte.

    discover ─feeds listed→ fetch ─body→ object ─new→ object_end → manifest → manifest_end
    fetch ─failed→ manifest;  object ─exists→ manifest;  manifest_end ─more feeds→ fetch
    manifest_end ─last→ callback → sleep ─wait→ discover;  any exception → sleep

| action | code |
|---|---|
| `Discover`, `Fetch` | `discoverGbfsFeeds`, `fetchGbfsFeed`: either may fail, a failed fetch is archived without a body |
| `OpenObject`, `CloseObject`, `OpenManifest`, `CloseManifest` | the writes of `archive.ts`, only where no file is; an object that exists is taken as it is |
| `Callback`, `Wake` | `on_cycle_complete`, and the wait of `poller.ts` |
| `WriteFails`, `Crash`, `Restart` | what leaves a file cut short |
| `PlanPrune`, `Unlink` | `planArchivePrune` (age, then size) and `applyArchivePrune`, one file a step, which stops at the first error |

The walk over the archive is one step. `own` is a history variable: the manifest's own cycle
stored the object, and no pruner had it on its list.

**`ServingTokens`, `ServingViews`.** A token is its payload and the key that signed it; two
mints of one view in one second give one token, as the code's payload has no nonce.
`RetireKey` and `AddKey` are a rotation, `DropKey` the end of a key's grace, `Revoke` one
UPDATE. `AskTime` lists the watermarks (a required one that is missing ends the request),
`ReadMark` reads one of them again for the view, `UpsertView`, `PickKey` and `Mint` write
the view, read the active key and write the record. The issue time is taken with the record.
A mint remembers in `read` when it read the key, for the invariant only. Audit rows are left
out.

**`ReadRoutes`, `TileServing`.** A route is a record: which checks come first, whether it
takes a token, which checks follow, its statements, and how it may end. A request walks
through it:

    idle ─checks→ token ─getKey→ clock ─→ record ─getTokenRecord→ checks ─→ read … → answered
    checks ─composite→ binding ─replay→ probe ─hit→ meta → tile → answered
    binding ─not replay→ render ─too large→ trim;  probe ─miss→ render ─→ put → … → answered

The row `getKey` returned is used after its await, so `CheckClock` judges the clock with the
copy, in a step of its own before `ReadRecord`. `Put` is four steps: each of the two files
is empty until its last byte is written. `Fail` is a request that throws or a server that
stops at any await; what it left on disk stays. `sound` is a history variable: the token was
good as a whole when the key was read. `contended` holds the keys two requests missed
together. While an answer is looked at (`Receive`) nothing else moves, so a property of an
answer speaks of the moment it was made.

**`HudControls`, `StationDrawer`, `MapShell`.** A handler is a function of the state of the
last render and of the updates queued in this event; a click is one step with everything its
handlers do, and what follows an `await` is a later step. `Event` keeps a rejection of an
aborted fetch in the microtasks of its event; an aborted sleep is noticed only when it is
over (`lib/policy/client.ts:32`). Runs are named by request id.

| action | code (`MapShell.tsx`, unless named) |
|---|---|
| `RunPolicy` (`ClickRun`, `ClickSync`) | `runPolicy` to its first await; without a server token there is none and the local result is dropped |
| `CancelPolicy`, `ChangeStrategy`, `ExitPreview` | the three ways to abandon a run |
| `OpenInspect`, `CloseInspect`, `PressEscape` | the drawer, with the lock and the session they change |
| `TogglePlayback`, `SeekOrStep`, `LiveKey`, `ClickGoLive`, `ClickReturnLive` | buttons and keys of the clock |
| `Posted`, `Wake`, `Answer`, `Timeout`, `AbortSettles` | `runPolicyForView` (`lib/policy/client.ts`) and the rest of `runPolicy` |
| `PlaybackEnds` | the playback interval at its last move |
| `PollTime`, `ReachEnd`, `Hide`, `Show` | timers and visibility of `useHudControls.ts` |
| `LoadTier2`, `FetchTier2`, `Tier2Answer` | `StationDrawer.tsx`: button, debounce, answer |

`optimizationSessionRef` equals the session, except within the handler that has queued an
update. The build is the production one (no demo mode). Timeline position, speed, layers,
comparison, the version in a run key and the preview's phases are data. The user acts only
on a visible page. `dismissed` is a history variable.

## 4. The runs

| run | module | asks | result |
|---|---|---|---|
| `JobQueue_use` | `MCJobQueue` | conservation, distinct leases, exhausted DLQ, bounded deliveries; refinement of `WorkQueue`; every job leaves | holds |
| `Pipeline_whole` | `MCPolicyPipeline` | one writer per key; a success is whole | holds |
| `Pipeline_outcome` | `MCPipelineQueue` | an acked job has an outcome on record; worker and routes refine `JobQueue` | holds |
| `Pipeline_fair` | `MCPolicyPipeline` | an unfinished run has somebody to finish it; a queued job comes to an end | holds |
| `Solver_plans` | `MCPolicySolver` | conservation, budgets, bands, edges, order, for both strategies | holds |
| `Plan_fallbacks` | `MCWorkerPlan` | the fallbacks keep stock and bands; a no-op is honest | holds |
| `Loader_catalog` | `MCGbfsLoader` | snapshots whole and backed, watermarks exact, history and lifecycle consistent, no lock cycle; refinement of `SnapshotCatalog` | holds |
| `Loader_rerun` | | loading a loaded snapshot again changes nothing | violated |
| `Archive` | `MCGbfsArchive` | what is kept can be loaded; cycles end | holds |
| `Serving` | `MCTileServing` | tokens backed, views fresh, acceptance sound, tiles whole | holds |
| `Web_session` | `MCMapShell` | lock, drawer, pending, latest result, details; runs end | holds |
| `Web_abort` | | a run nobody dismissed stays | violated |

**What each property of the passing runs says.** `JobsConserved`: every id issued is in
exactly one of queue, DLQ, acked, canceled. `LeasesDistinct`: holders of one job hold
different attempts. `DlqExhausted`: a DLQ row has had `max_attempts` deliveries, despite the
stale read. `DeliveriesBounded`: a delivery beyond `max_attempts` is still in somebody's
hand or ended in a fault. `PipelineUsesQueue`: worker and routes are producers and consumers
in the sense of `JobQueue`. `SoleWriter`: no two workers write one run key.
`ReadyRunIsWhole`: the rows of a success are the moves of one solution.
`PersistingRunIsBacked`: the latest run is persisting only with a writer or a queued job.
`AckedHasOutcome`: no accepted request vanishes without a run. `JobsConclude`: a queued job
leads to a final run or the DLQ. `JobsLeave`: every job leaves the queue.
`ImplementsWorkQueue`: the queue is a `WorkQueue`. `NeverOvershoots`: a station ends between
where it was and its band. `NoEdgeTwice`, `NearestFirst`, `MovesExplainResult`,
`BudgetsKept`: about the list of moves as a whole, not one round. `PreviewWithinStock`,
`UnconstrainedWithinBands`, `NoOpIsHonest`: about the fallbacks. `SnapshotHasRaw`: a
snapshot's object is on record, though its raw row may have given way to another's.
`WatermarkIsNewest`: neither behind nor ahead of what is loaded. `LifecycleIsNewest`: a
station has a lifecycle row once it is observed; its last two times are the newest of the
loaded observations, so that no update was lost or lowered, and its first time is that of
some observation, not of the earliest (section 7). `HistoryTiles`: while information
snapshots come one by one and in order, the history has one open row and no gap.
`NoLockCycle`: some load can always go on. `ImplementsCatalog`: a snapshot appears once,
whole and of one object, and never changes. `KeptManifestIsLoadable`: the object a
manifest's own cycle stored is there and whole while the manifest is. `CyclesEnd`: the
poller asks again, whatever failed. `HeldTokensAreBacked`: record, view and key were stored
before a client held the token, and the key of a fresh token could sign when it was read;
retired since, it has its grace from that moment or later. `ViewIsFresh`: a new token's view
has every data set the answer lists, none older than listed, none newer than the tables.
`AcceptedWasSound`: an answer after the check is for a token that was good as a whole at one
moment of the request. `AnsweredTileIsWhole`: a tile is answered whole with its own
metadata, unless two requests missed it together. `LockPauses`: nothing plays while a drawer
holds the clock. `DrawerHoldsLock`: the lock is held exactly while a drawer is open.
`PendingIsActive`: a *pending* run is the latest, in flight, not aborted, and its answer
counts. `ResultIsLatest`: moves on the map are the latest run's, at the frozen key, not
dismissed. `DetailsOfStation`: details are those of the drawer's station. `RunsEnd`: a run
that was sent ends, also without an answer.

**Bounds.** `MaxAttempts = 2` (10 in the code) tells a first, a last and a surplus delivery
apart; two consumers or workers are enough for a stale and a current holder of a job, and a
third adds no new pair. `MaxJobs` bounds ids: two or three let a key be enqueued again after
it was acked, buried or cancelled. `MaxFaults` of one or two lets a redelivery fail as well.
The plans have two moves, one move and none, so a partly written or a mixed list differs
from every whole one; `OnePlan` is used where one is enough to show the property or its
violation. Two supported keys share nothing but the workers' time, so one is used, with an
unsupported one in `Pipeline_fair` and `Pipeline_outcome`: there two workers with two jobs
ack, fail, overrun and crash. `Pipeline_outcome` has the two routes that write the queue,
one plan of one move, and symmetric workers. `JobQueue_use` has two faults, enough for a job
to be delivered twice more than it should. `Solver_plans` takes every distribution of bikes
over six stations (capacities 8, 4, 4, 2, 2, 2) with an edge list that has ties, shared
donors and shared receivers; each of the three budgets is the one that ends some plan. At 45
and 55 percent these capacities have L <= U. `Plan_fallbacks` mixes eligible stations and
one kind the strategies reject. `Loader_catalog` has two loaders, two poll cycles, one
`--load` of the archive or of one manifest (`MaxNamed = 1`; a longer list is more loads in
another order, and the theorems are for any), one fault, and an archive with an older, a
newer and an untimed information snapshot, two status snapshots (one of them torn) and a
failed fetch: a load can meet a newer one, the same key with another object, or itself. Two
stations let one of them change while the other stays. `Archive` has two feeds with one body
each, so that a second cycle meets an object that is there; two cycles, two days past a
retention of one, a size limit below what two cycles write, one fault and two prunings: age
and size both select, and a pruning and a crash can fall within one cycle. `Serving` has two
requests, of a composite tile, a route of three statements and one without a token, one key
with a secret and one without, a life of two seconds and a grace of one, one record and
three events around the requests (`MaxEvents`): enough for a rotation or a revocation
between any two statements, a refresh between two renders, and a crash in a `put` that a
later request meets. The version that is too large trimmed is the first. The requests are
symmetric. `Web_session` has two stations to switch between and three runs: one to dismiss,
one its late abort can meet, one that answers after both.

**Conditions.** `SoleWriter`, `ReadyRunIsWhole` and `PersistingRunIsBacked` are checked
without `overrun` and without `/cancel`: with either, two workers write one run at once, and
each of the three fails. That is what the 60 s lease and its lack of renewal
(`worker.ts:97`) rest on. `PersistingRunIsBacked` also needs outcomes of one spec, and
crashes as the only faults: a redelivery that solves with another spec writes a row of its
own and leaves the first as it was. `AckedHasOutcome` holds with overruns and cancellations
but needs the catch block's own upsert to succeed (`worker.ts:789`). `NeverOvershoots`,
`NoEdgeTwice` and `NearestFirst` assume `ProperBands`, L <= U at every eligible station,
which the configuration does not ensure. `KeptManifestIsLoadable` leaves out an object an
earlier cycle had stored, whose mtime is not renewed, and a publisher whose clock is ahead.
`PendingIsActive` and `RunsEnd` leave out the run of a client that has no server token yet;
such a run stays pending (section 7).

`CHECK_DEADLOCK FALSE` is set in the solver and plan runs, where a plan ends, in the loader
and archive runs, where cycles, reloads and days run out (`NoLockCycle` says that no load is
ever left waiting), and in `Serving`, where tokens expire and events run out.

Each property of a passing run has a mutant: an operator `Mut...` standing before the
definition it replaces, with the slip a maintainer might make (a forgotten `ON CONFLICT`, an
ack too early, a forgotten DELETE, a swapped order, a cleanup that clears a timer and not
the fetch). The run finds it.

## 5. Fairness

`JobQueue!Fairness`, `PolicyPipeline!Fairness`: weak fairness of each consumer's claim and
of each step it owes after it, because the worker is a `while (true)` around a poll and a
straight line of awaits; and of the clock, which makes a row visible. A consumer of
`JobQueue` owes an ack *or* a fail. Nothing is assumed of requests, enqueues, cancellations,
exceptions, database errors or crashes, except that their bound makes faults finite. Weak
fairness is enough: a claim of a visible row, once possible, stays possible until some
consumer claims one, and the few attempts left by bounded enqueues end the contest.
`PlanFairSpec` is weak fairness of the next round: planning is synchronous. The loader has
no liveness run: its program is a straight line, so `NoLockCycle` is what its progress comes
to.

`GbfsArchive!Spec`: weak fairness of the poller's next step; `while` and awaits, and each of
them settles. A fetch has no timeout of its own, so this assumes that the network ends it.
Nothing is assumed of pruners, failures or a restart; `CyclesEnd` speaks of a process that
is up. `MapShell!FairSpec`: the 15 s timer of a run fires (`MapShell.tsx:1129` races it with
the whole poll), an aborted await settles, the playback interval goes on. Browsers throttle
timers of hidden pages, and do not stop them. Nothing is assumed of the server, whose
answers may never come, or of the user. `TileServing` has no fairness: its properties are of
safety.

## 6. The proofs

All are by TLAPS for every value of the constants that satisfies the named assumptions
(`JobTableAssumption`, `JobQueueAssumption`, `PolicyWorkerAssumption`, `PipelineAssumption`,
`SolverAssumption`, `GbfsTablesAssumption`, `GbfsLoaderAssumption`,
`ServingTokensAssumption`, `ServingViewsAssumption`, `TileServingAssumption`,
`GbfsArchiveAssumption`, `StationsAssumption`, `MaxRunsAssumption`), which TLC evaluates in
the runs.

* **`JobQueueProofs`** (`TypeCorrect`, `Conservation`, `Dedupe`, `LeaseIdentity`,
  `GivenUpExhausted`, `DeliveriesEnd`, `QueueImplements`). `Dedupe` says that there is one
  row per key and per id. `DlqExhausted` is not inductive alone: `fail()` decides from
  `read`, so the invariant adds that `read` never exceeds the row's attempts (attempts only
  grow), and, for the refinement, that a job in somebody's hands has been delivered at least
  once and has an id already issued. Each action then maps to `Add`, `Deliver`, `Finish`,
  `GiveUp`, `Cancel` of `WorkQueue` or to a stutter; a stale ack of a row that is gone is a
  stutter.
* **`JobQueueProofs`**, how often a job is delivered (`DeliveriesEnd`). Nothing in `claim()`
  bounds it. The invariant counts, for each row, its *late* holders: those whose lease is of
  an attempt not below `max_attempts`. A row has had fewer deliveries than `max_attempts`,
  the faults and its late holders together: a claim of a row at the bound makes a late
  holder; a late holder that fails has read an attempt no smaller than its own and buries
  the row, so that only a crash or a throw ends a late hold and leaves the row, and that is
  one fault more. `LeasesDistinct` and the finiteness of `Consumers` make the count one.
* **`PolicyPipelineProofs`** (`PipelineTypeCorrect`, `OneWriter`). Typing has two parts that
  are proved together: a worker beyond `begun` has a key, a run id and a rank in the range
  of its moves. `OneWriter` assumes `"overrun" \notin Faults` and `"cancel" \notin Ops` and
  adds: rows have distinct ids and keys; a busy worker's row is still there, is leased, and
  carries the worker's key; no two workers hold one row. A lease then cannot end while a
  worker holds it, a key cannot be enqueued while its row is leased, and so two writers of
  one key would hold one row.
* **`PolicyPipelineProofs`**, whole runs (`SuccessIsWhole`, `UnfinishedIsBacked`,
  `AckHasRun`). `SuccessIsWhole` rests on `OneWriter`'s invariant and its two assumptions,
  and adds `RunInv`: a run is told by its id as by its key and spec, and the moves of the
  run a worker writes are exactly those it has inserted so far. One writer per key means
  that no other worker touches them. `UnfinishedIsBacked` assumes crashes as the only
  faults, no `/cancel`, and `OneSpec`. Its `BackInv` says that the error path is never
  entered: `WriteConflict`, the one exception left, would need a rank another worker wrote.
  A pending run then has its job in the queue, under the worker or released by its crash.
  `AckHasRun` assumes only `"db_error" \notin Faults`, so it holds with overruns,
  cancellations and exceptions of the solver: between its first upsert and its ack a
  worker's key has a run, and no statement deletes one.
* **`PolicyPipelineProofs`**, the queue's use (`PipelineUses`). That worker and routes
  refine `JobQueue` needs what no single step says: the variables keep their types, no two
  rows share an id or a key, no row has an id still to be issued, and what a consumer
  remembers of its claim is a number of attempts (`UseInv`). Then each action of `HNext` is
  a step of `JobQueue` under the mapping of section 3 or leaves its variables alone, for
  every set of faults, routes and outcomes. Refinement composes: with `QueueImplements`, the
  program implements `WorkQueue`, and what `JobQueueProofs` proves of consumers holds of the
  workers (conservation, one row per key, distinct leases, an exhausted DLQ, bounded
  deliveries). This last substitution is made on paper: the prover does not carry the
  theorems of a module over to an instance of it.
* **`PolicySolverProofs`** (`SolverTypeCorrect`, `NoOvershoot`, `EdgesOnce`,
  `GreedyNearest`). Under proper bands, a station that has given is at or above U and one
  that has received at or below L, so no station does both; an edge that moved everything it
  could is exhausted, and one that moved less has used up the budget of bikes.
  `GreedyNearest` is about the plan as a whole: a round makes no edge admissible again,
  since donors only fall, receivers only rise, budgets shrink and the set of stations
  touched grows; so the shortest edge left is never shorter than one already used.
* **`PolicySolverProofs`**, the books (`MovesConserve`). The moves are a list, and what they
  say of a station is a sum over the indices that name it. A move appends one index, so the
  sum of its donor and that of its receiver grow by the bikes moved, no other sum changes,
  and the bikes after are always the snapshot less the one and plus the other.
* **`PolicySolverProofs`**, the budgets (`BudgetsHold`). `BudgetInv` ties what the loop
  counts down to the list: bikes left and bikes moved make the budget, moves left and moves
  made the bound, and the stations touched are the ends of the moves.
* **`PolicySolverProofs`**, the fallbacks (`PreviewKeepsStock`, `UnconstrainedKeepsBands`,
  `NoOpOnlyWithoutPairs`). None of the three is inductive: they speak of sums over the moves
  made, and a round decides by the counters `give` and `take` and by two indices. `PlanInv`
  adds the ledger: at every station what it started with is what it has shipped plus what it
  still gives, neither of them negative, and the same for what it takes. In the
  unconstrained fallback the lists moreover hold every station with an excess, or a need,
  and no other; no station is on both; and while nothing has been moved both indices are at
  the start, so that an end without a move means an empty list, which is what a no_op
  claims.
* **`GbfsLoaderProofs`** (`SnapshotsBacked`, `WatermarkNewest`, `LoaderTypes`,
  `LifecycleNewest`, `HistoryIsTiled`). For `SnapshotHasRaw` the invariant `RawInv` follows
  the raw row from its statement to the COMMIT: one that was skipped gave way to a row of
  the same object, or to a row of the same key, whose snapshot is then there. For the
  watermark, `WatermarkInv` says that a load at its COMMIT, and no other of its feed, holds
  the feed's watermark, and that what it holds is the newest of what is committed and what
  it brings; the lock makes the value read still current. `LoaderTypes` needs it: the newest
  snapshot `Begin` reads is a time because the watermark is one of them. For
  `LifecycleIsNewest`, `LifeInv` says the same of lifecycle rows: two loads never hold one
  station's row, the row a load has computed is still what it would compute now, and a load
  that commits station rows holds the lifecycle of their stations; so a lifecycle row is
  never behind a loaded observation (`LifecycleCovers`). That it is never ahead of all is
  `ToldInv`: what a load tells the lifecycle is in a station row, loaded or its own, because
  a row that gives way to one of its snapshot and station tells the same, a snapshot having
  one object. For `HistoryTiles`, `HistoryInv` says that while `inOrder` one information
  load is open at a time and newer than all, each station the history knows has one open
  row, and what the transaction closes and opens is exactly what it changes against the
  committed rows; so its COMMIT puts the new row where the old one ends.
* **`GbfsLoaderProofs`**, the refinement (`LoaderImplements`). `CatalogInv` adds: keys have
  one snapshot; uncommitted snapshots of two loaders differ in key; rows exist only with
  their snapshot, and all of them. So a COMMIT that brings a new snapshot is `Admit`, and
  every other step, a COMMIT after a conflict or of a repeated snapshot included, is a
  stutter.
* **`GbfsLoaderProofs`**, the locks (`LoadsGoOn`). `LockInv` says that a load holds rows
  only of statements it has behind it. So of the loads that run, take one furthest in the
  order raw manifest, snapshot, rows, stations_scd, lifecycle, watermark: what it asks for
  is held only by loads that are further, and there are none. It goes on.
* **`GbfsArchiveProofs`** (`KeptManifestsLoad`). The invariant `ArchiveInv` says of every
  owner, a manifest whose own cycle stored its object, that the object is there, whole, and
  written no earlier than the manifest says; of the cycle that is about to write an owner,
  that its object, if still there, is whole; and that **in every pruner's plan the owner
  stands before its object**. The last is what makes it inductive, since pruning goes file
  by file beside the poller. It holds of a new plan because an owner is never later than its
  object in the order of deletion (by time, then manifests before objects), because age
  selects by that time, and because what the size limit selects on top is a beginning of the
  list: what is older than a candidate leaves at least as many bytes when its turn comes, so
  it is a candidate too.
* **`MapShellProofs`** (`ShellTypeCorrect`, `PlaybackLocked`, `LockIsDrawers`,
  `PendingHasOwner`, `LatestOnly`, `DetailsMatch`). One invariant, `ShellInv`, carries all
  six. `LockPauses` needs what is remembered from before the tab was hidden: under the lock
  nothing. `DetailsOfStation` needs that a debounce or a fetch in the drawer is for its
  station. `PendingIsActive` and `ResultIsLatest` need each other and `ActiveIsLatest` (an
  active request is the latest, frozen at its key, and not dismissed), `RunsFresh` (runs to
  come have left no trace) and `ModesApart` (a live session shows nothing, and nothing is
  played while a run is pending).
* **`ServingProofs`** (`TokensBacked`, `FreshView`, `AcceptedSound`, `TileWhole`).
  `ServingInv` says of each request what it knows at its place. A mint's view is fresh but
  for the data sets it still has to read; watermarks only rise. Its key is `Graced`: it
  could sign at the second it was read, and neither a rotation, the end of a grace nor the
  clock shortens the grace it has from then (`GraceStays`). A validation holds a copy of a
  key that may have changed since: if the copy passes the clock now and the token is not
  revoked now, then the token was sound when the copy was made, since time and revocations
  go one way. For the cache, `FilesOK`: where there are metadata there is a whole tile,
  theirs, that nobody is writing; and one request at most stores the tile of a key, if it is
  not contended.

* **`ListsAndSums`** holds what these need of finite data. The induction theorems of the
  library take an operator, which no installed prover instantiates, so induction here is by
  a least counterexample: a set of natural numbers that is not empty has a least element,
  and a set of finite sets one of least size. From it: `FoldSet` of the community modules
  adds one element at a time in any order, so that a sum splits, agrees where its terms
  agree and grows with its set; and the list that `Sorting` makes of a finite set in a
  strict total order has every element once, each before those it precedes.

**What the model owes to the proofs.** `WorkerPlan` and `GbfsArchive` sort with `Sorting`
and not with the community modules, because theirs come down to an operator of TLC without a
definition. `GbfsArchiveAssumption` says that a body is known by its hash (objects are files
named by SHA-256, `archive.ts`) and that feeds have an order by name, so that no two files
tie in the order of deletion. The lock tests of `GbfsTables` have names of their own, so
that a load that waits can be spoken of without ENABLED.

Not provable with this prover: liveness (`JobsLeave`, `JobsConclude`, `RunsEnd`,
`CyclesEnd`) and ENABLED, which stay with TLC.

## 7. Where documents and code disagree

Two statements of the documents are checked in a run of their own in which TLC finds the
violation, with an entry under `findings`.

1. `PLAN.md:413` idempotent re-runs: loading an old information snapshot again closes a
   newer open row before it began and opens none (`loader.ts:488`; run `Loader_rerun`).
2. `POLICY_WORK_PLAN.md:138`, `:348` late and aborted responses are ignored: the catch block
   of an aborted run takes the session of the run that followed it (`MapShell.tsx:1172`; run
   `Web_abort`).

Read in the code while modelling, without a run of their own. Queue, worker and routes:

* `PLAN.md:448` wants max attempts, then the DLQ: only `fail()` compares (`queue.ts:65`), so
  a job that crashes its worker every time is delivered for ever. `DeliveriesBounded` says
  what the code does ensure: each delivery beyond the bound costs a crash or a throw, or is
  still held.
* `POLICY_WORK_PLAN.md:299`, `:314` temporary failures classified retryable: a run still
  being written is answered `policy_run_failed`, not retryable (`http/policy.ts:558`).
* `POLICY_WORK_PLAN.md:295` no divergent outputs of one key: a second execution of the key
  rewrites the moves under a reader, whose `/moves` answer is then a part of them
  (`http/policy.ts:807`).
* `worker.ts:285` bounded runtime: the forced preview may loop for ever (`worker.ts:481`).
* `fail()` decides "atomically" (`queue.ts:140`) in two statements.
* On failure `PLAN.md:480` wants backoff or the DLQ; the worker acks (`worker.ts:798`).
* `/cancel`, offered to "stop in-flight expensive runs"
  (`docs/optimize_rollout_runbook.md:105`), deletes the row of a claimed job without a word
  to its worker.
* An ack that throws after the success upsert lets the catch block write an error run, newer
  than the success, that answers every later request.
* `forbid_donating_below_L` (`PLAN.md:294`) is never read (`greedy_v1.ts:85`), nor is
  `docks`, which `PLAN.md:251` wants respected.

Ingest:

* `loader.ts:776` compares a string with what the driver returns; for a Date that is never
  true, and a snapshot that goes back is not flagged.
* "Failure is isolated" (`PLAN.md:416`): a manifest of a failed fetch throws and ends a
  whole `--load` (`cli.ts:206`).
* Two overlapping loads of station information can leave a station two open rows, since each
  opens against the rows it read; `HistoryTiles` therefore speaks of `inOrder`.
* `first_seen_at` of a lifecycle row is not the time a station was first seen: neither
  upsert lowers it (`loader.ts:550`, `:689`), so when an older snapshot is loaded after a
  newer one it stays at the newer. No document says otherwise, hence no run;
  `LifecycleIsNewest` asks only that it be some observation.
* A raw file cut short by a crash counts as archived ever after (`archive.ts:33`), and loads
  as an empty snapshot.
* An object that is archived again keeps its old mtime, so pruning can delete it under a
  newer manifest (`retention.ts:113`, `:185`), as it can beside a collector that is about to
  name it. `PLAN.md:439` and `:1045` want the raw archive kept for ever, and the database
  rebuildable from it.
* `README.md:369` and `:370` describe pruning by mtime, and by sequential deletes in the
  database; the code goes by logical times, and its deletes are one statement.
* `pruneDbHotWindow` (`retention.ts`) deletes snapshots that rows still reference by foreign
  keys without CASCADE (`0001_core_schema.sql:163`, `0010_serving_aggregates.sql:15`).
* The trips import (`trips/baseline.ts:159`) has no transaction: its watermark precedes the
  rows, and a corrected file leaves the old rows and aggregates.

Serving:

* A composite tile is rendered from the tables of the moment, whatever view its token names,
  and sent as immutable (`config/serving_views.md:61`); with a replay cache the first render
  stays.
* The replay cache is off by default: it wants a token life of 86400 s
  (`tile_replay_min_ttl_s`), and tokens live 1200 s.
* `trips_baseline_id` never enters a view, so the pressure binding is always the live proxy
  (`config/serving_views.md:8`).
* Metadata cut short by a crash make every later request of that tile throw; concurrent
  misses rewrite a stored tile in place (`replay_cache.ts:64`), which is why
  `AnsweredTileIsWhole` excepts `contended`.
* Tokens are minted by `/api/time` only; the documents name `/api/timeline` as well
  (`PLAN.md:583`, `config/serving_views.md:15`). A mint does not look at its key again:
  between the read and the record (`sv/service.ts:77`) it may be retired, or even dropped
  when the mint takes as long as the grace, so that a fresh token may be of a key that no
  longer signs (`config/serving_views.md:28`). Validation refuses it then.
* A successful run without moves answers its tile with 404; the 404 of a composite tile is
  unreachable.

Web client:

* Leaving the preview while a run is computing sets the session back to frozen when the
  abort settles; leaving it under the inspect lock does not go live.
* Without a server token the local result is dropped and the run stays pending; closing the
  drawer leaves the session frozen, so the second branch of Escape is dead.
* "ready" never becomes "stale" by itself (`POLICY_WORK_PLAN.md:59`); the inspect tile key
  can change while a drawer is open (`MapShell.tsx:1728`).
* A late answer overwrites a frozen map (`MapView.tsx:560`). The drawer of a new station
  shows the failure of the previous one's aborted load (`StationDrawer.tsx:120`, `:215`).

## 8. Limits

Model-checked only: the liveness properties, and the second half of `NoLockCycle`, that a
running load has a step exactly when it does not wait, which is about ENABLED (the first
half, `OneGoesOn`, is proved). Every other property of a passing run is stated by a theorem.
Theorems without a run of their own property are the type invariants of the solver and of
the web client, `PipelineTypeCorrect`, `Dedupe` and `LoadsGoOn`.

Left out of the modelled parts: payloads, logging and metrics; validation before a handler's
first read, where it is not in `ReadRoutes`; the cap of a `/moves` answer (`max_moves`);
solver summaries and hashes; floating-point rounding of `alpha * capacity`;
`replaceCounterfactualStatus` and `refreshEvalDaily`, which nothing calls; database
isolation below a statement (claims lock rows, inserts conflict on unique indexes). When a
job's payload does not parse, recording its failure throws too and the job is acked without
a run; the API builds every payload, so no such job is modelled.

Of the loader: one system and one `loader_schema_version`; columns no later statement reads.
A statement locks its rows at once: a deadlock inside two multi-row statements is the
server's to break, and is a `Fault`. Of the archive: a walk is one step, days stand for
times, a manifest's name is unique by its cycle, and the pruning of the database's hot rows
is left out. Of serving: what a tile contains, beyond the version of the tables it is of;
audit rows; which values are on the allowlist; a second read of a required watermark that
finds no row. Of the web client: the data listed in section 3, and what is drawn.

Not modelled: the components marked `not_modelled` in `PROJECT.json`, each with its reason:
the trips import (one process, by hand, without a step that repairs anything), admin
endpoints (reads, and one flag of a DLQ row), configuration parsing, rendering, SQL
aggregates.

## 9. The plan

Done: queue, worker, store, routes, solver, fallbacks; the real worker and routes as a use
of the queue; the loader with its abstract catalog; the archive with retention; tokens,
views, read routes and the replay cache; the web client's playback, drawer and optimisation
session. What remains, in order of importance:

1. `GbfsArchive` composed with `GbfsLoader`'s `Collect`, so that a load meets files that are
   pruned under it.
2. `MapView`: the station refresh beside a frozen map; `useHudControls` with a timeline that
   moves.
3. The resolution of DLQ rows (`http/admin.ts`) on `JobTable`.
4. The trips import statement by statement, with a reader between them.

A step brings a module, its run and its theorems. Runs stay few: a new component takes the
place of a run whose question another one has come to answer.
