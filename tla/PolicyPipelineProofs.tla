------------------------- MODULE PolicyPipelineProofs -------------------------
(***************************************************************************)
(* The policy pipeline keeps its types, and a run key has one writer at a  *)
(* time, for every number of workers, clients, keys, crashes and database  *)
(* errors, as long as leases outlast their workers and nobody cancels.     *)
(***************************************************************************)
EXTENDS PipelineQueue, TLAPS

\* Rows are told apart by their id and by their key.
RowsDistinct == \A r, s \in job_queue : r.key = s.key \/ r.job_id = s.job_id => r = s

IdsIssued == \A r \in job_queue : r.job_id \in 1..last_job_id

Busy(w) == worker[w].pc # "idle"

\* A worker at work has its job's row leased ...
Held == \A w \in Workers : Busy(w) =>
          \E r \in job_queue : /\ r.job_id = worker[w].job_id
                               /\ r.key = worker[w].key
                               /\ r.visible_at = "future"

\* ... and shares it with no other.
HeldAlone == \A v, w \in Workers :
               Busy(v) /\ Busy(w) /\ worker[v].job_id = worker[w].job_id => v = w

QueueTyped == job_queue \subseteq JobRow /\ last_job_id \in Nat
WorkersTyped == worker \in [Workers -> WorkerState]

LeaseInv == /\ QueueTyped /\ RowsDistinct /\ IdsIssued
            /\ WorkersTyped /\ Held /\ HeldAlone

------------------------------------------------------------------------------

\* The invariant holds of the empty tables.
LEMMA InitLease == Init => LeaseInv
BY DEF Init, JobInit, WorkerInit, Resting, Fresh, LeaseInv, QueueTyped, RowsDistinct,
       IdsIssued, WorkersTyped, WorkerState, Held, HeldAlone, Busy

\* A step of one worker within its job leaves the queue, its job and the
\* others alone.
LEMMA WithinJob ==
  ASSUME LeaseInv, WorkersTyped', NEW w \in Workers, Busy(w), UNCHANGED jobVars,
         \A v \in Workers \ {w} : worker'[v] = worker[v],
         \/ worker'[w].pc = "idle"
         \/ /\ worker'[w].job_id = worker[w].job_id
            /\ worker'[w].key = worker[w].key
  PROVE  LeaseInv'
BY DEF LeaseInv, QueueTyped, RowsDistinct, IdsIssued, WorkersTyped, Held,
       HeldAlone, Busy, jobVars

\* Resting is a state of a worker.
LEMMA RestingType == Resting \in WorkerState
BY DEF Resting, Fresh, WorkerState

\* A lease keeps a row's id and key and puts it out of sight.
LEMMA LeasedTyped ==
  ASSUME NEW r \in JobRow
  PROVE  /\ Leased(r) \in JobRow /\ Leased(r).visible_at = "future"
         /\ Leased(r).job_id = r.job_id /\ Leased(r).key = r.key
<1> DEFINE s == [r EXCEPT !.attempts = r.attempts + 1]
<1>1. s \in JobRow /\ s.job_id = r.job_id /\ s.key = r.key
  BY DEF JobRow
<1>2. Leased(r) = [s EXCEPT !.visible_at = "future"]
  BY DEF JobRow, Leased
<1> HIDE DEF s
<1> QED
  BY <1>1, <1>2 DEF JobRow

\* A worker that is done removes its own row, and no other worker's.
LEMMA RowRemoved ==
  ASSUME LeaseInv, NEW w \in Workers, Busy(w), Rest(w),
         job_queue' = job_queue \ RowsOf(worker[w].job_id),
         last_job_id' = last_job_id
  PROVE  LeaseInv'
<1>1. QueueTyped' /\ RowsDistinct' /\ IdsIssued'
  BY DEF LeaseInv, QueueTyped, RowsDistinct, IdsIssued
<1>2. WorkersTyped' /\ HeldAlone'
  BY RestingType DEF LeaseInv, WorkersTyped, HeldAlone, Rest, Busy, Resting, Fresh
<1>3. Held'
  BY DEF LeaseInv, WorkersTyped, Held, HeldAlone, Rest, Busy, Resting, Fresh, RowsOf
<1> QED
  BY <1>1, <1>2, <1>3 DEF LeaseInv

\* A worker that gives its job back leaves the row, for a while invisible.
LEMMA RowPostponed ==
  ASSUME LeaseInv, NEW w \in Workers, Busy(w), Rest(w),
         PostponeJob(worker[w].job_id)
  PROVE  LeaseInv'
<1>1. \A r \in job_queue : r \in JobRow
  BY DEF LeaseInv, QueueTyped
<1>2. \A r \in JobRow : /\ Postponed(r) \in JobRow
                        /\ Postponed(r).job_id = r.job_id /\ Postponed(r).key = r.key
                        /\ Postponed(r).visible_at = "future"
  BY DEF JobRow, Postponed
<1>3. /\ job_queue' = (job_queue \ RowsOf(worker[w].job_id))
                      \cup {Postponed(r) : r \in RowsOf(worker[w].job_id)}
      /\ last_job_id' = last_job_id
  BY DEF PostponeJob
<1>4. QueueTyped' /\ IdsIssued'
  BY <1>1, <1>2, <1>3 DEF LeaseInv, QueueTyped, IdsIssued, RowsOf
<1>5. RowsDistinct'
  BY <1>1, <1>2, <1>3 DEF LeaseInv, RowsDistinct, RowsOf
<1>6. WorkersTyped' /\ HeldAlone'
  BY RestingType DEF LeaseInv, WorkersTyped, HeldAlone, Rest, Busy, Resting, Fresh
<1>7. Held'
  BY <1>3 DEF LeaseInv, WorkersTyped, Held, HeldAlone, Rest, Busy, Resting, Fresh, RowsOf
<1> QED
  BY <1>4, <1>5, <1>6, <1>7 DEF LeaseInv

\* A claim takes a visible row, which no worker at work holds.
LEMMA ClaimLease ==
  ASSUME LeaseInv, NEW w \in Workers, ClaimJob(w) PROVE LeaseInv'
<1>1. PICK r \in job_queue :
        /\ r.visible_at = "past"
        /\ job_queue' = (job_queue \ {r}) \cup {Leased(r)}
        /\ worker' = [worker EXCEPT ![w] = Fresh("claimed", r.job_id, r.key)]
        /\ last_job_id' = last_job_id
  BY DEF ClaimJob, ClaimRow
<1> DEFINE t == Fresh("claimed", r.job_id, r.key)
<1>2. r \in JobRow
  BY DEF LeaseInv, QueueTyped
<1>3. /\ Leased(r) \in JobRow /\ Leased(r).visible_at = "future"
      /\ Leased(r).job_id = r.job_id /\ Leased(r).key = r.key
  BY <1>2, LeasedTyped
<1>4. t \in WorkerState /\ t.pc = "claimed" /\ t.job_id = r.job_id /\ t.key = r.key
  <2>1. r.job_id \in Nat /\ r.key \in Keys
    BY <1>2 DEF JobRow
  <2> QED
    BY <2>1 DEF Fresh, WorkerState
<1> HIDE DEF t
<1>5. worker' = [worker EXCEPT ![w] = t]
  BY <1>1 DEF t
<1>6. QueueTyped' /\ IdsIssued' /\ RowsDistinct'
  BY <1>1, <1>3 DEF LeaseInv, QueueTyped, IdsIssued, RowsDistinct
<1>7. \A v \in Workers : Busy(v) => worker[v].job_id # r.job_id
  BY <1>1 DEF LeaseInv, Held, RowsDistinct
<1>8. WorkersTyped' /\ HeldAlone'
  BY <1>4, <1>5, <1>7 DEF LeaseInv, WorkersTyped, HeldAlone, Busy
<1>9. Held'
  BY <1>1, <1>3, <1>4, <1>5, <1>7 DEF LeaseInv, WorkersTyped, Held, Busy
<1> QED
  BY <1>6, <1>8, <1>9 DEF LeaseInv

\* A lease ends only when nobody holds the row.
LEMMA LeaseEndsLease ==
  ASSUME LeaseInv, LeaseEnds, "overrun" \notin Faults PROVE LeaseInv'
<1>1. PICK r \in job_queue :
        /\ job_queue' = (job_queue \ {r}) \cup {[r EXCEPT !.visible_at = "past"]}
        /\ Holders(r.job_id) = {}
        /\ worker' = worker /\ last_job_id' = last_job_id
  BY DEF LeaseEnds, Reappear, workerVars
<1> DEFINE t == [r EXCEPT !.visible_at = "past"]
<1>2. t \in JobRow /\ t.job_id = r.job_id /\ t.key = r.key
  BY DEF JobRow, LeaseInv, QueueTyped
<1> HIDE DEF t
<1>3. job_queue' = (job_queue \ {r}) \cup {t}
  BY <1>1 DEF t
<1>4. QueueTyped' /\ IdsIssued' /\ RowsDistinct'
  BY <1>1, <1>2, <1>3 DEF LeaseInv, QueueTyped, IdsIssued, RowsDistinct
<1>5. WorkersTyped' /\ HeldAlone' /\ Held'
  BY <1>1, <1>3 DEF LeaseInv, WorkersTyped, HeldAlone, Held, Busy, Holders
<1> QED
  BY <1>4, <1>5 DEF LeaseInv

\* An insert adds a visible row under a new id and a free key.
LEMMA InsertLease ==
  ASSUME LeaseInv, NEW k \in Keys, InsertJob(k), UNCHANGED worker PROVE LeaseInv'
<1>1. CASE UNCHANGED <<job_queue, last_job_id>>
  BY <1>1 DEF LeaseInv, QueueTyped, RowsDistinct, IdsIssued, WorkersTyped, Held,
              HeldAlone, Busy
<1>2. CASE /\ Pending(k) = {} /\ last_job_id' = last_job_id + 1
           /\ job_queue' = job_queue \cup {NewRow(k)}
  <2>1. /\ NewRow(k) \in JobRow /\ NewRow(k).key = k
        /\ NewRow(k).job_id = last_job_id + 1
    BY DEF NewRow, JobRow, LeaseInv, QueueTyped
  <2>2. QueueTyped' /\ IdsIssued' /\ RowsDistinct'
    BY <1>2, <2>1 DEF LeaseInv, QueueTyped, IdsIssued, RowsDistinct, Pending
  <2>3. WorkersTyped' /\ HeldAlone' /\ Held'
    BY <1>2 DEF LeaseInv, WorkersTyped, HeldAlone, Held, Busy
  <2> QED
    BY <2>2, <2>3 DEF LeaseInv
<1> QED
  BY <1>1, <1>2 DEF InsertJob

------------------------------------------------------------------------------

\* The statements on the job tables keep their rows typed.
LEMMA JobStatements ==
  ASSUME JobTypeOK
  PROVE  /\ \A k \in Keys : InsertJob(k) => JobTypeOK'
         /\ \A k : DeleteKey(k) => JobTypeOK'
         /\ \A r : ClaimRow(r) \/ Reappear(r) => JobTypeOK'
         /\ \A id : DeleteJob(id) \/ BuryJob(id) \/ PostponeJob(id) => JobTypeOK'
<1>1. ASSUME NEW k \in Keys, InsertJob(k) PROVE JobTypeOK'
  BY <1>1 DEF JobTypeOK, InsertJob, NewRow, JobRow
<1>2. ASSUME NEW k, DeleteKey(k) PROVE JobTypeOK'
  BY <1>2 DEF JobTypeOK, DeleteKey
<1>3. ASSUME NEW r, ClaimRow(r) PROVE JobTypeOK'
  <2>1. r \in JobRow
    BY <1>3 DEF ClaimRow, JobTypeOK
  <2>2. Leased(r) \in JobRow
    BY <2>1, LeasedTyped
  <2> QED
    BY <1>3, <2>2 DEF ClaimRow, JobTypeOK
<1>4. ASSUME NEW r, Reappear(r) PROVE JobTypeOK'
  <2>1. [r EXCEPT !.visible_at = "past"] \in JobRow
    BY <1>4 DEF Reappear, JobTypeOK, JobRow
  <2> QED
    BY <1>4, <2>1 DEF Reappear, JobTypeOK
<1>5. ASSUME NEW id, DeleteJob(id) PROVE JobTypeOK'
  BY <1>5 DEF JobTypeOK, DeleteJob
<1>6. ASSUME NEW id, BuryJob(id) PROVE JobTypeOK'
  <2>1. \A r \in RowsOf(id) : Buried(r) \in DlqRow
    BY DEF RowsOf, JobTypeOK, JobRow, DlqRow, Buried
  <2> QED
    BY <1>6, <2>1 DEF JobTypeOK, BuryJob
<1>7. ASSUME NEW id, PostponeJob(id) PROVE JobTypeOK'
  <2>1. \A r \in RowsOf(id) : Postponed(r) \in JobRow
    BY DEF RowsOf, JobTypeOK, JobRow, Postponed
  <2> QED
    BY <1>7, <2>1 DEF JobTypeOK, PostponeJob
<1> QED
  BY <1>1, <1>2, <1>3, <1>4, <1>5, <1>6, <1>7

\* An upsert returns an id, and keeps the table's CHECK when its arguments
\* meet it.
LEMMA UpsertTyped ==
  ASSUME StoreTypeOK, NEW k \in Keys, NEW spec \in Specs \cup {ErrorSpec}
  PROVE  /\ RunIdFor(k, spec) \in Nat
         /\ \A status \in {"success", "fail"}, reason \in Reasons,
              no_op \in {"yes", "no"} :
              /\ status = "fail" <=> reason # "none"
              /\ UpsertRun(k, spec, status, reason, no_op)
              => StoreTypeOK'
<1>1. RunIdFor(k, spec) \in Nat
  BY DEF RunIdFor, Conflicting, StoreTypeOK, RunRow
<1>2. ASSUME NEW status \in {"success", "fail"}, NEW reason \in Reasons,
             NEW no_op \in {"yes", "no"}, status = "fail" <=> reason # "none",
             UpsertRun(k, spec, status, reason, no_op)
      PROVE  StoreTypeOK'
  <2> DEFINE r == [run_id |-> RunIdFor(k, spec), key |-> k, spec |-> spec,
                   status |-> status, error_reason |-> reason, no_op |-> no_op]
  <2>1. /\ r \in RunRow
        /\ r.status = "fail" <=> r.error_reason # "none"
    BY <1>1, <1>2 DEF RunRow
  <2>2. /\ policy_runs' = (policy_runs \ Conflicting(k, spec)) \cup {r}
        /\ last_run_id' \in {last_run_id, last_run_id + 1}
        /\ policy_moves' = policy_moves
    BY <1>2 DEF UpsertRun
  <2> HIDE DEF r
  <2> QED
    BY <2>1, <2>2 DEF StoreTypeOK
<1> QED
  BY <1>1, <1>2

\* The statements on policy_moves keep its rows typed.
LEMMA MoveStatements ==
  ASSUME StoreTypeOK, NEW id \in Nat
  PROVE  /\ DeleteMoves(id) => StoreTypeOK'
         /\ \A rank \in Nat, m \in Moves : InsertMove(id, rank, m) => StoreTypeOK'
BY DEF StoreTypeOK, DeleteMoves, InsertMove, MoveRow

------------------------------------------------------------------------------

\* A worker at work knows its key, and counts the moves it inserts from 1.
InHand == \A w \in Workers :
            /\ Busy(w) => worker[w].key \in Keys
            /\ worker[w].pc = "inserting" => worker[w].next # 0

Typed == JobTypeOK /\ StoreTypeOK /\ WorkerTypeOK /\ InHand

Pcs == {"idle", "claimed", "deciding", "begun", "inserting", "marked", "error",
        "recorded"}

\* V is W but for what worker w has read and written within its job.
OnlyAt(V, W, w) ==
  /\ V \in [Workers -> WorkerState]
  /\ V[w].key = W[w].key /\ V[w].job_id = W[w].job_id
  /\ \A v \in Workers \ {w} : V[v] = W[v]

\* Each field a step assigns changes its worker alone.
LEMMA SetField ==
  ASSUME NEW W \in [Workers -> WorkerState], NEW w \in Workers
  PROVE  /\ \A x \in Pcs : LET V == [W EXCEPT ![w].pc = x] IN
              OnlyAt(V, W, w) /\ V[w].pc = x /\ V[w].next = W[w].next
         /\ \A x \in Nat : LET V == [W EXCEPT ![w].next = x] IN
              OnlyAt(V, W, w) /\ V[w].next = x /\ V[w].pc = W[w].pc
         /\ \A x \in Nat : LET V == [W EXCEPT ![w].read = x] IN
              OnlyAt(V, W, w) /\ V[w].pc = W[w].pc
         /\ \A x \in Nat : LET V == [W EXCEPT ![w].run_id = x] IN
              OnlyAt(V, W, w) /\ V[w].pc = W[w].pc
         /\ \A x \in Specs \cup {ErrorSpec} : LET V == [W EXCEPT ![w].spec = x] IN
              OnlyAt(V, W, w) /\ V[w].pc = W[w].pc
         /\ \A x \in Seq(Moves) : LET V == [W EXCEPT ![w].moves = x] IN
              OnlyAt(V, W, w) /\ V[w].pc = W[w].pc
<1>1. \A x \in Pcs : LET V == [W EXCEPT ![w].pc = x] IN
        OnlyAt(V, W, w) /\ V[w].pc = x /\ V[w].next = W[w].next
  BY DEF OnlyAt, WorkerState, Pcs
<1>2. \A x \in Nat : LET V == [W EXCEPT ![w].next = x] IN
        OnlyAt(V, W, w) /\ V[w].next = x /\ V[w].pc = W[w].pc
  BY DEF OnlyAt, WorkerState
<1>3. \A x \in Nat : LET V == [W EXCEPT ![w].read = x] IN
        OnlyAt(V, W, w) /\ V[w].pc = W[w].pc
  BY DEF OnlyAt, WorkerState
<1>4. \A x \in Nat : LET V == [W EXCEPT ![w].run_id = x] IN
        OnlyAt(V, W, w) /\ V[w].pc = W[w].pc
  BY DEF OnlyAt, WorkerState
<1>5. \A x \in Specs \cup {ErrorSpec} : LET V == [W EXCEPT ![w].spec = x] IN
        OnlyAt(V, W, w) /\ V[w].pc = W[w].pc
  BY DEF OnlyAt, WorkerState
<1>6. \A x \in Seq(Moves) : LET V == [W EXCEPT ![w].moves = x] IN
        OnlyAt(V, W, w) /\ V[w].pc = W[w].pc
  BY DEF OnlyAt, WorkerState
<1> QED
  BY <1>1, <1>2, <1>3, <1>4, <1>5, <1>6

\* What a step within a job does to the worker that takes it.
Advances(w) == /\ Busy(w) /\ OnlyAt(worker', worker, w)
               /\ worker'[w].pc = "inserting" => worker'[w].next # 0

\* Every step within a job but the last advances its worker or, when there
\* is nothing left to do for it, sets it to rest.
LEMMA StepAdvances ==
  ASSUME Typed, NEW w \in Workers,
         \/ FailSelect(w) \/ BeginRun(w) \/ ClearMoves(w) \/ WriteMove(w)
         \/ WriteConflict(w) \/ MarkSuccess(w) \/ SolveThrows(w)
         \/ RecordError(w) \/ DbError(w)
  PROVE  Advances(w) \/ (Busy(w) /\ Rest(w))
<1>1. worker \in [Workers -> WorkerState] /\ worker[w] \in WorkerState
  BY DEF Typed, WorkerTypeOK
<1>2. \A p \in Pcs \ {"inserting"} : Busy(w) /\ Goto(w, p) => Advances(w)
  <2> SUFFICES ASSUME NEW p \in Pcs \ {"inserting"}, Busy(w), Goto(w, p)
               PROVE  Advances(w)
    OBVIOUS
  <2>1. worker' = [worker EXCEPT ![w].pc = p]
    BY DEF Goto
  <2>2. OnlyAt(worker', worker, w) /\ worker'[w].pc = p
    BY <1>1, <2>1, SetField
  <2> QED
    BY <2>2 DEF Advances
<1>3. CASE \/ WriteConflict(w) \/ MarkSuccess(w) \/ SolveThrows(w)
           \/ RecordError(w) \/ DbError(w)
  BY <1>2, <1>3 DEF WriteConflict, MarkSuccess, SolveThrows, RecordError,
                    DbError, Busy, Pcs
<1>4. CASE FailSelect(w)
  <2>1. CASE Rest(w)
    BY <1>4, <2>1 DEF FailSelect, Busy
  <2>2. ASSUME NEW r \in RowsOf(worker[w].job_id),
               worker' = [worker EXCEPT ![w].pc = "deciding", ![w].read = r.attempts]
        PROVE  Advances(w)
    <3> DEFINE W1 == [worker EXCEPT ![w].pc = "deciding"]
    <3>1. OnlyAt(W1, worker, w) /\ W1[w].pc = "deciding"
      BY <1>1, SetField DEF Pcs
    <3>2. worker' = [W1 EXCEPT ![w].read = r.attempts]
      BY <2>2
    <3>3. r.attempts \in Nat
      BY DEF RowsOf, Typed, JobTypeOK, JobRow
    <3> HIDE DEF W1
    <3>4. OnlyAt(worker', W1, w) /\ worker'[w].pc = "deciding"
      BY <3>1, <3>2, <3>3, SetField DEF OnlyAt
    <3> QED
      BY <1>4, <3>1, <3>4 DEF OnlyAt, Advances, FailSelect, Busy
  <2> QED
    BY <1>4, <2>1, <2>2 DEF FailSelect
<1>5. CASE BeginRun(w)
  <2>1. PICK o \in Outcomes :
          worker' = [worker EXCEPT ![w].pc = "begun",
                                   ![w].spec = o.spec, ![w].moves = o.moves,
                                   ![w].run_id = RunIdFor(worker[w].key, o.spec)]
    BY <1>5 DEF BeginRun
  <2>2. o.spec \in Specs /\ o.moves \in Seq(Moves)
    BY PolicyWorkerAssumption
  <2>3. RunIdFor(worker[w].key, o.spec) \in Nat
    BY <1>5, <2>2, UpsertTyped DEF BeginRun, Typed, InHand, Busy
  <2> DEFINE W1 == [worker EXCEPT ![w].pc = "begun"]
             W2 == [W1 EXCEPT ![w].spec = o.spec]
             W3 == [W2 EXCEPT ![w].moves = o.moves]
             W4 == [W3 EXCEPT ![w].run_id = RunIdFor(worker[w].key, o.spec)]
  <2>4. worker' = W4
    BY <2>1
  <2>5. OnlyAt(W1, worker, w) /\ W1[w].pc = "begun"
    BY <1>1, SetField DEF Pcs
  <2> HIDE DEF W1
  <2>6. OnlyAt(W2, W1, w) /\ W2[w].pc = "begun"
    BY <2>2, <2>5, SetField DEF OnlyAt
  <2> HIDE DEF W2
  <2>7. OnlyAt(W3, W2, w) /\ W3[w].pc = "begun"
    BY <2>2, <2>6, SetField DEF OnlyAt
  <2> HIDE DEF W3
  <2>8. OnlyAt(W4, W3, w) /\ W4[w].pc = "begun"
    BY <2>3, <2>7, SetField DEF OnlyAt
  <2> HIDE DEF W4
  <2>9. OnlyAt(W4, worker, w)
    BY <2>5, <2>6, <2>7, <2>8 DEF OnlyAt
  <2> QED
    BY <1>5, <2>4, <2>8, <2>9 DEF Advances, BeginRun, Busy
<1>6. CASE ClearMoves(w)
  <2> DEFINE W1 == [worker EXCEPT ![w].pc = "inserting"]
  <2>1. OnlyAt(W1, worker, w)
    BY <1>1, SetField DEF Pcs
  <2>2. worker' = [W1 EXCEPT ![w].next = 1]
    BY <1>6 DEF ClearMoves
  <2> HIDE DEF W1
  <2>3. OnlyAt(worker', W1, w) /\ worker'[w].next = 1
    <3>1. W1 \in [Workers -> WorkerState] /\ 1 \in Nat
      BY <2>1 DEF OnlyAt
    <3>2. LET V == [W1 EXCEPT ![w].next = 1] IN
            OnlyAt(V, W1, w) /\ V[w].next = 1 /\ V[w].pc = W1[w].pc
      BY <3>1, SetField
    <3> QED
      BY <2>2, <3>2
  <2> QED
    BY <1>6, <2>1, <2>3 DEF OnlyAt, Advances, ClearMoves, Busy
<1>7. CASE WriteMove(w)
  <2>1. worker[w].next + 1 \in Nat /\ worker[w].next + 1 # 0
    BY <1>1 DEF WorkerState
  <2>2. worker' = [worker EXCEPT ![w].next = worker[w].next + 1]
    BY <1>7 DEF WriteMove
  <2>3. OnlyAt(worker', worker, w) /\ worker'[w].next = worker[w].next + 1
    BY <1>1, <2>1, <2>2, SetField
  <2> QED
    BY <1>7, <2>1, <2>3 DEF Advances, WriteMove, Busy
<1> QED
  BY <1>3, <1>4, <1>5, <1>6, <1>7

\* What the workers hold stays typed, whether one advances, rests or claims.
HandsTyped == worker \in [Workers -> WorkerState] /\ InHand

LEMMA HandsStep ==
  ASSUME Typed, NEW w \in Workers, Advances(w) \/ Rest(w) \/ ClaimJob(w)
  PROVE  HandsTyped'
<1>1. worker \in [Workers -> WorkerState] /\ InHand
  BY DEF Typed, WorkerTypeOK
<1>2. CASE Advances(w)
  BY <1>1, <1>2 DEF HandsTyped, Advances, OnlyAt, InHand, Busy
<1>3. CASE Rest(w)
  BY <1>1, <1>3, RestingType DEF HandsTyped, Rest, InHand, Busy, Resting, Fresh
<1>4. CASE ClaimJob(w)
  <2>1. PICK r \in job_queue :
          worker' = [worker EXCEPT ![w] = Fresh("claimed", r.job_id, r.key)]
    BY <1>4 DEF ClaimJob
  <2>2. r.job_id \in Nat /\ r.key \in Keys
    BY DEF Typed, JobTypeOK, JobRow
  <2> DEFINE t == Fresh("claimed", r.job_id, r.key)
  <2>3. t \in WorkerState /\ t.pc = "claimed" /\ t.key = r.key
    BY <2>2 DEF Fresh, WorkerState
  <2> HIDE DEF t
  <2>4. worker' = [worker EXCEPT ![w] = t]
    BY <2>1 DEF t
  <2> QED
    BY <1>1, <2>2, <2>3, <2>4 DEF HandsTyped, InHand, Busy
<1> QED
  BY <1>2, <1>3, <1>4

\* The statements of a worker's step keep the tables typed.
LEMMA TablesStep ==
  ASSUME Typed, NEW w \in Workers, ClaimJob(w) \/ WorkerStep(w) \/ DbError(w) \/ Crash(w)
  PROVE  JobTypeOK' /\ StoreTypeOK' /\ faults' \in Nat /\ concluded' \subseteq Keys
<1> USE DEF Typed, WorkerTypeOK
<1>1. worker[w] \in WorkerState
  OBVIOUS
<1>2. CASE ClaimJob(w)
  <2>1. JobTypeOK'
    BY <1>2, JobStatements DEF ClaimJob
  <2> QED
    BY <1>2, <2>1 DEF ClaimJob, StoreTypeOK, storeVars
<1>3. CASE FailDecide(w)
  <2>1. JobTypeOK'
    BY <1>3, JobStatements DEF FailDecide
  <2> QED
    BY <1>3, <2>1 DEF FailDecide, StoreTypeOK, storeVars
<1>4. CASE AckJob(w) \/ AckFailed(w)
  <2>1. JobTypeOK'
    BY <1>4, JobStatements DEF AckJob, AckFailed
  <2>2. worker[w].key \in Keys
    BY <1>4 DEF AckJob, AckFailed, InHand, Busy
  <2> QED
    BY <1>4, <2>1, <2>2 DEF AckJob, AckFailed, StoreTypeOK, storeVars
<1>5. CASE FailSelect(w) \/ WriteConflict(w) \/ SolveThrows(w) \/ DbError(w) \/ Crash(w)
  BY <1>5 DEF FailSelect, WriteConflict, SolveThrows, DbError, Crash,
              jobVars, storeVars, JobTypeOK, StoreTypeOK
<1>6. ASSUME UNCHANGED <<jobVars, faults, concluded>>, StoreTypeOK'
      PROVE  JobTypeOK' /\ StoreTypeOK' /\ faults' \in Nat /\ concluded' \subseteq Keys
  BY <1>6 DEF jobVars, JobTypeOK
<1>7. CASE BeginRun(w)
  <2>1. PICK o \in Outcomes :
          UpsertRun(worker[w].key, o.spec, "fail", "persisting_moves", "no")
    BY <1>7 DEF BeginRun
  <2>2. o.spec \in Specs /\ worker[w].key \in Keys
    BY <1>7, PolicyWorkerAssumption DEF BeginRun, InHand, Busy
  <2>3. StoreTypeOK'
    BY <2>1, <2>2, UpsertTyped DEF Reasons
  <2> QED
    BY <1>6, <1>7, <2>3 DEF BeginRun
<1>8. CASE ClearMoves(w)
  <2>1. StoreTypeOK'
    BY <1>1, <1>8, MoveStatements DEF ClearMoves, WorkerState
  <2> QED
    BY <1>6, <1>8, <2>1 DEF ClearMoves
<1>9. CASE WriteMove(w)
  <2>1. worker[w].next \in 1..Len(worker[w].moves) /\ worker[w].moves \in Seq(Moves)
    BY <1>1, <1>9 DEF WriteMove, InHand, WorkerState
  <2>2. worker[w].moves[worker[w].next] \in Moves /\ worker[w].next \in Nat
    BY <2>1
  <2>3. StoreTypeOK'
    BY <1>1, <1>9, <2>2, MoveStatements DEF WriteMove, WorkerState
  <2> QED
    BY <1>6, <1>9, <2>3 DEF WriteMove
<1>10. CASE MarkSuccess(w)
  <2>1. worker[w].spec \in Specs \cup {ErrorSpec} /\ worker[w].key \in Keys
    BY <1>1, <1>10 DEF MarkSuccess, InHand, Busy, WorkerState
  <2>2. NoOp(worker[w].moves) \in {"yes", "no"}
    BY DEF NoOp
  <2>3. StoreTypeOK'
    BY <1>10, <2>1, <2>2, UpsertTyped DEF MarkSuccess, Reasons
  <2> QED
    BY <1>6, <1>10, <2>3 DEF MarkSuccess
<1>11. CASE RecordError(w)
  <2>1. worker[w].key \in Keys
    BY <1>11 DEF RecordError, InHand, Busy
  <2>2. StoreTypeOK'
    BY <1>11, <2>1, UpsertTyped DEF RecordError, Reasons
  <2> QED
    BY <1>6, <1>11, <2>2 DEF RecordError
<1> QED
  BY <1>2, <1>3, <1>4, <1>5, <1>7, <1>8, <1>9, <1>10, <1>11 DEF WorkerStep

\* A handler that goes on to ask about the queue does so for a key, by a
\* route in use.
OpsAsked == \A q \in Requests :
  /\ request[q].pc \in {"no_run", "enqueueing"} => request[q].key \in Keys
  /\ request[q].pc = "no_run" => request[q].op \in Ops

RequestsTyped == request \in [Requests -> RequestState] /\ OpsAsked

\* V is R but for what request q has read and answered.
Edits(V, R, q) == /\ V \in [Requests -> RequestState]
                  /\ V[q].key = R[q].key
                  /\ \A p \in Requests \ {q} : V[p] = R[p]

\* Each field a handler assigns edits its request alone.
LEMMA SetRequest ==
  ASSUME NEW R \in [Requests -> RequestState], NEW q \in Requests,
         NEW x \in {"enqueueing", "answered"}
  PROVE  LET V == [R EXCEPT ![q].pc = x] IN Edits(V, R, q) /\ V[q].pc = x
BY DEF RequestState, Edits

LEMMA SetAnswer ==
  ASSUME NEW R \in [Requests -> RequestState], NEW q \in Requests, NEW x \in Answers
  PROVE  LET V == [R EXCEPT ![q].answer = x] IN Edits(V, R, q) /\ V[q].pc = R[q].pc
BY DEF RequestState, Edits

LEMMA SetMoves ==
  ASSUME NEW R \in [Requests -> RequestState], NEW q \in Requests,
         NEW x \in SUBSET MoveRow
  PROVE  LET V == [R EXCEPT ![q].moves = x] IN Edits(V, R, q) /\ V[q].pc = R[q].pc
BY DEF RequestState, Edits

\* An answer of the kinds the API has settles a request.
LEMMA AnswerTyped ==
  ASSUME RequestsTyped, NEW q \in Requests, NEW a \in Answers, Answer(q, a)
  PROVE  RequestsTyped'
<1> DEFINE R1 == [request EXCEPT ![q].pc = "answered"]
<1>1. Edits(R1, request, q) /\ R1[q].pc = "answered"
  BY SetRequest DEF RequestsTyped
<1>2. request' = [R1 EXCEPT ![q].answer = a]
  BY DEF Answer
<1> HIDE DEF R1
<1>3. Edits(request', R1, q) /\ request'[q].pc = "answered"
  <2>1. R1 \in [Requests -> RequestState]
    BY <1>1 DEF Edits
  <2>2. LET V == [R1 EXCEPT ![q].answer = a] IN Edits(V, R1, q) /\ V[q].pc = R1[q].pc
    BY <2>1, SetAnswer
  <2> QED
    BY <1>1, <1>2, <2>2
<1> QED
  BY <1>1, <1>3 DEF RequestsTyped, OpsAsked, Edits

\* A record that is put together whole is typed when its parts are.
LEMMA AskedTyped ==
  ASSUME RequestsTyped, NEW q \in Requests, NEW t \in RequestState,
         t.pc = "no_run" => t.key \in Keys /\ t.op \in Ops,
         t.pc # "enqueueing", request' = [request EXCEPT ![q] = t]
  PROVE  RequestsTyped'
BY DEF RequestsTyped, OpsAsked

LEMMA RequestStep ==
  ASSUME Typed, RequestsTyped, NEW q \in Requests, RequestNext(q)
  PROVE  RequestsTyped' /\ JobTypeOK'
<1> USE DEF Typed
<1>1. CASE Look(q)
  <2>1. PICK op \in Ops, k \in Keys :
          \/ request' = [request EXCEPT ![q] = Asked("no_run", op, k, 0, "none", "none")]
          \/ \E run \in LatestRun(k) :
               request' = [request EXCEPT ![q] = Found(op, k, run)]
    BY <1>1 DEF Look
  <2>2. op \in Routes
    BY PipelineAssumption
  <2>3. CASE request' = [request EXCEPT ![q] = Asked("no_run", op, k, 0, "none", "none")]
    <3> DEFINE t == Asked("no_run", op, k, 0, "none", "none")
    <3>1. t \in RequestState /\ t.pc = "no_run" /\ t.key = k /\ t.op = op
      BY <2>2 DEF Asked, RequestState, Answers, Reasons
    <3> HIDE DEF t
    <3>2. request' = [request EXCEPT ![q] = t]
      BY <2>3 DEF t
    <3> QED
      BY <1>1, <3>1, <3>2, AskedTyped DEF Look, jobVars, JobTypeOK
  <2>4. ASSUME NEW run \in LatestRun(k),
               request' = [request EXCEPT ![q] = Found(op, k, run)]
        PROVE  RequestsTyped'
    <3>1. run.run_id \in Nat /\ run.error_reason \in Reasons
      BY DEF LatestRun, RunsOf, StoreTypeOK, RunRow
    <3> DEFINE t == Found(op, k, run)
    <3>2. t \in RequestState /\ t.pc \in {"answered", "listing"}
      BY <2>2, <3>1 DEF Found, Asked, RequestState, Answers, Reasons
    <3> HIDE DEF t
    <3>3. request' = [request EXCEPT ![q] = t]
      BY <2>4 DEF t
    <3> QED
      BY <3>2, <3>3, AskedTyped
  <2> QED
    BY <1>1, <2>1, <2>3, <2>4 DEF Look, jobVars, JobTypeOK
<1>2. CASE ListMoves(q)
  <2> DEFINE R1 == [request EXCEPT ![q].pc = "answered"]
             R2 == [R1 EXCEPT ![q].answer = "ready"]
  <2>1. Edits(R1, request, q) /\ R1[q].pc = "answered"
    BY SetRequest DEF RequestsTyped
  <2>2. request' = [R2 EXCEPT ![q].moves = MovesOf(request[q].run_id)]
    BY <1>2 DEF ListMoves
  <2> HIDE DEF R1
  <2>3. Edits(R2, R1, q) /\ R2[q].pc = "answered"
    BY <2>1, SetAnswer DEF Answers, Edits
  <2> HIDE DEF R2
  <2>4. MovesOf(request[q].run_id) \in SUBSET MoveRow
    BY DEF MovesOf, StoreTypeOK
  <2>5. Edits(request', R2, q) /\ request'[q].pc = "answered"
    <3>1. R2 \in [Requests -> RequestState]
      BY <2>3 DEF Edits
    <3> DEFINE V == [R2 EXCEPT ![q].moves = MovesOf(request[q].run_id)]
    <3>2. Edits(V, R2, q) /\ V[q].pc = R2[q].pc
      BY <2>4, <3>1, SetMoves
    <3> QED
      BY <2>2, <2>3, <3>2
  <2>6. RequestsTyped'
    BY <2>1, <2>3, <2>5 DEF RequestsTyped, OpsAsked, Edits
  <2> QED
    BY <1>2, <2>6 DEF ListMoves, jobVars, JobTypeOK
<1>3. CASE StatusPending(q) \/ CancelRun(q)
  <2>1. PICK a \in Answers : Answer(q, a)
    BY <1>3 DEF StatusPending, CancelRun, Answers
  <2> QED
    BY <1>3, <2>1, AnswerTyped, JobStatements
    DEF StatusPending, CancelRun, jobVars, JobTypeOK
<1>4. CASE CheckPending(q)
  <2>1. CASE \E a \in Answers : Answer(q, a)
    BY <1>4, <2>1, AnswerTyped DEF CheckPending, jobVars, JobTypeOK
  <2>2. CASE request' = [request EXCEPT ![q].pc = "enqueueing"]
    <3>1. Edits(request', request, q) /\ request'[q].pc = "enqueueing"
      BY <2>2, SetRequest DEF RequestsTyped
    <3>2. RequestsTyped'
      BY <1>4, <3>1 DEF RequestsTyped, OpsAsked, Edits, CheckPending
    <3> QED
      BY <1>4, <3>2 DEF CheckPending, jobVars, JobTypeOK
  <2> QED
    BY <1>4, <2>1, <2>2 DEF CheckPending, Answers
<1>5. CASE EnqueueRun(q)
  <2>1. request[q].key \in Keys /\ Answer(q, "pending") /\ "pending" \in Answers
    BY <1>5 DEF EnqueueRun, RequestsTyped, OpsAsked, Answers
  <2> QED
    BY <1>5, <2>1, AnswerTyped, JobStatements DEF EnqueueRun
<1>6. CASE EnqueueThrows(q)
  <2>1. NoRequest \in RequestState /\ NoRequest.pc = "idle"
    BY DEF NoRequest, Asked, RequestState, Routes, Answers, Reasons
  <2> QED
    BY <1>6, <2>1, AskedTyped DEF EnqueueThrows, jobVars, JobTypeOK
<1> QED
  BY <1>1, <1>2, <1>3, <1>4, <1>5, <1>6 DEF RequestNext

------------------------------------------------------------------------------

TypeInv == Typed /\ RequestsTyped

LEMMA InitType == Init => TypeInv
<1>1. Init => HandsTyped
  BY RestingType DEF Init, WorkerInit, HandsTyped, InHand, Busy, Resting, Fresh
<1>2. Init => JobTypeOK /\ StoreTypeOK /\ faults \in Nat /\ concluded \subseteq Keys
  BY DEF Init, JobInit, StoreInit, WorkerInit, JobTypeOK, StoreTypeOK
<1>3. NoRequest \in RequestState /\ NoRequest.pc = "idle"
  BY DEF NoRequest, Asked, RequestState, Routes, Answers, Reasons
<1>4. Init => RequestsTyped
  BY <1>3 DEF Init, RequestsTyped, OpsAsked
<1> QED
  BY <1>1, <1>2, <1>4 DEF TypeInv, Typed, WorkerTypeOK, HandsTyped

\* Every step keeps the types, one case for each kind of step.
LEMMA NextType == ASSUME TypeInv, [Next]_vars PROVE TypeInv'
<1> USE DEF TypeInv
<1>1. ASSUME NEW w \in Workers, UNCHANGED request,
             ClaimJob(w) \/ WorkerStep(w) \/ DbError(w) \/ Crash(w)
      PROVE  TypeInv'
  <2>1. JobTypeOK' /\ StoreTypeOK' /\ faults' \in Nat /\ concluded' \subseteq Keys
    BY <1>1, TablesStep
  <2>2. Advances(w) \/ Rest(w) \/ ClaimJob(w)
    <3>1. CASE FailDecide(w) \/ AckJob(w) \/ AckFailed(w) \/ Crash(w)
      BY <3>1 DEF FailDecide, AckJob, AckFailed, Crash
    <3> QED
      BY <1>1, <3>1, StepAdvances DEF WorkerStep
  <2>3. HandsTyped'
    BY <2>2, HandsStep
  <2>4. RequestsTyped'
    BY <1>1 DEF RequestsTyped, OpsAsked
  <2> QED
    BY <2>1, <2>3, <2>4 DEF Typed, WorkerTypeOK, HandsTyped
<1>2. CASE LeaseEnds /\ UNCHANGED request
  <2>1. JobTypeOK'
    BY <1>2, JobStatements DEF LeaseEnds, Typed
  <2>2. StoreTypeOK' /\ WorkerTypeOK' /\ InHand'
    BY <1>2 DEF LeaseEnds, storeVars, workerVars, Typed, StoreTypeOK,
                WorkerTypeOK, InHand, Busy
  <2>3. RequestsTyped'
    BY <1>2 DEF RequestsTyped, OpsAsked
  <2> QED
    BY <2>1, <2>2, <2>3 DEF Typed
<1>3. ASSUME NEW q \in Requests, RequestNext(q) PROVE TypeInv'
  <2>1. RequestsTyped' /\ JobTypeOK'
    BY <1>3, RequestStep
  <2>2. UNCHANGED <<storeVars, workerVars>>
    BY <1>3 DEF RequestNext
  <2>3. StoreTypeOK' /\ WorkerTypeOK' /\ InHand'
    BY <2>2 DEF storeVars, workerVars, Typed, StoreTypeOK, WorkerTypeOK, InHand, Busy
  <2> QED
    BY <2>1, <2>3 DEF Typed
<1>4. CASE UNCHANGED vars
  BY <1>4 DEF vars, Typed, JobTypeOK, StoreTypeOK, WorkerTypeOK, InHand, Busy,
              RequestsTyped, OpsAsked
<1> QED
  BY <1>1, <1>2, <1>3, <1>4 DEF Next, WorkerNext

\* The tables, the workers and the requests keep their types: policy_runs its
\* CHECK that a failure, and only a failure, has a reason.
THEOREM PipelineTypeCorrect == Spec => []TypeOK
<1>1. TypeInv => TypeOK
  BY DEF TypeInv, Typed, RequestsTyped, TypeOK
<1> QED
  BY <1>1, InitType, NextType, PTL DEF Spec

------------------------------------------------------------------------------

\* Every step keeps the leases, when they outlast their workers and nobody
\* cancels.
LEMMA NextLease ==
  ASSUME TypeInv, TypeInv', LeaseInv, [Next]_vars,
         "overrun" \notin Faults, "cancel" \notin Ops
  PROVE  LeaseInv'
<1>1. WorkersTyped'
  BY DEF TypeInv, Typed, WorkerTypeOK, WorkersTyped
<1>2. ASSUME NEW w \in Workers, Advances(w), UNCHANGED jobVars PROVE LeaseInv'
  BY <1>1, <1>2, WithinJob DEF Advances, OnlyAt
<1>3. ASSUME NEW w \in Workers, Busy(w), Rest(w), UNCHANGED jobVars PROVE LeaseInv'
  <2>1. worker'[w].pc = "idle" /\ \A v \in Workers \ {w} : worker'[v] = worker[v]
    BY <1>3 DEF Rest, Resting, Fresh, LeaseInv, WorkersTyped
  <2> QED
    BY <1>1, <1>3, <2>1, WithinJob
<1>4. ASSUME NEW w \in Workers, ClaimJob(w) PROVE LeaseInv'
  BY <1>4, ClaimLease
<1>5. ASSUME NEW w \in Workers, FailDecide(w) PROVE LeaseInv'
  <2>1. Busy(w) /\ Rest(w)
    BY <1>5 DEF FailDecide, Busy
  <2> QED
    BY <1>5, <2>1, RowRemoved, RowPostponed DEF FailDecide, BuryJob
<1>6. ASSUME NEW w \in Workers, AckJob(w) \/ AckFailed(w) PROVE LeaseInv'
  BY <1>6, RowRemoved DEF AckJob, AckFailed, Busy, DeleteJob
<1>7. ASSUME NEW w \in Workers, Crash(w) PROVE LeaseInv'
  BY <1>3, <1>7 DEF Crash, Busy
<1>8. ASSUME NEW w \in Workers,
             \/ FailSelect(w) \/ BeginRun(w) \/ ClearMoves(w) \/ WriteMove(w)
             \/ WriteConflict(w) \/ MarkSuccess(w) \/ SolveThrows(w)
             \/ RecordError(w) \/ DbError(w)
      PROVE  LeaseInv'
  <2>1. Advances(w) \/ (Busy(w) /\ Rest(w))
    BY <1>8, StepAdvances DEF TypeInv
  <2>2. UNCHANGED jobVars
    BY <1>8 DEF FailSelect, BeginRun, ClearMoves, WriteMove, WriteConflict,
                MarkSuccess, SolveThrows, RecordError, DbError
  <2> QED
    BY <1>2, <1>3, <2>1, <2>2
<1>9. CASE LeaseEnds
  BY <1>9, LeaseEndsLease
<1>10. ASSUME NEW q \in Requests, RequestNext(q) PROVE LeaseInv'
  <2>1. UNCHANGED worker
    BY <1>10 DEF RequestNext, workerVars
  <2>2. ~CancelRun(q)
    BY DEF CancelRun, TypeInv, RequestsTyped, OpsAsked
  <2>3. CASE EnqueueRun(q)
    BY <2>1, <2>3, InsertLease DEF EnqueueRun, TypeInv, RequestsTyped, OpsAsked
  <2>4. CASE UNCHANGED jobVars
    BY <2>1, <2>4 DEF jobVars, LeaseInv, QueueTyped, RowsDistinct, IdsIssued,
                      WorkersTyped, Held, HeldAlone, Busy
  <2> QED
    BY <1>10, <2>2, <2>3, <2>4
    DEF RequestNext, Look, ListMoves, StatusPending, CheckPending, EnqueueThrows
<1>11. CASE UNCHANGED vars
  BY <1>11 DEF vars, LeaseInv, QueueTyped, RowsDistinct, IdsIssued,
               WorkersTyped, Held, HeldAlone, Busy
<1> QED
  BY <1>4, <1>5, <1>6, <1>7, <1>8, <1>9, <1>10, <1>11 DEF Next, WorkerNext, WorkerStep

\* Two workers that write for one key hold one row, and a row has one holder:
\* with leases that outlast their workers and no /cancel, the outcome of a run
\* key has one writer at a time, however many workers, clients and crashes.
THEOREM OneWriter ==
  ASSUME "overrun" \notin Faults, "cancel" \notin Ops
  PROVE  Spec => []SoleWriter
<1> DEFINE Inv == TypeInv /\ LeaseInv
<1>1. Init => Inv
  BY InitType, InitLease
<1>2. Inv /\ [Next]_vars => Inv'
  BY NextType, NextLease
<1>3. Inv => SoleWriter
  BY DEF LeaseInv, RowsDistinct, Held, HeldAlone, Busy, SoleWriter, Writing
<1> HIDE DEF Inv
<1> QED
  BY <1>1, <1>2, <1>3, PTL DEF Spec

------------------------------------------------------------------------------
(***************************************************************************)
(* What the workers leave on record: a success is one whole solution, a    *)
(* run that is being written has somebody to finish it, and no job is      *)
(* acked without a run.  The first two rest on the leases above; the third *)
(* needs none of them.                                                     *)
(***************************************************************************)

\* A run is told by its id, by its key and spec, and no id is handed out twice.
RunsDistinct ==
  /\ \A r, s \in policy_runs :
       r.run_id = s.run_id \/ (r.key = s.key /\ r.spec = s.spec) => r = s
  /\ \A r \in policy_runs : r.run_id <= last_run_id

AtWork(w) == worker[w].pc \in {"begun", "inserting"}

\* The rows worker w has inserted so far.
Written(w) ==
  {[run_id |-> worker[w].run_id, move_rank |-> i, move |-> worker[w].moves[i]] :
     i \in 1..(worker[w].next - 1)}

\* The run a worker is writing is on record as failed, what it writes is one
\* solution, and the run's moves are as far as it has come.
HandOK(w) ==
  /\ AtWork(w) =>
       /\ \E o \in Outcomes : o.spec = worker[w].spec /\ o.moves = worker[w].moves
       /\ \E r \in policy_runs :
            /\ r.run_id = worker[w].run_id /\ r.key = worker[w].key
            /\ r.spec = worker[w].spec /\ r.status = "fail"
  /\ worker[w].pc = "inserting" =>
       /\ worker[w].next \in 1..(Len(worker[w].moves) + 1)
       /\ MovesOf(worker[w].run_id) = Written(w)

HandsOK == \A w \in Workers : HandOK(w)

RunInv == RunsDistinct /\ HandsOK /\ ReadyRunIsWhole

------------------------------------------------------------------------------

LEMMA InitRun == Init => RunInv
BY DEF Init, StoreInit, WorkerInit, Resting, Fresh, RunInv, RunsDistinct, HandsOK,
       HandOK, AtWork, ReadyRunIsWhole

\* An upsert puts one row in the place of the row of its key and spec, or
\* beside all others.
LEMMA UpsertEffect ==
  ASSUME StoreTypeOK, RunsDistinct, NEW k \in Keys, NEW spec \in Specs \cup {ErrorSpec},
         NEW status, NEW reason, NEW no_op, UpsertRun(k, spec, status, reason, no_op)
  PROVE  /\ RunsDistinct'
         /\ \E x \in policy_runs' :
              /\ x = [run_id |-> RunIdFor(k, spec), key |-> k, spec |-> spec,
                      status |-> status, error_reason |-> reason, no_op |-> no_op]
              /\ policy_runs' = (policy_runs \ Conflicting(k, spec)) \cup {x}
<1> DEFINE x == [run_id |-> RunIdFor(k, spec), key |-> k, spec |-> spec,
                 status |-> status, error_reason |-> reason, no_op |-> no_op]
<1>1. /\ x.run_id = RunIdFor(k, spec) /\ x.key = k /\ x.spec = spec
      /\ policy_runs' = (policy_runs \ Conflicting(k, spec)) \cup {x}
  BY DEF UpsertRun
<1> HIDE DEF x
<1>2. ASSUME Conflicting(k, spec) = {} PROVE RunsDistinct'
  <2>1. x.run_id = last_run_id + 1 /\ last_run_id' = last_run_id + 1 /\ last_run_id \in Nat
    BY <1>1, <1>2 DEF RunIdFor, UpsertRun, StoreTypeOK
  <2>2. \A r \in policy_runs : r.run_id \in Nat /\ r.run_id <= last_run_id
    BY DEF StoreTypeOK, RunRow, RunsDistinct
  <2>3. \A r \in policy_runs : ~(r.key = k /\ r.spec = spec)
    BY <1>2 DEF Conflicting
  <2> QED
    BY <1>1, <2>1, <2>2, <2>3 DEF RunsDistinct
<1>3. ASSUME Conflicting(k, spec) # {} PROVE RunsDistinct'
  <2>1. PICK c \in policy_runs :
          c.key = k /\ c.spec = spec /\ x.run_id = c.run_id /\ last_run_id' = last_run_id
    <3>1. (CHOOSE r \in Conflicting(k, spec) : TRUE) \in Conflicting(k, spec)
      BY <1>3
    <3> QED
      BY <1>1, <1>3, <3>1 DEF Conflicting, RunIdFor, UpsertRun
  <2>2. \A r \in policy_runs \ Conflicting(k, spec) :
          r # c /\ r.run_id # c.run_id /\ ~(r.key = k /\ r.spec = spec)
    BY <2>1 DEF Conflicting, RunsDistinct
  <2> QED
    BY <1>1, <2>1, <2>2 DEF RunsDistinct
<1>4. x \in policy_runs'
  BY <1>1
<1> QED
  BY <1>1, <1>2, <1>3, <1>4 DEF x

\* A worker whose job another step leaves alone keeps what it holds, when its
\* run and the moves of that run stay.
LEMMA HandKept ==
  ASSUME NEW v \in Workers, HandOK(v), worker'[v] = worker[v],
         \A r \in policy_runs : r.key = worker[v].key => r \in policy_runs',
         MovesOf(worker[v].run_id)' = MovesOf(worker[v].run_id)
  PROVE  HandOK(v)'
BY DEF HandOK, AtWork, Written

\* Two workers at work are at work on two keys.
LEMMA KeysApart ==
  ASSUME LeaseInv, NEW v \in Workers, NEW w \in Workers, v # w, Busy(v), Busy(w)
  PROVE  worker[v].key # worker[w].key
BY DEF LeaseInv, RowsDistinct, Held, HeldAlone

\* An upsert for the key of one worker leaves the others what they hold.
LEMMA UpsertHands ==
  ASSUME TypeInv, LeaseInv, RunInv, NEW w \in Workers, Busy(w),
         NEW spec \in Specs \cup {ErrorSpec}, NEW status, NEW reason, NEW no_op,
         UpsertRun(worker[w].key, spec, status, reason, no_op),
         NEW v \in Workers \ {w}, worker'[v] = worker[v]
  PROVE  HandOK(v)'
<1>1. \A id : MovesOf(id)' = MovesOf(id)
  BY DEF UpsertRun, MovesOf
<1>2. HandOK(v)
  BY DEF RunInv, HandsOK
<1>3. CASE Busy(v)
  <2>1. worker[v].key # worker[w].key
    BY <1>3, KeysApart
  <2>2. \A r \in policy_runs : r.key = worker[v].key => r \in policy_runs'
    BY <2>1 DEF UpsertRun, Conflicting
  <2> QED
    BY <1>1, <1>2, <2>2, HandKept
<1>4. CASE ~Busy(v)
  BY <1>4 DEF Busy, HandOK, AtWork
<1> QED
  BY <1>3, <1>4

\* The moves one worker deletes or inserts are not of a run another writes, nor
\* of a success.
LEMMA MovesApart ==
  ASSUME LeaseInv, RunInv, NEW w \in Workers, AtWork(w)
  PROVE  /\ \A v \in Workers \ {w} : AtWork(v) => worker[v].run_id # worker[w].run_id
         /\ \A r \in policy_runs : r.status = "success" => r.run_id # worker[w].run_id
<1>1. PICK r \in policy_runs : r.run_id = worker[w].run_id /\ r.key = worker[w].key
                               /\ r.status = "fail"
  BY DEF RunInv, HandsOK, HandOK
<1>2. ASSUME NEW v \in Workers \ {w}, AtWork(v) PROVE worker[v].run_id # worker[w].run_id
  <2>1. PICK s \in policy_runs : s.run_id = worker[v].run_id /\ s.key = worker[v].key
    BY <1>2 DEF RunInv, HandsOK, HandOK
  <2>2. worker[v].key # worker[w].key
    BY <1>2, KeysApart DEF AtWork, Busy
  <2> QED
    BY <1>1, <2>1, <2>2 DEF RunInv, RunsDistinct
<1> QED
  BY <1>1, <1>2 DEF RunInv, RunsDistinct

\* A write to the moves of worker w's run leaves runs, other workers and
\* successes as they were.
LEMMA MovesWritten ==
  ASSUME LeaseInv, RunInv, NEW w \in Workers, AtWork(w),
         UNCHANGED <<policy_runs, last_run_id>>,
         \A id : id # worker[w].run_id => MovesOf(id)' = MovesOf(id),
         \A v \in Workers \ {w} : worker'[v] = worker[v]
  PROVE  /\ RunsDistinct' /\ ReadyRunIsWhole'
         /\ \A v \in Workers \ {w} : HandOK(v)'
<1>1. RunsDistinct'
  BY DEF RunInv, RunsDistinct
<1>2. ReadyRunIsWhole'
  BY MovesApart DEF RunInv, ReadyRunIsWhole, HoldsOutcome
<1>3. ASSUME NEW v \in Workers \ {w} PROVE HandOK(v)'
  <2>1. CASE AtWork(v)
    BY <2>1, HandKept, MovesApart DEF RunInv, HandsOK
  <2>2. CASE ~AtWork(v)
    BY <2>2 DEF HandOK, AtWork
  <2> QED
    BY <2>1, <2>2
<1> QED
  BY <1>1, <1>2, <1>3

------------------------------------------------------------------------------

\* The solver's outcome goes on record as a run being written.
LEMMA BeginRunKeeps ==
  ASSUME TypeInv, LeaseInv, RunInv, NEW w \in Workers, BeginRun(w)
  PROVE  RunInv'
<1>1. PICK o \in Outcomes :
        /\ UpsertRun(worker[w].key, o.spec, "fail", "persisting_moves", "no")
        /\ worker' = [worker EXCEPT ![w].pc = "begun",
                                    ![w].spec = o.spec, ![w].moves = o.moves,
                                    ![w].run_id = RunIdFor(worker[w].key, o.spec)]
  BY DEF BeginRun
<1>2. /\ worker \in [Workers -> WorkerState] /\ StoreTypeOK /\ RunsDistinct
      /\ Busy(w) /\ worker[w].key \in Keys /\ o.spec \in Specs
  BY PolicyWorkerAssumption
  DEF TypeInv, Typed, WorkerTypeOK, InHand, BeginRun, Busy, RunInv
<1>3. /\ worker'[w].pc = "begun" /\ worker'[w].spec = o.spec
      /\ worker'[w].moves = o.moves /\ worker'[w].key = worker[w].key
      /\ worker'[w].run_id = RunIdFor(worker[w].key, o.spec)
      /\ \A v \in Workers \ {w} : worker'[v] = worker[v]
  BY <1>1, <1>2 DEF WorkerState
<1>4. PICK x \in policy_runs' :
        /\ x = [run_id |-> RunIdFor(worker[w].key, o.spec), key |-> worker[w].key,
                spec |-> o.spec, status |-> "fail",
                error_reason |-> "persisting_moves", no_op |-> "no"]
        /\ policy_runs' = (policy_runs \ Conflicting(worker[w].key, o.spec)) \cup {x}
  BY <1>1, <1>2, UpsertEffect
<1>5. RunsDistinct'
  BY <1>1, <1>2, UpsertEffect
<1>6. HandOK(w)'
  BY <1>3, <1>4 DEF HandOK, AtWork
<1>7. \A v \in Workers \ {w} : HandOK(v)'
  BY <1>1, <1>2, <1>3, UpsertHands
<1>8. ReadyRunIsWhole'
  <2>1. \A id : MovesOf(id)' = MovesOf(id)
    BY <1>1 DEF UpsertRun, MovesOf
  <2> QED
    BY <1>4, <2>1 DEF RunInv, ReadyRunIsWhole, HoldsOutcome
<1> QED
  BY <1>5, <1>6, <1>7, <1>8 DEF RunInv, HandsOK

\* What earlier attempts left of the run goes.
LEMMA ClearMovesKeeps ==
  ASSUME TypeInv, LeaseInv, RunInv, NEW w \in Workers, ClearMoves(w)
  PROVE  RunInv'
<1>1. /\ worker \in [Workers -> WorkerState] /\ AtWork(w) /\ HandOK(w)
  BY DEF TypeInv, Typed, WorkerTypeOK, ClearMoves, AtWork, RunInv, HandsOK
<1>2. /\ worker'[w].pc = "inserting" /\ worker'[w].next = 1
      /\ worker'[w].spec = worker[w].spec /\ worker'[w].moves = worker[w].moves
      /\ worker'[w].key = worker[w].key /\ worker'[w].run_id = worker[w].run_id
      /\ \A v \in Workers \ {w} : worker'[v] = worker[v]
  BY <1>1 DEF ClearMoves, WorkerState
<1>3. /\ UNCHANGED <<policy_runs, last_run_id>>
      /\ policy_moves' = policy_moves \ MovesOf(worker[w].run_id)
  BY DEF ClearMoves, DeleteMoves
<1>4. \A id : id # worker[w].run_id => MovesOf(id)' = MovesOf(id)
  BY <1>3 DEF MovesOf
<1>5. HandOK(w)'
  <2>1. MovesOf(worker[w].run_id)' = {} /\ Written(w)' = {}
    BY <1>2, <1>3 DEF MovesOf, Written
  <2>2. worker'[w].next \in 1..(Len(worker'[w].moves) + 1)
    BY <1>1, <1>2 DEF WorkerState
  <2> QED
    BY <1>1, <1>2, <1>3, <2>1, <2>2 DEF HandOK, AtWork
<1> QED
  BY <1>1, <1>2, <1>3, <1>4, <1>5, MovesWritten DEF RunInv, HandsOK

\* One more move of the solution.
LEMMA WriteMoveKeeps ==
  ASSUME TypeInv, LeaseInv, RunInv, NEW w \in Workers, WriteMove(w)
  PROVE  RunInv'
<1>1. /\ worker \in [Workers -> WorkerState] /\ AtWork(w) /\ HandOK(w)
      /\ worker[w].pc = "inserting"
  BY DEF TypeInv, Typed, WorkerTypeOK, WriteMove, AtWork, RunInv, HandsOK
<1>2. /\ worker'[w].pc = "inserting" /\ worker'[w].next = worker[w].next + 1
      /\ worker'[w].spec = worker[w].spec /\ worker'[w].moves = worker[w].moves
      /\ worker'[w].key = worker[w].key /\ worker'[w].run_id = worker[w].run_id
      /\ \A v \in Workers \ {w} : worker'[v] = worker[v]
  BY <1>1 DEF WriteMove, WorkerState
<1> DEFINE m == [run_id |-> worker[w].run_id, move_rank |-> worker[w].next,
                 move |-> worker[w].moves[worker[w].next]]
<1>3. /\ UNCHANGED <<policy_runs, last_run_id>>
      /\ policy_moves' = policy_moves \cup {m}
  BY DEF WriteMove, InsertMove
<1>4. \A id : id # worker[w].run_id => MovesOf(id)' = MovesOf(id)
  BY <1>3 DEF MovesOf
<1>5. HandOK(w)'
  <2>1. worker[w].next \in 1..Len(worker[w].moves) /\ Len(worker[w].moves) \in Nat
    BY <1>1 DEF WriteMove, HandOK, WorkerState
  <2>2. MovesOf(worker[w].run_id)' = MovesOf(worker[w].run_id) \cup {m}
    BY <1>2, <1>3 DEF MovesOf
  <2>3. Written(w)' = Written(w) \cup {m}
    <3>1. 1..(worker'[w].next - 1) = 1..(worker[w].next - 1) \cup {worker[w].next}
      BY <1>2, <2>1
    <3>2. Written(w)' =
            {[run_id |-> worker[w].run_id, move_rank |-> i, move |-> worker[w].moves[i]] :
               i \in 1..(worker'[w].next - 1)}
      BY <1>2 DEF Written
    <3> QED
      BY <3>1, <3>2 DEF Written
  <2> HIDE DEF m
  <2>4. MovesOf(worker[w].run_id) = Written(w)
    BY <1>1 DEF HandOK
  <2>5. worker'[w].next \in 1..(Len(worker'[w].moves) + 1)
    BY <1>2, <2>1
  <2> QED
    BY <1>1, <1>2, <1>3, <2>2, <2>3, <2>4, <2>5 DEF HandOK, AtWork
<1> QED
  BY <1>1, <1>2, <1>3, <1>4, <1>5, MovesWritten DEF RunInv, HandsOK

\* The last move is there: the run becomes a success, with all of its moves.
LEMMA MarkSuccessKeeps ==
  ASSUME TypeInv, LeaseInv, RunInv, NEW w \in Workers, MarkSuccess(w)
  PROVE  RunInv'
<1> DEFINE k == worker[w].key
           spec == worker[w].spec
           no_op == NoOp(worker[w].moves)
<1>1. /\ worker \in [Workers -> WorkerState] /\ AtWork(w) /\ HandOK(w)
      /\ worker[w].pc = "inserting" /\ StoreTypeOK /\ RunsDistinct
      /\ Busy(w) /\ k \in Keys /\ spec \in Specs \cup {ErrorSpec}
  BY DEF TypeInv, Typed, WorkerTypeOK, MarkSuccess, AtWork, RunInv, HandsOK, InHand,
         Busy, WorkerState
<1>2. UpsertRun(k, spec, "success", "none", no_op)
  BY DEF MarkSuccess
<1>3. /\ worker'[w].pc = "marked"
      /\ \A v \in Workers \ {w} : worker'[v] = worker[v]
  BY <1>1 DEF MarkSuccess, Goto, WorkerState
<1>4. PICK x \in policy_runs' :
        /\ x = [run_id |-> RunIdFor(k, spec), key |-> k, spec |-> spec,
                status |-> "success", error_reason |-> "none", no_op |-> no_op]
        /\ policy_runs' = (policy_runs \ Conflicting(k, spec)) \cup {x}
  BY <1>1, <1>2, UpsertEffect
<1>5. RunsDistinct'
  BY <1>1, <1>2, UpsertEffect
<1>6. HandOK(w)'
  BY <1>3 DEF HandOK, AtWork
<1>7. \A v \in Workers \ {w} : HandOK(v)'
  BY <1>1, <1>2, <1>3, UpsertHands
<1>8. ReadyRunIsWhole'
  <2>1. \A id : MovesOf(id)' = MovesOf(id)
    BY <1>2 DEF UpsertRun, MovesOf
  <2>2. x.run_id = worker[w].run_id
    <3>1. PICK r \in policy_runs : /\ r.run_id = worker[w].run_id
                                   /\ r.key = k /\ r.spec = spec
      BY <1>1 DEF HandOK
    <3>2. Conflicting(k, spec) = {r}
      BY <1>1, <3>1 DEF Conflicting, RunsDistinct
    <3> QED
      BY <1>4, <3>1, <3>2 DEF RunIdFor
  <2>3. PICK o \in Outcomes : o.spec = spec /\ o.moves = worker[w].moves
    BY <1>1 DEF HandOK
  <2>4. MovesOf(x.run_id)' = RowsFor(x.run_id, o.moves)
    <3>1. /\ worker[w].next \in 1..(Len(worker[w].moves) + 1)
          /\ worker[w].next > Len(worker[w].moves) /\ Len(worker[w].moves) \in Nat
      BY <1>1 DEF HandOK, MarkSuccess, WorkerState
    <3>2. 1..(worker[w].next - 1) = 1..Len(worker[w].moves)
      BY <3>1
    <3>3. MovesOf(worker[w].run_id) = Written(w)
      BY <1>1 DEF HandOK
    <3> QED
      BY <2>1, <2>2, <2>3, <3>2, <3>3 DEF Written, RowsFor
  <2>5. HoldsOutcome(x)'
    BY <1>4, <2>3, <2>4 DEF HoldsOutcome
  <2>6. \A r \in policy_runs : r.status = "success" => HoldsOutcome(r)'
    BY <2>1 DEF RunInv, ReadyRunIsWhole, HoldsOutcome
  <2> QED
    BY <1>4, <2>5, <2>6 DEF ReadyRunIsWhole
<1> QED
  BY <1>5, <1>6, <1>7, <1>8 DEF RunInv, HandsOK

\* A failure gets a run of its own.
LEMMA RecordErrorKeeps ==
  ASSUME TypeInv, LeaseInv, RunInv, NEW w \in Workers, RecordError(w)
  PROVE  RunInv'
<1>1. /\ worker \in [Workers -> WorkerState] /\ StoreTypeOK /\ RunsDistinct
      /\ Busy(w) /\ worker[w].key \in Keys
  BY DEF TypeInv, Typed, WorkerTypeOK, RecordError, RunInv, InHand, Busy
<1>2. UpsertRun(worker[w].key, ErrorSpec, "fail", "job_error", "yes")
  BY DEF RecordError
<1>3. /\ worker'[w].pc = "recorded"
      /\ \A v \in Workers \ {w} : worker'[v] = worker[v]
  BY <1>1 DEF RecordError, Goto, WorkerState
<1>4. \A status, reason, no_op :
        UpsertRun(worker[w].key, ErrorSpec, status, reason, no_op) =>
          /\ RunsDistinct'
          /\ \E x \in policy_runs' :
               /\ x = [run_id |-> RunIdFor(worker[w].key, ErrorSpec),
                       key |-> worker[w].key, spec |-> ErrorSpec, status |-> status,
                       error_reason |-> reason, no_op |-> no_op]
               /\ policy_runs' =
                    (policy_runs \ Conflicting(worker[w].key, ErrorSpec)) \cup {x}
  BY <1>1, UpsertEffect
<1>5. PICK x \in policy_runs' :
        /\ x = [run_id |-> RunIdFor(worker[w].key, ErrorSpec), key |-> worker[w].key,
                spec |-> ErrorSpec, status |-> "fail",
                error_reason |-> "job_error", no_op |-> "yes"]
        /\ policy_runs' = (policy_runs \ Conflicting(worker[w].key, ErrorSpec)) \cup {x}
  BY <1>2, <1>4
<1>6. RunsDistinct'
  BY <1>2, <1>4
<1>7. HandOK(w)'
  BY <1>3 DEF HandOK, AtWork
<1>8. \A v \in Workers \ {w} : HandOK(v)'
  BY <1>1, <1>2, <1>3, UpsertHands
<1>9. ReadyRunIsWhole'
  <2>1. \A id : MovesOf(id)' = MovesOf(id)
    BY <1>2 DEF UpsertRun, MovesOf
  <2> QED
    BY <1>5, <2>1 DEF RunInv, ReadyRunIsWhole, HoldsOutcome
<1> QED
  BY <1>6, <1>7, <1>8, <1>9 DEF RunInv, HandsOK

\* A step that writes no run, and after which its worker is not at work on one,
\* keeps what is on record and in hand.
LEMMA ElsewhereKeeps ==
  ASSUME RunInv, UNCHANGED storeVars,
         \A w \in Workers : worker'[w] = worker[w]
                            \/ worker'[w].pc \notin {"begun", "inserting"}
  PROVE  RunInv'
<1>1. RunsDistinct' /\ ReadyRunIsWhole'
  BY DEF RunInv, storeVars, RunsDistinct, ReadyRunIsWhole, HoldsOutcome, MovesOf
<1>2. ASSUME NEW w \in Workers PROVE HandOK(w)'
  BY DEF RunInv, HandsOK, HandOK, AtWork, storeVars, MovesOf, Written
<1> QED
  BY <1>1, <1>2 DEF RunInv, HandsOK

LEMMA NextRun ==
  ASSUME TypeInv, LeaseInv, RunInv, [Next]_vars PROVE RunInv'
<1>1. worker \in [Workers -> WorkerState]
  BY DEF TypeInv, Typed, WorkerTypeOK
<1>2. ASSUME NEW w \in Workers,
             \/ FailSelect(w) \/ WriteConflict(w) \/ SolveThrows(w) \/ DbError(w)
             \/ Crash(w) \/ FailDecide(w) \/ AckJob(w) \/ AckFailed(w) \/ ClaimJob(w)
      PROVE  RunInv'
  <2>1. UNCHANGED storeVars
    BY <1>2 DEF FailSelect, WriteConflict, SolveThrows, DbError, Crash, FailDecide,
                AckJob, AckFailed, ClaimJob
  <2>2. \A v \in Workers \ {w} : worker'[v] = worker[v]
    BY <1>1, <1>2 DEF FailSelect, WriteConflict, SolveThrows, DbError, Crash, FailDecide,
                AckJob, AckFailed, ClaimJob, Rest, Goto
  <2>3. worker'[w].pc \notin {"begun", "inserting"}
    <3>1. CASE \/ WriteConflict(w) \/ SolveThrows(w) \/ DbError(w)
               \/ Crash(w) \/ FailDecide(w) \/ AckJob(w) \/ AckFailed(w) \/ ClaimJob(w)
      BY <1>1, <3>1 DEF WriteConflict, SolveThrows, DbError, Crash, FailDecide,
              AckJob, AckFailed, ClaimJob, Rest, Goto, Resting, Fresh, WorkerState
    <3>2. CASE FailSelect(w)
      BY <1>1, <3>2 DEF FailSelect, Rest, Resting, Fresh, WorkerState
    <3> QED
      BY <1>2, <3>1, <3>2
  <2> QED
    BY <2>1, <2>2, <2>3, ElsewhereKeeps
<1>3. CASE LeaseEnds
  BY <1>3, ElsewhereKeeps DEF LeaseEnds, workerVars
<1>4. ASSUME NEW q \in Requests, RequestNext(q) PROVE RunInv'
  <2>1. UNCHANGED <<storeVars, workerVars>>
    BY <1>4 DEF RequestNext
  <2> QED
    BY <2>1, ElsewhereKeeps DEF workerVars
<1>5. CASE UNCHANGED vars
  BY <1>5, ElsewhereKeeps DEF vars, storeVars
<1> QED
  BY <1>2, <1>3, <1>4, <1>5, BeginRunKeeps, ClearMovesKeeps, WriteMoveKeeps,
     MarkSuccessKeeps, RecordErrorKeeps DEF Next, WorkerNext, WorkerStep

------------------------------------------------------------------------------

\* A success on record is one solution, whole, whatever crashes, exceptions and
\* database errors there were and however often the job was delivered, as long
\* as leases outlast their workers and nobody cancels.
THEOREM SuccessIsWhole ==
  ASSUME "overrun" \notin Faults, "cancel" \notin Ops
  PROVE  Spec => []ReadyRunIsWhole
<1> DEFINE Inv == TypeInv /\ LeaseInv /\ RunInv
<1>1. Init => Inv
  BY InitType, InitLease, InitRun
<1>2. Inv /\ [Next]_vars => Inv'
  BY NextType, NextLease, NextRun
<1>3. Inv => ReadyRunIsWhole
  BY DEF RunInv
<1> HIDE DEF Inv
<1> QED
  BY <1>1, <1>2, <1>3, PTL DEF Spec

------------------------------------------------------------------------------

\* Solving yields solutions of one specification.
OneSpec == \A o, p \in Outcomes : o.spec = p.spec

\* With crashes as the only faults a key has one run; while it is being written
\* the key's job is in the queue.
BackInv ==
  /\ \A w \in Workers :
       /\ worker[w].pc \notin {"error", "recorded"}
       /\ worker[w].pc \in {"begun", "inserting", "marked"} => worker[w].key \in Supported
       /\ worker[w].pc = "deciding" => worker[w].key \notin Supported
       /\ worker[w].pc = "marked" =>
            \A r \in RunsOf(worker[w].key) : r.error_reason = "none"
  /\ \A r \in policy_runs :
       /\ \E o \in Outcomes : r.spec = o.spec
       /\ r.error_reason = "persisting_moves" => r.key \in Supported /\ Pending(r.key) # {}

LEMMA InitBack == Init => BackInv
BY DEF Init, StoreInit, WorkerInit, Resting, Fresh, BackInv

\* A step that writes no run and takes no key out of the queue, except the key of
\* a run that is done, keeps what is unfinished backed.
LEMMA BackKept ==
  ASSUME BackInv, UNCHANGED policy_runs, NEW w \in Workers,
         \A v \in Workers \ {w} : worker'[v] = worker[v],
         \/ worker'[w] = worker[w]
         \/ worker'[w].pc \in {"idle", "claimed"}
         \/ /\ worker'[w].key = worker[w].key
            /\ \/ AtWork(w) /\ worker'[w].pc \in {"begun", "inserting"}
               \/ worker'[w].pc = "deciding" /\ worker[w].key \notin Supported,
         \A r \in policy_runs :
           r.error_reason = "persisting_moves" => Pending(r.key)' # {}
  PROVE  BackInv'
<1>1. ASSUME NEW v \in Workers
      PROVE  /\ worker'[v].pc \notin {"error", "recorded"}
             /\ worker'[v].pc \in {"begun", "inserting", "marked"}
                  => worker'[v].key \in Supported
             /\ worker'[v].pc = "deciding" => worker'[v].key \notin Supported
             /\ worker'[v].pc = "marked" =>
                  \A r \in RunsOf(worker[v].key)' : r.error_reason = "none"
  <2>1. CASE worker'[v] = worker[v]
    BY <2>1 DEF BackInv, RunsOf
  <2>2. CASE v = w /\ worker'[w] # worker[w]
    BY <2>2 DEF BackInv, AtWork
  <2> QED
    BY <2>1, <2>2
<1>2. \A r \in policy_runs' :
        /\ \E o \in Outcomes : r.spec = o.spec
        /\ r.error_reason = "persisting_moves" => r.key \in Supported /\ Pending(r.key)' # {}
  BY DEF BackInv
<1> QED
  BY <1>1, <1>2 DEF BackInv

\* The row a worker at work holds is the only one of its id, and of its key.
LEMMA RowHeld ==
  ASSUME LeaseInv, NEW w \in Workers, Busy(w)
  PROVE  \E r \in job_queue : /\ r.key = worker[w].key
                              /\ RowsOf(worker[w].job_id) = {r}
                              /\ Pending(worker[w].key) = {r}
BY DEF LeaseInv, RowsDistinct, Held, RowsOf, Pending

\* A run goes on record as being written while its worker holds the key's job.
LEMMA BeginRunBacks ==
  ASSUME TypeInv, LeaseInv, RunInv, BackInv, NEW w \in Workers, BeginRun(w)
  PROVE  BackInv'
<1>1. PICK o \in Outcomes :
        /\ UpsertRun(worker[w].key, o.spec, "fail", "persisting_moves", "no")
        /\ worker' = [worker EXCEPT ![w].pc = "begun",
                                    ![w].spec = o.spec, ![w].moves = o.moves,
                                    ![w].run_id = RunIdFor(worker[w].key, o.spec)]
  BY DEF BeginRun
<1>2. /\ worker \in [Workers -> WorkerState] /\ StoreTypeOK /\ RunsDistinct
      /\ Busy(w) /\ worker[w].key \in Keys /\ o.spec \in Specs
      /\ worker[w].key \in Supported
  BY PolicyWorkerAssumption
  DEF TypeInv, Typed, WorkerTypeOK, InHand, BeginRun, Busy, RunInv
<1>3. /\ worker'[w].pc = "begun" /\ worker'[w].key = worker[w].key
      /\ \A v \in Workers \ {w} : worker'[v] = worker[v]
  BY <1>1, <1>2 DEF WorkerState
<1>4. PICK x \in policy_runs' :
        /\ x.key = worker[w].key /\ x.spec = o.spec
        /\ policy_runs' = (policy_runs \ Conflicting(worker[w].key, o.spec)) \cup {x}
  <2>1. PICK x \in policy_runs' :
          /\ x = [run_id |-> RunIdFor(worker[w].key, o.spec), key |-> worker[w].key,
                  spec |-> o.spec, status |-> "fail",
                  error_reason |-> "persisting_moves", no_op |-> "no"]
          /\ policy_runs' = (policy_runs \ Conflicting(worker[w].key, o.spec)) \cup {x}
    BY <1>1, <1>2, UpsertEffect
  <2> QED
    BY <2>1
<1>5. job_queue' = job_queue
  BY DEF BeginRun, jobVars
<1>6. ASSUME NEW v \in Workers
      PROVE  /\ worker'[v].pc \notin {"error", "recorded"}
             /\ worker'[v].pc \in {"begun", "inserting", "marked"}
                  => worker'[v].key \in Supported
             /\ worker'[v].pc = "deciding" => worker'[v].key \notin Supported
             /\ worker'[v].pc = "marked" =>
                  \A r \in RunsOf(worker[v].key)' : r.error_reason = "none"
  <2>1. CASE v = w
    BY <1>2, <1>3, <2>1
  <2>2. CASE v # w
    <3>1. worker[v].pc = "marked" => worker[v].key # worker[w].key
      BY <1>2, <2>2, KeysApart DEF Busy
    <3>2. worker[v].pc = "marked" => RunsOf(worker[v].key)' \subseteq RunsOf(worker[v].key)
      BY <1>3, <1>4, <2>2, <3>1 DEF RunsOf
    <3> QED
      BY <1>3, <2>2, <3>2 DEF BackInv
  <2> QED
    BY <2>1, <2>2
<1>7. ASSUME NEW r \in policy_runs'
      PROVE  /\ \E p \in Outcomes : r.spec = p.spec
             /\ r.error_reason = "persisting_moves"
                  => r.key \in Supported /\ Pending(r.key)' # {}
  <2>1. \A j : Pending(j)' = Pending(j)
    BY <1>5 DEF Pending
  <2>2. Pending(worker[w].key) # {}
    BY <1>2, RowHeld
  <2>3. r = x \/ r \in policy_runs
    BY <1>4
  <2> QED
    BY <1>2, <1>4, <2>1, <2>2, <2>3 DEF BackInv
<1> QED
  BY <1>3, <1>6, <1>7 DEF BackInv

\* The success takes the place of the key's one run.
LEMMA MarkSuccessBacks ==
  ASSUME TypeInv, LeaseInv, RunInv, BackInv, OneSpec, NEW w \in Workers, MarkSuccess(w)
  PROVE  BackInv'
<1> DEFINE k == worker[w].key
           spec == worker[w].spec
           no_op == NoOp(worker[w].moves)
<1>1. /\ worker \in [Workers -> WorkerState] /\ HandOK(w) /\ AtWork(w)
      /\ StoreTypeOK /\ RunsDistinct /\ Busy(w) /\ k \in Keys /\ k \in Supported
      /\ spec \in Specs \cup {ErrorSpec}
  BY DEF TypeInv, Typed, WorkerTypeOK, MarkSuccess, AtWork, RunInv, HandsOK, InHand,
         Busy, WorkerState, BackInv
<1>2. UpsertRun(k, spec, "success", "none", no_op)
  BY DEF MarkSuccess
<1>3. /\ worker'[w].pc = "marked" /\ worker'[w].key = worker[w].key
      /\ \A v \in Workers \ {w} : worker'[v] = worker[v]
  BY <1>1 DEF MarkSuccess, Goto, WorkerState
<1>4. PICK x \in policy_runs' :
        /\ x.key = k /\ x.spec = spec /\ x.error_reason = "none"
        /\ policy_runs' = (policy_runs \ Conflicting(k, spec)) \cup {x}
  <2>1. PICK x \in policy_runs' :
          /\ x = [run_id |-> RunIdFor(k, spec), key |-> k, spec |-> spec,
                  status |-> "success", error_reason |-> "none", no_op |-> no_op]
          /\ policy_runs' = (policy_runs \ Conflicting(k, spec)) \cup {x}
    BY <1>1, <1>2, UpsertEffect
  <2> QED
    BY <2>1
<1>5. PICK o \in Outcomes : o.spec = spec
  BY <1>1 DEF HandOK
<1>6. RunsOf(k) = Conflicting(k, spec)
  BY <1>5 DEF BackInv, OneSpec, RunsOf, Conflicting
<1>7. \A r \in policy_runs' : r.key = k => r = x
  BY <1>4, <1>6 DEF RunsOf
<1>8. ASSUME NEW v \in Workers
      PROVE  /\ worker'[v].pc \notin {"error", "recorded"}
             /\ worker'[v].pc \in {"begun", "inserting", "marked"}
                  => worker'[v].key \in Supported
             /\ worker'[v].pc = "deciding" => worker'[v].key \notin Supported
             /\ worker'[v].pc = "marked" =>
                  \A r \in RunsOf(worker[v].key)' : r.error_reason = "none"
  <2>1. CASE v = w
    BY <1>1, <1>3, <1>4, <1>7, <2>1 DEF RunsOf
  <2>2. CASE v # w
    <3>1. worker[v].pc = "marked" => worker[v].key # k
      BY <1>1, <2>2, KeysApart DEF Busy
    <3>2. worker[v].pc = "marked" => RunsOf(worker[v].key)' \subseteq RunsOf(worker[v].key)
      BY <1>3, <1>4, <2>2, <3>1 DEF RunsOf
    <3> QED
      BY <1>3, <2>2, <3>2 DEF BackInv
  <2> QED
    BY <2>1, <2>2
<1>9. ASSUME NEW r \in policy_runs'
      PROVE  /\ \E p \in Outcomes : r.spec = p.spec
             /\ r.error_reason = "persisting_moves"
                  => r.key \in Supported /\ Pending(r.key)' # {}
  <2>1. job_queue' = job_queue
    BY DEF MarkSuccess, jobVars
  <2>2. r = x \/ r \in policy_runs
    BY <1>4
  <2>3. \A j : Pending(j)' = Pending(j)
    BY <2>1 DEF Pending
  <2> QED
    BY <1>4, <1>5, <2>2, <2>3 DEF BackInv
<1> QED
  BY <1>3, <1>8, <1>9 DEF BackInv

LEMMA NextBack ==
  ASSUME TypeInv, LeaseInv, RunInv, BackInv, OneSpec, [Next]_vars,
         Faults \subseteq {"crash"}, "cancel" \notin Ops
  PROVE  BackInv'
<1>1. worker \in [Workers -> WorkerState]
  BY DEF TypeInv, Typed, WorkerTypeOK
<1>2. ASSUME NEW w \in Workers, UNCHANGED storeVars,
             \A v \in Workers \ {w} : worker'[v] = worker[v],
             \/ worker'[w] = worker[w]
             \/ worker'[w].pc \in {"idle", "claimed"}
             \/ /\ worker'[w].key = worker[w].key
                /\ \/ AtWork(w) /\ worker'[w].pc \in {"begun", "inserting"}
                   \/ worker'[w].pc = "deciding" /\ worker[w].key \notin Supported,
             \A r \in job_queue : r.key \in Keys => \E s \in job_queue' : s.key = r.key
      PROVE  BackInv'
  <2>1. \A r \in policy_runs :
          r.error_reason = "persisting_moves" => Pending(r.key)' # {}
    BY <1>2 DEF BackInv, Pending, TypeInv, Typed, JobTypeOK, JobRow
  <2>2. UNCHANGED policy_runs
    BY <1>2 DEF storeVars
  <2> QED
    BY <1>2, <2>1, <2>2, BackKept
<1>3. ASSUME NEW w \in Workers, ClaimJob(w) PROVE BackInv'
  <2>1. PICK r \in job_queue :
          /\ job_queue' = (job_queue \ {r}) \cup {Leased(r)}
          /\ worker' = [worker EXCEPT ![w] = Fresh("claimed", r.job_id, r.key)]
          /\ UNCHANGED storeVars
    BY <1>3 DEF ClaimJob, ClaimRow
  <2>2. Leased(r).key = r.key
    BY LeasedTyped DEF LeaseInv, QueueTyped
  <2>3. \A q \in job_queue : \E s \in job_queue' : s.key = q.key
    BY <2>1, <2>2
  <2>4. worker'[w].pc = "claimed" /\ \A v \in Workers \ {w} : worker'[v] = worker[v]
    BY <1>1, <2>1 DEF Fresh
  <2> QED
    BY <1>2, <2>1, <2>3, <2>4
<1>4. ASSUME NEW w \in Workers, Crash(w) PROVE BackInv'
  BY <1>1, <1>2, <1>4 DEF Crash, Rest, Resting, Fresh, jobVars
<1>5. ASSUME NEW w \in Workers, FailSelect(w) PROVE BackInv'
  <2>1. UNCHANGED <<jobVars, storeVars>> /\ worker[w].key \notin Supported
    BY <1>5 DEF FailSelect
  <2>2. \A v \in Workers \ {w} : worker'[v] = worker[v]
    BY <1>1, <1>5 DEF FailSelect, Rest
  <2>3. \/ worker'[w].pc = "idle"
        \/ worker'[w].pc = "deciding" /\ worker'[w].key = worker[w].key
    BY <1>1, <1>5 DEF FailSelect, Rest, Resting, Fresh, WorkerState
  <2>4. \A r \in job_queue : \E s \in job_queue' : s.key = r.key
    BY <2>1 DEF jobVars
  <2> QED
    BY <1>2, <2>1, <2>2, <2>3, <2>4
<1>6. ASSUME NEW w \in Workers, FailDecide(w) PROVE BackInv'
  <2>1. PICK r \in job_queue : r.key = worker[w].key /\ RowsOf(worker[w].job_id) = {r}
    BY <1>6, RowHeld DEF FailDecide, Busy
  <2>2. r.key \notin Supported
    BY <1>6, <2>1 DEF FailDecide, BackInv
  <2>3. job_queue \ {r} \subseteq job_queue'
    BY <1>6, <2>1 DEF FailDecide, BuryJob, PostponeJob
  <2>4. \A q \in policy_runs : q.error_reason = "persisting_moves" => Pending(q.key)' # {}
    BY <2>2, <2>3 DEF BackInv, Pending
  <2>5. /\ UNCHANGED policy_runs /\ worker'[w].pc = "idle"
        /\ \A v \in Workers \ {w} : worker'[v] = worker[v]
    BY <1>1, <1>6 DEF FailDecide, storeVars, Rest, Resting, Fresh
  <2> QED
    BY <2>4, <2>5, BackKept
<1>7. ASSUME NEW w \in Workers, AckJob(w) PROVE BackInv'
  <2>1. PICK r \in job_queue : r.key = worker[w].key /\ RowsOf(worker[w].job_id) = {r}
    BY <1>7, RowHeld DEF AckJob, Busy
  <2>2. \A q \in policy_runs : q.error_reason = "persisting_moves" => q.key # r.key
    BY <1>7, <2>1 DEF AckJob, BackInv, RunsOf
  <2>3. job_queue \ {r} = job_queue'
    BY <1>7, <2>1 DEF AckJob, DeleteJob
  <2>4. \A q \in policy_runs : q.error_reason = "persisting_moves" => Pending(q.key)' # {}
    BY <2>2, <2>3 DEF BackInv, Pending
  <2>5. /\ UNCHANGED policy_runs /\ worker'[w].pc = "idle"
        /\ \A v \in Workers \ {w} : worker'[v] = worker[v]
    BY <1>1, <1>7 DEF AckJob, storeVars, Rest, Resting, Fresh
  <2> QED
    BY <2>4, <2>5, BackKept
<1>8. ASSUME NEW w \in Workers, ClearMoves(w) \/ WriteMove(w) PROVE BackInv'
  <2>1. /\ UNCHANGED <<policy_runs, jobVars>> /\ AtWork(w)
    BY <1>8 DEF ClearMoves, WriteMove, DeleteMoves, InsertMove, AtWork
  <2>2. /\ worker'[w].pc = "inserting" /\ worker'[w].key = worker[w].key
        /\ \A v \in Workers \ {w} : worker'[v] = worker[v]
    BY <1>1, <1>8 DEF ClearMoves, WriteMove, WorkerState
  <2>3. \A q \in policy_runs : q.error_reason = "persisting_moves" => Pending(q.key)' # {}
    BY <2>1 DEF BackInv, Pending, jobVars
  <2> QED
    BY <2>1, <2>2, <2>3, BackKept
<1>9. ASSUME NEW w \in Workers
      PROVE  ~WriteConflict(w) /\ ~SolveThrows(w) /\ ~DbError(w)
             /\ ~RecordError(w) /\ ~AckFailed(w)
  <2>1. ~WriteConflict(w)
    <3> SUFFICES ASSUME WriteConflict(w) PROVE FALSE
      OBVIOUS
    <3>1. worker[w].next \in Nat /\ MovesOf(worker[w].run_id) = Written(w)
      BY <1>1 DEF WriteConflict, RunInv, HandsOK, HandOK, WorkerState
    <3>2. \A m \in Written(w) : m.move_rank # worker[w].next
      BY <3>1 DEF Written
    <3> QED
      BY <3>1, <3>2 DEF WriteConflict, RankTaken
  <2>2. ~SolveThrows(w) /\ ~DbError(w)
    BY DEF SolveThrows, DbError
  <2>3. ~RecordError(w) /\ ~AckFailed(w)
    BY DEF BackInv, RecordError, AckFailed
  <2> QED
    BY <2>1, <2>2, <2>3
<1>10. ASSUME UNCHANGED <<policy_runs, worker>>,
              \A r \in job_queue : \E s \in job_queue' : s.key = r.key
       PROVE  BackInv'
  BY <1>10 DEF BackInv, RunsOf, Pending
<1>11. CASE LeaseEnds
  <2>1. PICK r \in job_queue :
          job_queue' = (job_queue \ {r}) \cup {[r EXCEPT !.visible_at = "past"]}
    BY <1>11 DEF LeaseEnds, Reappear
  <2>2. [r EXCEPT !.visible_at = "past"].key = r.key
    BY DEF LeaseInv, QueueTyped, JobRow
  <2> QED
    BY <1>10, <1>11, <2>1, <2>2 DEF LeaseEnds, storeVars, workerVars
<1>12. ASSUME NEW q \in Requests, RequestNext(q) PROVE BackInv'
  <2>1. UNCHANGED <<policy_runs, worker>>
    BY <1>12 DEF RequestNext, storeVars, workerVars
  <2>2. ~CancelRun(q)
    BY DEF CancelRun, TypeInv, RequestsTyped, OpsAsked
  <2>3. \A r \in job_queue : r \in job_queue'
    BY <1>12, <2>2 DEF RequestNext, Look, ListMoves, StatusPending, CheckPending,
                       EnqueueRun, EnqueueThrows, InsertJob, jobVars
  <2> QED
    BY <1>10, <2>1, <2>3
<1>13. CASE UNCHANGED vars
  BY <1>10, <1>13 DEF vars
<1> QED
  BY <1>3, <1>4, <1>5, <1>6, <1>7, <1>8, <1>9, <1>11, <1>12, <1>13, BeginRunBacks,
     MarkSuccessBacks DEF Next, WorkerNext, WorkerStep

\* No run that the API reports as being written is abandoned, when workers can
\* crash but leases outlast them, nobody cancels, and solving again is done with
\* the same specification: the key's job is still in the queue.
THEOREM UnfinishedIsBacked ==
  ASSUME Faults \subseteq {"crash"}, "cancel" \notin Ops, OneSpec
  PROVE  Spec => []PersistingRunIsBacked
<1> DEFINE Inv == TypeInv /\ LeaseInv /\ RunInv /\ BackInv
<1>1. Init => Inv
  BY InitType, InitLease, InitRun, InitBack
<1>2. Inv /\ [Next]_vars => Inv'
  BY NextType, NextLease, NextRun, NextBack
<1>3. Inv => PersistingRunIsBacked
  BY DEF BackInv, PersistingRunIsBacked, LatestRun, RunsOf
<1> HIDE DEF Inv
<1> QED
  BY <1>1, <1>2, <1>3, PTL DEF Spec

------------------------------------------------------------------------------

\* From the first upsert to the ack a worker's key has a run.
AckInv ==
  /\ \A w \in Workers : worker[w].pc \in {"begun", "inserting", "marked", "recorded"}
                         => RunsOf(worker[w].key) # {}
  /\ AckedHasOutcome

\* An upsert leaves its key a run and takes none from the others.
LEMMA UpsertLeavesRuns ==
  ASSUME NEW k, NEW spec, NEW status, NEW reason, NEW no_op,
         UpsertRun(k, spec, status, reason, no_op)
  PROVE  /\ RunsOf(k)' # {}
         /\ \A j : RunsOf(j) # {} => RunsOf(j)' # {}
<1> DEFINE x == [run_id |-> RunIdFor(k, spec), key |-> k, spec |-> spec,
                 status |-> status, error_reason |-> reason, no_op |-> no_op]
<1>1. RunsOf(k)' # {}
  <2>1. x \in policy_runs' /\ x.key = k
    BY DEF UpsertRun
  <2> HIDE DEF x
  <2> QED
    BY <2>1 DEF RunsOf
<1>2. \A j : j # k => RunsOf(j) \subseteq RunsOf(j)'
  BY DEF UpsertRun, RunsOf, Conflicting
<1> QED
  BY <1>1, <1>2

\* A step takes no run away, and its worker has one as soon as it needs one.
LEMMA AckKept ==
  ASSUME AckInv, NEW w \in Workers,
         \A j : RunsOf(j) # {} => RunsOf(j)' # {},
         \A v \in Workers \ {w} : worker'[v] = worker[v],
         \/ worker'[w].pc \notin {"begun", "inserting", "marked", "recorded"}
         \/ /\ worker'[w].key = worker[w].key
            /\ \/ worker[w].pc \in {"begun", "inserting", "marked", "recorded"}
               \/ RunsOf(worker[w].key)' # {},
         \/ concluded' = concluded
         \/ /\ worker[w].pc \in {"marked", "recorded"}
            /\ concluded' = concluded \cup {worker[w].key}
  PROVE  AckInv'
<1>1. ASSUME NEW v \in Workers,
             worker'[v].pc \in {"begun", "inserting", "marked", "recorded"}
      PROVE  RunsOf(worker[v].key)' # {} /\ worker'[v].key = worker[v].key
  BY <1>1 DEF AckInv
<1>2. AckedHasOutcome'
  BY DEF AckInv, AckedHasOutcome
<1>3. \A v \in Workers : worker'[v].pc \in {"begun", "inserting", "marked", "recorded"}
                         => {r \in policy_runs' : r.key = worker'[v].key} # {}
  BY <1>1 DEF RunsOf
<1> QED
  BY <1>2, <1>3 DEF AckInv, RunsOf

LEMMA NextAck ==
  ASSUME TypeInv, AckInv, [Next]_vars, "db_error" \notin Faults PROVE AckInv'
<1>1. worker \in [Workers -> WorkerState]
  BY DEF TypeInv, Typed, WorkerTypeOK
<1>2. UNCHANGED policy_runs => \A j : RunsOf(j) # {} => RunsOf(j)' # {}
  BY DEF RunsOf
<1>3. ASSUME NEW w \in Workers,
             \/ ClaimJob(w) \/ FailSelect(w) \/ FailDecide(w) \/ ClearMoves(w)
             \/ WriteMove(w) \/ WriteConflict(w) \/ AckJob(w) \/ SolveThrows(w)
             \/ AckFailed(w) \/ Crash(w)
      PROVE  AckInv'
  <2>1. UNCHANGED policy_runs /\ \A v \in Workers \ {w} : worker'[v] = worker[v]
    BY <1>1, <1>3 DEF ClaimJob, FailSelect, FailDecide, ClearMoves, WriteMove,
         WriteConflict, AckJob, SolveThrows, AckFailed, Crash, Rest, Goto, storeVars,
         DeleteMoves, InsertMove
  <2>2. CASE ClearMoves(w) \/ WriteMove(w)
    <3>1. worker'[w].key = worker[w].key /\ worker[w].pc \in {"begun", "inserting"}
      BY <1>1, <2>2 DEF ClearMoves, WriteMove, WorkerState
    <3>2. concluded' = concluded
      BY <2>2 DEF ClearMoves, WriteMove
    <3> QED
      BY <1>2, <2>1, <3>1, <3>2, AckKept
  <2>3. CASE \/ ClaimJob(w) \/ FailSelect(w) \/ FailDecide(w) \/ WriteConflict(w)
             \/ AckJob(w) \/ SolveThrows(w) \/ AckFailed(w) \/ Crash(w)
    <3>1. worker'[w].pc \in {"idle", "claimed", "deciding", "error"}
      <4>1. CASE FailSelect(w)
        BY <1>1, <4>1 DEF FailSelect, Rest, Resting, Fresh, WorkerState
      <4>2. CASE ~FailSelect(w)
        BY <1>1, <2>3, <4>2 DEF ClaimJob, FailDecide, WriteConflict, AckJob, SolveThrows,
             AckFailed, Crash, Rest, Goto, Resting, Fresh, WorkerState
      <4> QED
        BY <4>1, <4>2
    <3>2. \/ concluded' = concluded
          \/ /\ worker[w].pc \in {"marked", "recorded"}
             /\ concluded' = concluded \cup {worker[w].key}
      BY <2>3 DEF ClaimJob, FailSelect, FailDecide, WriteConflict, AckJob, SolveThrows,
           AckFailed, Crash
    <3> QED
      BY <1>2, <2>1, <3>1, <3>2, AckKept
  <2> QED
    BY <1>3, <2>2, <2>3
<1>4. ASSUME NEW w \in Workers, BeginRun(w) \/ MarkSuccess(w) \/ RecordError(w)
      PROVE  AckInv'
  <2>1. PICK k, spec, status, reason, no_op :
          k = worker[w].key /\ UpsertRun(k, spec, status, reason, no_op)
    <3>1. \E spec, status, reason, no_op :
            UpsertRun(worker[w].key, spec, status, reason, no_op)
      <4>1. CASE BeginRun(w)
        BY <4>1 DEF BeginRun
      <4>2. CASE MarkSuccess(w)
        BY <4>2 DEF MarkSuccess
      <4>3. CASE RecordError(w)
        BY <4>3 DEF RecordError
      <4> QED
        BY <1>4, <4>1, <4>2, <4>3
    <3> QED
      BY <3>1
  <2>2. /\ RunsOf(k)' # {}
        /\ \A j : RunsOf(j) # {} => RunsOf(j)' # {}
    BY <2>1, UpsertLeavesRuns
  <2>3. worker'[w].key = worker[w].key /\ \A v \in Workers \ {w} : worker'[v] = worker[v]
    <3>1. CASE BeginRun(w)
      BY <1>1, <3>1 DEF BeginRun, WorkerState
    <3>2. CASE MarkSuccess(w) \/ RecordError(w)
      BY <1>1, <3>2 DEF MarkSuccess, RecordError, Goto, WorkerState
    <3> QED
      BY <1>4, <3>1, <3>2
  <2>4. concluded' = concluded
    BY <1>4 DEF BeginRun, MarkSuccess, RecordError
  <2>5. RunsOf(worker[w].key)' # {}
    BY <2>1, <2>2, <2>3 DEF RunsOf
  <2> QED
    BY <2>2, <2>3, <2>4, <2>5, AckKept
<1>5. ASSUME NEW w \in Workers PROVE ~DbError(w)
  BY DEF DbError
<1>6. ASSUME UNCHANGED <<policy_runs, workerVars>> PROVE AckInv'
  BY <1>6 DEF AckInv, AckedHasOutcome, RunsOf, workerVars
<1>7. CASE LeaseEnds
  BY <1>6, <1>7 DEF LeaseEnds, storeVars
<1>8. ASSUME NEW q \in Requests, RequestNext(q) PROVE AckInv'
  BY <1>6, <1>8 DEF RequestNext, storeVars
<1>9. CASE UNCHANGED vars
  BY <1>6, <1>9 DEF vars, workerVars
<1> QED
  BY <1>3, <1>4, <1>5, <1>7, <1>8, <1>9 DEF Next, WorkerNext, WorkerStep

\* A job is acked only when a run of its key is on record, whatever crashes,
\* exceptions, overruns and cancellations there were, as long as the statement
\* that records a failure does not fail itself.
THEOREM AckHasRun ==
  ASSUME "db_error" \notin Faults
  PROVE  Spec => []AckedHasOutcome
<1> DEFINE Inv == TypeInv /\ AckInv
<1>1. Init => Inv
  <2>1. Init => AckInv
    BY DEF Init, WorkerInit, Resting, Fresh, AckInv, AckedHasOutcome
  <2> QED
    BY <2>1, InitType
<1>2. Inv /\ [Next]_vars => Inv'
  BY NextType, NextAck
<1>3. Inv => AckedHasOutcome
  BY DEF AckInv
<1> HIDE DEF Inv
<1> QED
  BY <1>1, <1>2, <1>3, PTL DEF Spec

------------------------------------------------------------------------------

\* What is remembered of a claim is a number of attempts.
LeaseTyped == lease \in [Workers -> Nat]

UseInv == TypeInv /\ RowsDistinct /\ IdsIssued /\ LeaseTyped

\* A step with its history is a step.
LEMMA HistoryStep == [HNext]_<<vars, history>> => [Next]_vars
BY DEF HNext, HClaim, HWork, HRequest, Next, WorkerNext, vars

\* The statements on job_queue keep its ids and its keys apart.
LEMMA StatementsApart ==
  ASSUME JobTypeOK, RowsDistinct, IdsIssued
  PROVE  /\ UNCHANGED jobVars => RowsDistinct' /\ IdsIssued'
         /\ \A k \in Keys : InsertJob(k) => RowsDistinct' /\ IdsIssued'
         /\ \A k : DeleteKey(k) => RowsDistinct' /\ IdsIssued'
         /\ \A r : ClaimRow(r) \/ Reappear(r) => RowsDistinct' /\ IdsIssued'
         /\ \A id : DeleteJob(id) \/ BuryJob(id) \/ PostponeJob(id)
                      => RowsDistinct' /\ IdsIssued'
<1> USE DEF RowsDistinct, IdsIssued
<1>1. UNCHANGED jobVars => RowsDistinct' /\ IdsIssued'
  BY DEF jobVars
<1>2. ASSUME NEW k \in Keys, InsertJob(k) PROVE RowsDistinct' /\ IdsIssued'
  BY <1>2 DEF InsertJob, NewRow, Pending, JobTypeOK
<1>3. ASSUME NEW k, DeleteKey(k) PROVE RowsDistinct' /\ IdsIssued'
  BY <1>3 DEF DeleteKey
<1>4. ASSUME NEW r, ClaimRow(r) PROVE RowsDistinct' /\ IdsIssued'
  <2>1. /\ r \in job_queue /\ last_job_id' = last_job_id
        /\ job_queue' = (job_queue \ {r}) \cup {Leased(r)}
    BY <1>4 DEF ClaimRow
  <2>2. Leased(r).job_id = r.job_id /\ Leased(r).key = r.key
    BY <2>1, LeasedTyped DEF JobTypeOK
  <2> QED
    BY <2>1, <2>2
<1>5. ASSUME NEW r, Reappear(r) PROVE RowsDistinct' /\ IdsIssued'
  <2> DEFINE t == [r EXCEPT !.visible_at = "past"]
  <2>1. r \in job_queue /\ last_job_id' = last_job_id /\ job_queue' = (job_queue \ {r}) \cup {t}
    BY <1>5 DEF Reappear
  <2>2. t.job_id = r.job_id /\ t.key = r.key
    BY <2>1 DEF JobTypeOK, JobRow
  <2> HIDE DEF t
  <2> QED
    BY <2>1, <2>2
<1>6. ASSUME NEW id, DeleteJob(id) \/ BuryJob(id) PROVE RowsDistinct' /\ IdsIssued'
  BY <1>6 DEF DeleteJob, BuryJob
<1>7. ASSUME NEW id, PostponeJob(id) PROVE RowsDistinct' /\ IdsIssued'
  <2>1. \A r \in job_queue : Postponed(r).job_id = r.job_id /\ Postponed(r).key = r.key
    BY DEF JobTypeOK, JobRow, Postponed
  <2>2. /\ job_queue' = (job_queue \ RowsOf(id)) \cup {Postponed(r) : r \in RowsOf(id)}
        /\ last_job_id' = last_job_id
    BY <1>7 DEF PostponeJob
  <2> QED
    BY <2>1, <2>2 DEF RowsOf
<1> QED
  BY <1>1, <1>2, <1>3, <1>4, <1>5, <1>6, <1>7

\* What every step of the pipeline does to job_queue is one of its statements.
LEMMA UseKept ==
  ASSUME UseInv, [HNext]_<<vars, history>> PROVE UseInv'
<1>1. TypeInv'
  BY HistoryStep, NextType DEF UseInv
<1>2. LeaseTyped'
  <2>1. ASSUME NEW w \in Workers, HClaim(w) PROVE LeaseTyped'
    <3>1. PICK r \in job_queue : lease' = [lease EXCEPT ![w] = r.attempts + 1]
      BY <2>1 DEF HClaim, RowsOf
    <3>2. r.attempts + 1 \in Nat
      BY DEF UseInv, TypeInv, Typed, JobTypeOK, JobRow
    <3> QED
      BY <3>1, <3>2 DEF UseInv, LeaseTyped
  <2>2. UNCHANGED lease => LeaseTyped'
    BY DEF UseInv, LeaseTyped
  <2> QED
    BY <2>1, <2>2 DEF HNext, HWork, HRequest, history
<1>3. \/ UNCHANGED jobVars
      \/ \E k \in Keys : InsertJob(k)
      \/ \E k : DeleteKey(k)
      \/ \E r : ClaimRow(r) \/ Reappear(r)
      \/ \E id : DeleteJob(id) \/ BuryJob(id) \/ PostponeJob(id)
  <2>1. [Next]_vars
    BY HistoryStep
  <2>2. ASSUME NEW w \in Workers, ClaimJob(w) PROVE \E r : ClaimRow(r)
    BY <2>2 DEF ClaimJob
  <2>3. ASSUME NEW w \in Workers, AckJob(w) \/ AckFailed(w) PROVE \E id : DeleteJob(id)
    BY <2>3 DEF AckJob, AckFailed
  <2>4. ASSUME NEW w \in Workers, FailDecide(w) PROVE \E id : BuryJob(id) \/ PostponeJob(id)
    BY <2>4 DEF FailDecide
  <2>5. ASSUME NEW w \in Workers,
               \/ FailSelect(w) \/ BeginRun(w) \/ ClearMoves(w) \/ WriteMove(w)
               \/ WriteConflict(w) \/ MarkSuccess(w) \/ SolveThrows(w)
               \/ RecordError(w) \/ DbError(w) \/ Crash(w)
        PROVE  UNCHANGED jobVars
    BY <2>5 DEF FailSelect, BeginRun, ClearMoves, WriteMove, WriteConflict, MarkSuccess,
                SolveThrows, RecordError, DbError, Crash
  <2>6. CASE LeaseEnds
    BY <2>6 DEF LeaseEnds
  <2>7. ASSUME NEW q \in Requests, RequestNext(q), ~EnqueueRun(q), ~CancelRun(q)
        PROVE  UNCHANGED jobVars
    BY <2>7 DEF RequestNext, Look, ListMoves, StatusPending, CheckPending, EnqueueThrows
  <2>8. ASSUME NEW q \in Requests, EnqueueRun(q) PROVE \E k \in Keys : InsertJob(k)
    BY <2>8 DEF EnqueueRun, UseInv, TypeInv, RequestsTyped, OpsAsked
  <2>9. ASSUME NEW q \in Requests, CancelRun(q) PROVE \E k : DeleteKey(k)
    BY <2>9 DEF CancelRun
  <2>10. UNCHANGED vars => UNCHANGED jobVars
    BY DEF vars, jobVars
  <2> QED
    BY <2>1, <2>2, <2>3, <2>4, <2>5, <2>6, <2>7, <2>8, <2>9, <2>10
       DEF Next, WorkerNext, WorkerStep
<1>4. RowsDistinct' /\ IdsIssued'
  BY <1>3, StatementsApart DEF UseInv, TypeInv, Typed
<1> QED
  BY <1>1, <1>2, <1>4 DEF UseInv

\* A step of one worker, as the queue sees it.
LEMMA ConsumersAfter ==
  ASSUME NEW w \in Workers,
         \A v \in Workers \ {w} : worker'[v] = worker[v] /\ lease'[v] = lease[v]
  PROVE  /\ WorkersAsConsumers' = [WorkersAsConsumers EXCEPT ![w] = Consumer(w)']
         /\ WorkersAsConsumers[w] = Consumer(w)
<1>1. \A v \in Workers \ {w} : Consumer(v)' = Consumer(v)
  BY DEF Consumer
<1> QED
  BY <1>1 DEF WorkersAsConsumers

\* A worker that rests is an idle consumer, and one at work on its job holds
\* it, between the statements of fail() or not.
LEMMA ConsumerIs ==
  ASSUME NEW w \in Workers
  PROVE  /\ ~Busy(w) => Consumer(w) = JQ!Idle
         /\ Busy(w) => /\ Consumer(w).pc # "idle"
                       /\ Consumer(w).job_id = worker[w].job_id
                       /\ Consumer(w).pc = "deciding" <=> worker[w].pc = "deciding"
                       /\ Consumer(w).pc = "working" <=> worker[w].pc # "deciding"
                       /\ worker[w].pc = "deciding" => Consumer(w).read = worker[w].read
BY DEF Busy, Consumer, JQ!Idle

\* A consumer's record with two fields set.
Turned(c, x, y) == [c EXCEPT !.pc = x, !.read = y]

LEMMA RecordSet ==
  ASSUME NEW p, NEW id, NEW a, NEW n, NEW x, NEW y
  PROVE  Turned([pc |-> p, job_id |-> id, attempts |-> a, read |-> n], x, y)
           = [pc |-> x, job_id |-> id, attempts |-> a, read |-> y]
<1>1. [[pc |-> p, job_id |-> id, attempts |-> a, read |-> n] EXCEPT !.pc = x]
        = [pc |-> x, job_id |-> id, attempts |-> a, read |-> n]
  OBVIOUS
<1>2. [[pc |-> x, job_id |-> id, attempts |-> a, read |-> n] EXCEPT !.read = y]
        = [pc |-> x, job_id |-> id, attempts |-> a, read |-> y]
  OBVIOUS
<1> QED
  BY <1>1, <1>2 DEF Turned

\* A worker set to rest leaves an idle consumer.
LEMMA RestIs ==
  ASSUME UseInv, NEW w \in Workers, Rest(w), UNCHANGED lease
  PROVE  /\ WorkersAsConsumers' = [WorkersAsConsumers EXCEPT ![w] = JQ!Idle]
         /\ WorkersAsConsumers[w] = Consumer(w)
<1>1. /\ \A v \in Workers \ {w} : worker'[v] = worker[v] /\ lease'[v] = lease[v]
      /\ worker'[w].pc = "idle"
  BY DEF Rest, Resting, Fresh, UseInv, TypeInv, Typed, WorkerTypeOK
<1>2. Consumer(w)' = JQ!Idle
  BY <1>1 DEF Consumer, JQ!Idle
<1> QED
  BY <1>1, <1>2, ConsumersAfter

\* A worker that goes on with its job, other than in fail(), is a consumer
\* still at work on it.
LEMMA WorkIs ==
  ASSUME UseInv, NEW w \in Workers, Advances(w), worker'[w].pc \notin {"idle", "deciding"},
         UNCHANGED lease
  PROVE  /\ WorkersAsConsumers' = [WorkersAsConsumers EXCEPT ![w].pc = "working", ![w].read = 0]
         /\ worker[w].pc # "deciding" => WorkersAsConsumers' = WorkersAsConsumers
         /\ WorkersAsConsumers[w] = Consumer(w)
<1>1. /\ \A v \in Workers \ {w} : worker'[v] = worker[v] /\ lease'[v] = lease[v]
      /\ worker'[w].job_id = worker[w].job_id /\ Busy(w)
  BY DEF Advances, OnlyAt
<1>2. Consumer(w)' = [pc |-> "working", job_id |-> worker[w].job_id,
                      attempts |-> lease[w], read |-> 0]
  BY <1>1 DEF Consumer
<1>3. /\ WorkersAsConsumers' = [WorkersAsConsumers EXCEPT ![w] = Consumer(w)']
      /\ WorkersAsConsumers[w] = Consumer(w)
  BY <1>1, ConsumersAfter
<1>4. [Consumer(w) EXCEPT !.pc = "working", !.read = 0] = Consumer(w)'
  <2>1. PICK p, n : Consumer(w) = [pc |-> p, job_id |-> worker[w].job_id,
                                   attempts |-> lease[w], read |-> n]
    BY <1>1 DEF Consumer, Busy
  <2>2. Turned(Consumer(w), "working", 0) = Consumer(w)'
    BY <1>2, <2>1, RecordSet
  <2> QED
    BY <2>2 DEF Turned
<1>5. worker[w].pc # "deciding" => Consumer(w)' = Consumer(w)
  BY <1>1, <1>2 DEF Consumer, Busy
<1> QED
  BY <1>3, <1>4, <1>5 DEF WorkersAsConsumers

\* A claim, with what is remembered of it, is a claim.
LEMMA ClaimUses ==
  ASSUME UseInv, NEW w \in Workers, HClaim(w), UNCHANGED faults PROVE JQ!Claim(w)
<1>1. PICK r \in job_queue :
        /\ ClaimRow(r)
        /\ worker' = [worker EXCEPT ![w] = Fresh("claimed", r.job_id, r.key)]
  BY DEF HClaim, ClaimJob
<1>2. worker \in [Workers -> WorkerState] /\ lease \in [Workers -> Nat]
  BY DEF UseInv, TypeInv, Typed, WorkerTypeOK, LeaseTyped
<1>3. worker'[w] = Fresh("claimed", r.job_id, r.key) /\ worker'[w].job_id = r.job_id
  BY <1>1, <1>2 DEF Fresh
<1>4. lease' = [lease EXCEPT ![w] = r.attempts + 1]
  BY <1>3 DEF HClaim, RowsOf, UseInv, RowsDistinct
<1>5. \A v \in Workers \ {w} : worker'[v] = worker[v] /\ lease'[v] = lease[v]
  BY <1>1, <1>2, <1>4
<1>6. Consumer(w)' = [pc |-> "working", job_id |-> r.job_id,
                      attempts |-> r.attempts + 1, read |-> 0]
  BY <1>2, <1>3, <1>4 DEF Consumer, Fresh
<1>7. /\ WorkersAsConsumers' = [WorkersAsConsumers EXCEPT ![w] = Consumer(w)']
      /\ WorkersAsConsumers[w] = Consumer(w)
  BY <1>5, ConsumersAfter
<1>8. WorkersAsConsumers[w].pc = "idle"
  BY <1>7 DEF HClaim, ClaimJob, Consumer
<1>9. JQ!ClaimRow(r)
  BY <1>1 DEF ClaimRow, JQ!ClaimRow, Leased, JQ!Leased
<1>10. UNCHANGED <<faults, acked, canceled>>
  BY DEF HClaim
<1> QED
  BY <1>6, <1>7, <1>8, <1>9, <1>10 DEF JQ!Claim

\* An ack is an ack, wherever the worker makes it.
LEMMA AckUses ==
  ASSUME UseInv, NEW w \in Workers, AckJob(w) \/ AckFailed(w), HWork(w)
  PROVE  JQ!Ack(w)
<1>1. /\ worker[w].pc \in {"marked", "recorded"} /\ Rest(w) /\ UNCHANGED <<lease, faults, canceled>>
      /\ DeleteJob(worker[w].job_id)
      /\ acked' = acked \cup IdsOf(RowsOf(worker[w].job_id))
  BY DEF AckJob, AckFailed, HWork, Acking
<1>2. /\ Busy(w) /\ Consumer(w).pc = "working" /\ Consumer(w).job_id = worker[w].job_id
  BY <1>1, ConsumerIs DEF Busy
<1>3. /\ WorkersAsConsumers' = [WorkersAsConsumers EXCEPT ![w] = JQ!Idle]
      /\ WorkersAsConsumers[w] = Consumer(w)
  BY <1>1, RestIs
<1> QED
  BY <1>1, <1>2, <1>3 DEF JQ!Ack, JQ!DeleteJob, DeleteJob, JQ!RowsOf, RowsOf, IdsOf

\* queue.fail() of an unsupported version is fail(), statement by statement.
LEMMA FailUses ==
  ASSUME UseInv, NEW w \in Workers, FailSelect(w) \/ FailDecide(w),
         UNCHANGED <<lease, acked, canceled>>
  PROVE  JQ!FailSelect(w) \/ JQ!FailDecide(w)
<1>1. CASE FailSelect(w) /\ Rest(w) /\ RowsOf(worker[w].job_id) = {}
  <2>1. Busy(w) /\ Consumer(w).pc = "working" /\ Consumer(w).job_id = worker[w].job_id
    BY <1>1, ConsumerIs DEF FailSelect, Busy
  <2>2. /\ WorkersAsConsumers' = [WorkersAsConsumers EXCEPT ![w] = JQ!Idle]
        /\ WorkersAsConsumers[w] = Consumer(w)
    BY <1>1, RestIs
  <2>3. JQ!FailSelect(w)
    BY <1>1, <2>1, <2>2 DEF JQ!FailSelect, FailSelect, JQ!RowsOf, RowsOf, jobVars
  <2> QED
    BY <2>3
<1>2. ASSUME FailSelect(w), NEW r \in RowsOf(worker[w].job_id),
             worker' = [worker EXCEPT ![w].pc = "deciding", ![w].read = r.attempts]
      PROVE  JQ!FailSelect(w)
  <2>1. worker \in [Workers -> WorkerState] /\ worker[w].pc = "claimed"
    BY <1>2 DEF FailSelect, UseInv, TypeInv, Typed, WorkerTypeOK
  <2>2. /\ worker'[w].pc = "deciding" /\ worker'[w].read = r.attempts
        /\ worker'[w].job_id = worker[w].job_id
        /\ \A v \in Workers \ {w} : worker'[v] = worker[v] /\ lease'[v] = lease[v]
    BY <1>2, <2>1 DEF WorkerState
  <2>3. /\ Consumer(w) = [pc |-> "working", job_id |-> worker[w].job_id,
                          attempts |-> lease[w], read |-> 0]
        /\ Consumer(w)' = [pc |-> "deciding", job_id |-> worker[w].job_id,
                           attempts |-> lease[w], read |-> r.attempts]
    BY <2>1, <2>2 DEF Consumer
  <2>4. /\ WorkersAsConsumers' = [WorkersAsConsumers EXCEPT ![w] = Consumer(w)']
        /\ WorkersAsConsumers[w] = Consumer(w)
    BY <2>2, ConsumersAfter
  <2>5. WorkersAsConsumers' = [WorkersAsConsumers EXCEPT ![w].pc = "deciding",
                                                         ![w].read = r.attempts]
    <3>1. Turned(Consumer(w), "deciding", r.attempts) = Consumer(w)'
      BY <2>3, RecordSet
    <3> QED
      BY <2>4, <3>1 DEF WorkersAsConsumers, Turned
  <2>6. r \in JQ!RowsOf(WorkersAsConsumers[w].job_id)
    <3>1. WorkersAsConsumers[w].job_id = worker[w].job_id
      BY <2>3, <2>4
    <3> QED
      BY <1>2, <3>1 DEF RowsOf, JQ!RowsOf
  <2>7. /\ UNCHANGED <<job_queue, job_dlq, last_job_id, faults, acked, canceled>>
        /\ WorkersAsConsumers[w].pc = "working"
    BY <1>2, <2>3, <2>4 DEF FailSelect, jobVars
  <2> QED
    BY <2>5, <2>6, <2>7 DEF JQ!FailSelect
<1>3. CASE FailDecide(w)
  <2>1. /\ Busy(w) /\ Consumer(w).pc = "deciding" /\ Consumer(w).job_id = worker[w].job_id
        /\ Consumer(w).read = worker[w].read
    BY <1>3, ConsumerIs DEF FailDecide, Busy
  <2>2. /\ WorkersAsConsumers' = [WorkersAsConsumers EXCEPT ![w] = JQ!Idle]
        /\ WorkersAsConsumers[w] = Consumer(w)
    BY <1>3, RestIs DEF FailDecide
  <2>3. /\ BuryJob(worker[w].job_id) => JQ!BuryJob(worker[w].job_id)
        /\ PostponeJob(worker[w].job_id) => JQ!PostponeJob(worker[w].job_id)
    BY DEF BuryJob, JQ!BuryJob, PostponeJob, JQ!PostponeJob, RowsOf, JQ!RowsOf,
           Buried, JQ!Buried, Postponed, JQ!Postponed
  <2>4. JQ!FailDecide(w)
    BY <1>3, <2>1, <2>2, <2>3 DEF JQ!FailDecide, FailDecide
  <2> QED
    BY <2>4
<1> QED
  BY <1>1, <1>2, <1>3 DEF FailSelect

\* A database error within the job is one the consumer goes on from; one of
\* the last ack, and a crash, end it.
LEMMA FaultUses ==
  ASSUME UseInv, NEW w \in Workers, DbError(w) \/ Crash(w), UNCHANGED history
  PROVE  JQ!Throws(w) \/ JQ!Crash(w)
<1>1. /\ UNCHANGED <<job_queue, job_dlq, last_job_id, lease, acked, canceled>>
      /\ faults < MaxFaults /\ faults' = faults + 1 /\ Busy(w)
  BY DEF DbError, Crash, history, jobVars, Busy
<1>2. CASE Rest(w)
  <2>1. /\ WorkersAsConsumers' = [WorkersAsConsumers EXCEPT ![w] = JQ!Idle]
        /\ WorkersAsConsumers[w].pc # "idle"
    BY <1>1, <1>2, RestIs, ConsumerIs
  <2> QED
    BY <1>1, <2>1 DEF JQ!Crash
<1>3. CASE ~Rest(w)
  <2>1. DbError(w) /\ (Goto(w, "error") \/ Goto(w, "recorded"))
    BY <1>3 DEF DbError, Crash
  <2>2. worker'[w].pc \in {"error", "recorded"}
    BY <2>1 DEF Goto, UseInv, TypeInv, Typed, WorkerTypeOK, WorkerState
  <2>3. Advances(w)
    BY <1>3, <2>1, StepAdvances DEF UseInv, TypeInv
  <2>4. WorkersAsConsumers' = [WorkersAsConsumers EXCEPT ![w].pc = "working", ![w].read = 0]
    BY <1>1, <2>2, <2>3, WorkIs
  <2>5. WorkersAsConsumers[w].pc # "idle"
    BY <1>1, <2>2, <2>3, WorkIs, ConsumerIs
  <2> QED
    BY <1>1, <2>4, <2>5 DEF JQ!Throws
<1> QED
  BY <1>2, <1>3

\* The statements on the policy tables leave the queue as it is.
LEMMA StoreStepUses ==
  ASSUME UseInv, NEW w \in Workers, UNCHANGED <<lease, acked, canceled>>,
         \/ BeginRun(w) \/ ClearMoves(w) \/ WriteMove(w) \/ WriteConflict(w)
         \/ MarkSuccess(w) \/ SolveThrows(w) \/ RecordError(w)
  PROVE  UNCHANGED JQ!vars
<1>1. UNCHANGED <<job_queue, job_dlq, last_job_id, faults>> /\ worker[w].pc # "deciding"
  <2>1. UNCHANGED <<jobVars, faults>>
    BY DEF BeginRun, ClearMoves, WriteMove, WriteConflict, MarkSuccess, SolveThrows, RecordError
  <2>2. worker[w].pc # "deciding"
    BY DEF BeginRun, ClearMoves, WriteMove, WriteConflict, MarkSuccess, SolveThrows, RecordError
  <2> QED
    BY <2>1, <2>2 DEF jobVars
<1>2. worker'[w].pc \notin {"idle", "deciding"}
  <2>1. worker \in [Workers -> WorkerState]
    BY DEF UseInv, TypeInv, Typed, WorkerTypeOK
  <2>2. ASSUME NEW o, worker' = [worker EXCEPT ![w].pc = "begun",
                                   ![w].spec = o.spec, ![w].moves = o.moves,
                                   ![w].run_id = RunIdFor(worker[w].key, o.spec)]
        PROVE  worker'[w].pc = "begun"
    BY <2>1, <2>2 DEF WorkerState
  <2>3. BeginRun(w) => worker'[w].pc = "begun"
    BY <2>2 DEF BeginRun
  <2>4. ClearMoves(w) \/ WriteMove(w) => worker'[w].pc = "inserting"
    BY <2>1 DEF ClearMoves, WriteMove, WorkerState
  <2>5. WriteConflict(w) \/ SolveThrows(w) => worker'[w].pc = "error"
    BY <2>1 DEF WriteConflict, SolveThrows, Goto, WorkerState
  <2>6. MarkSuccess(w) \/ RecordError(w) => worker'[w].pc \in {"marked", "recorded"}
    BY <2>1 DEF MarkSuccess, RecordError, Goto, WorkerState
  <2> QED
    BY <2>3, <2>4, <2>5, <2>6
<1>3. Advances(w)
  BY <1>2, StepAdvances DEF UseInv, TypeInv, Rest, Resting, Fresh, Typed, WorkerTypeOK
<1>4. WorkersAsConsumers' = WorkersAsConsumers
  BY <1>1, <1>2, <1>3, WorkIs
<1> QED
  BY <1>1, <1>4 DEF JQ!vars

\* A request enqueues, cancels, or leaves the queue as it is.
LEMMA RequestUses ==
  ASSUME UseInv, NEW q \in Requests, HRequest(q) PROVE [JQ!Next]_(JQ!vars)
<1>1. /\ UNCHANGED <<worker, faults, lease, acked>>
      /\ WorkersAsConsumers' = WorkersAsConsumers
  BY DEF HRequest, RequestNext, workerVars, WorkersAsConsumers, Consumer
<1>2. CASE EnqueueRun(q)
  <2>1. request[q].key \in Keys /\ ~Canceling(q)
    BY <1>2 DEF EnqueueRun, UseInv, TypeInv, RequestsTyped, OpsAsked, Canceling
  <2>2. JQ!InsertJob(request[q].key)
    BY <1>2 DEF EnqueueRun, InsertJob, JQ!InsertJob, Pending, JQ!Pending, NewRow, JQ!NewRow
  <2>3. canceled' = canceled
    BY <2>1 DEF HRequest
  <2> QED
    BY <1>1, <2>1, <2>2, <2>3 DEF JQ!Next, JQ!Enqueue
<1>3. CASE CancelRun(q)
  <2>1. request[q].key \in Keys /\ Canceling(q)
    BY <1>3 DEF CancelRun, UseInv, TypeInv, RequestsTyped, OpsAsked, Canceling
  <2>2. JQ!DeleteKey(request[q].key)
    BY <1>3 DEF CancelRun, DeleteKey, JQ!DeleteKey, Pending, JQ!Pending
  <2>3. canceled' = canceled \cup {r.job_id : r \in JQ!Pending(request[q].key)}
    BY <2>1 DEF HRequest, IdsOf, Pending, JQ!Pending
  <2> QED
    BY <1>1, <2>1, <2>2, <2>3 DEF JQ!Next, JQ!CancelByDedupeKey
<1>4. CASE ~EnqueueRun(q) /\ ~CancelRun(q)
  <2>1. UNCHANGED jobVars /\ ~Canceling(q)
    BY <1>4 DEF HRequest, RequestNext, Look, ListMoves, StatusPending, CheckPending,
                EnqueueThrows, Canceling
  <2> QED
    BY <1>1, <2>1 DEF JQ!vars, jobVars, HRequest
<1> QED
  BY <1>2, <1>3, <1>4

\* Every step of the pipeline is a step of the queue, or none.
LEMMA StepUses ==
  ASSUME UseInv, [HNext]_<<vars, history>> PROVE [JQ!Next]_(JQ!vars)
<1>1. ASSUME NEW w \in Workers, HClaim(w) PROVE [JQ!Next]_(JQ!vars)
  BY <1>1, ClaimUses DEF JQ!Next, HClaim, ClaimJob
<1>2. ASSUME NEW w \in Workers, HWork(w) PROVE [JQ!Next]_(JQ!vars)
  <2>1. CASE AckJob(w) \/ AckFailed(w)
    BY <1>2, <2>1, AckUses DEF JQ!Next
  <2>2. CASE ~AckJob(w) /\ ~AckFailed(w)
    <3>1. ~Acking(w)
      BY <1>2, <2>2 DEF Acking, HWork, WorkerStep, FailSelect, FailDecide, BeginRun, ClearMoves,
                        WriteMove, WriteConflict, MarkSuccess, SolveThrows, RecordError
    <3>2. UNCHANGED <<lease, acked, canceled>>
      BY <1>2, <3>1 DEF HWork
    <3>3. CASE FailSelect(w) \/ FailDecide(w)
      BY <3>2, <3>3, FailUses DEF JQ!Next
    <3>4. CASE ~FailSelect(w) /\ ~FailDecide(w)
      BY <1>2, <2>2, <3>2, <3>4, StoreStepUses DEF HWork, WorkerStep
    <3> QED
      BY <3>3, <3>4
  <2> QED
    BY <2>1, <2>2
<1>3. ASSUME NEW w \in Workers, DbError(w) \/ Crash(w), UNCHANGED history
      PROVE  [JQ!Next]_(JQ!vars)
  BY <1>3, FaultUses DEF JQ!Next
<1>4. CASE LeaseEnds /\ UNCHANGED history
  <2>1. JQ!VisibleAgain
    BY <1>4 DEF LeaseEnds, Reappear, JQ!VisibleAgain, JQ!Reappear, history, workerVars,
                WorkersAsConsumers, Consumer
  <2> QED
    BY <2>1 DEF JQ!Next
<1>5. CASE UNCHANGED <<vars, history>>
  BY <1>5 DEF vars, history, JQ!vars, WorkersAsConsumers, Consumer
<1> QED
  BY <1>1, <1>2, <1>3, <1>4, <1>5, RequestUses DEF HNext

\* The workers and the routes are producers and consumers as JobQueue has
\* them, for every number of them and with every fault.
THEOREM PipelineUses == HSpec => PipelineUsesQueue
<1>1. HInit => UseInv
  BY InitType DEF HInit, UseInv, RowsDistinct, IdsIssued, LeaseTyped, Init, JobInit
<1>2. HInit => JQ!Init
  BY DEF HInit, Init, JobInit, JQ!Init, JQ!JobInit, WorkerInit, WorkersAsConsumers, Consumer,
         JQ!Idle, Resting, Fresh
<1>3. UseInv /\ [HNext]_<<vars, history>> => UseInv'
  BY UseKept
<1>4. UseInv /\ [HNext]_<<vars, history>> => [JQ!Next]_(JQ!vars)
  BY StepUses
<1> QED
  BY <1>1, <1>2, <1>3, <1>4, PTL DEF HSpec, PipelineUsesQueue, JQ!Spec

=============================================================================
