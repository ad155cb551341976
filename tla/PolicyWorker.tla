----------------------------- MODULE PolicyWorker -----------------------------
(***************************************************************************)
(* Policy workers (packages/api/src/policy/worker.ts): each claims one job *)
(* at a time, solves it and writes the outcome, statement by statement:    *)
(* the run as failed with reason persisting_moves, its moves one by one,   *)
(* the run as a success, and the ack.  An exception anywhere is recorded   *)
(* as a run of its own and the job is acked all the same.                  *)
(*                                                                         *)
(* What can go wrong around them is chosen by the constant Faults:         *)
(*   "crash"     the process stops and forgets what it was doing;          *)
(*   "throw"     reading the stations or solving throws;                   *)
(*   "db_error"  a statement throws and has no effect;                     *)
(*   "overrun"   a lease ends while its worker is still at work (the       *)
(*               visibility timeout is 60 s and nothing renews it).        *)
(***************************************************************************)
EXTENDS JobTable, PolicyStore

CONSTANTS Workers,
          NoKey,       \* the key of a worker or request that has none
          Supported,   \* run keys whose policy_version the worker implements
          Outcomes,    \* what solving may yield: a spec and a list of moves
          Faults,
          MaxFaults    \* bound of the model: crashes and database errors

ASSUME PolicyWorkerAssumption ==
  /\ NoKey \notin Keys
  /\ Supported \subseteq Keys
  /\ \A o \in Outcomes : o.spec \in Specs /\ o.moves \in Seq(Moves)
  /\ ErrorSpec \notin Specs
  /\ Faults \subseteq {"crash", "throw", "db_error", "overrun"}
  /\ MaxFaults \in Nat

VARIABLES worker,      \* what each worker process holds in memory
          faults,      \* crashes and database errors so far
          concluded    \* history: the keys whose job some worker acked

workerVars == <<worker, faults, concluded>>

\* A worker that has written and read nothing of its job yet.
Fresh(pc, id, k) ==
  [pc |-> pc, job_id |-> id, key |-> k, spec |-> ErrorSpec, moves |-> <<>>,
   run_id |-> 0, next |-> 0, read |-> 0]

Resting == Fresh("idle", 0, NoKey)

WorkerState ==
  [pc : {"idle", "claimed", "deciding", "begun", "inserting", "marked",
         "error", "recorded"},
   job_id : Nat,
   key : Keys \cup {NoKey},
   spec : Specs \cup {ErrorSpec},   \* of the outcome being written
   moves : Seq(Moves),
   run_id : Nat,                    \* what the first upsert returned
   next : Nat,                      \* rank of the next move to insert
   read : Nat]                      \* attempts, as fail() selected them

WorkerTypeOK == /\ worker \in [Workers -> WorkerState]
                /\ faults \in Nat
                /\ concluded \subseteq Keys

WorkerInit == /\ worker = [w \in Workers |-> Resting]
              /\ faults = 0
              /\ concluded = {}

NoOp(moves) == IF Len(moves) = 0 THEN "yes" ELSE "no"

Goto(w, pc) == worker' = [worker EXCEPT ![w].pc = pc]
Rest(w) == worker' = [worker EXCEPT ![w] = Resting]

------------------------------------------------------------------------------

ClaimJob(w) ==
  /\ worker[w].pc = "idle"
  /\ \E r \in job_queue :
       /\ ClaimRow(r)
       /\ worker' = [worker EXCEPT ![w] =
            Fresh("claimed", r.job_id, r.key)]
  /\ UNCHANGED <<storeVars, faults, concluded>>

\* A policy_version the worker does not implement: queue.fail(), its SELECT.
FailSelect(w) ==
  /\ worker[w].pc = "claimed" /\ worker[w].key \notin Supported
  /\ \/ RowsOf(worker[w].job_id) = {} /\ Rest(w)
     \/ \E r \in RowsOf(worker[w].job_id) :
          worker' = [worker EXCEPT ![w].pc = "deciding",
                                   ![w].read = r.attempts]
  /\ UNCHANGED <<jobVars, storeVars, faults, concluded>>

\* queue.fail(), its write; the job is neither acked nor recorded.
FailDecide(w) ==
  /\ worker[w].pc = "deciding"
  /\ IF worker[w].read >= MaxAttempts THEN BuryJob(worker[w].job_id)
                                      ELSE PostponeJob(worker[w].job_id)
  /\ Rest(w)
  /\ UNCHANGED <<storeVars, faults, concluded>>

\* Mutant: the job is acked as soon as its run is on record.
MutBeginRunAcks(w) ==
  /\ worker[w].pc = "claimed" /\ worker[w].key \in Supported
  /\ \E o \in Outcomes :
       /\ UpsertRun(worker[w].key, o.spec, "fail", "persisting_moves", "no")
       /\ worker' = [worker EXCEPT ![w].pc = "begun",
                                   ![w].spec = o.spec, ![w].moves = o.moves,
                                   ![w].run_id = RunIdFor(worker[w].key, o.spec)]
  /\ DeleteJob(worker[w].job_id)
  /\ UNCHANGED <<faults, concluded>>

\* Stations and edges are read, the solver runs, its fallbacks run while it
\* yields nothing, and the run is upserted as failed for as long as its moves
\* are being written.  What is read may differ from one attempt to the next,
\* and with it the outcome, down to the spec that produced it.
BeginRun(w) ==
  /\ worker[w].pc = "claimed" /\ worker[w].key \in Supported
  /\ \E o \in Outcomes :
       /\ UpsertRun(worker[w].key, o.spec, "fail", "persisting_moves", "no")
       /\ worker' = [worker EXCEPT ![w].pc = "begun",
                                   ![w].spec = o.spec, ![w].moves = o.moves,
                                   ![w].run_id = RunIdFor(worker[w].key, o.spec)]
  /\ UNCHANGED <<jobVars, faults, concluded>>

ClearMoves(w) ==
  /\ worker[w].pc = "begun"
  /\ DeleteMoves(worker[w].run_id)
  /\ worker' = [worker EXCEPT ![w].pc = "inserting", ![w].next = 1]
  /\ UNCHANGED <<jobVars, faults, concluded>>

WriteMove(w) ==
  /\ worker[w].pc = "inserting" /\ worker[w].next <= Len(worker[w].moves)
  /\ InsertMove(worker[w].run_id, worker[w].next,
                worker[w].moves[worker[w].next])
  /\ worker' = [worker EXCEPT ![w].next = @ + 1]
  /\ UNCHANGED <<jobVars, faults, concluded>>

\* Another worker has written this rank of the run: the INSERT throws.
WriteConflict(w) ==
  /\ worker[w].pc = "inserting" /\ worker[w].next <= Len(worker[w].moves)
  /\ RankTaken(worker[w].run_id, worker[w].next)
  /\ Goto(w, "error")
  /\ UNCHANGED <<jobVars, storeVars, faults, concluded>>

MarkSuccess(w) ==
  /\ worker[w].pc = "inserting" /\ worker[w].next > Len(worker[w].moves)
  /\ UpsertRun(worker[w].key, worker[w].spec, "success", "none",
               NoOp(worker[w].moves))
  /\ Goto(w, "marked")
  /\ UNCHANGED <<jobVars, faults, concluded>>

AckJob(w) ==
  /\ worker[w].pc = "marked"
  /\ DeleteJob(worker[w].job_id)
  /\ concluded' = concluded \cup {worker[w].key}
  /\ Rest(w)
  /\ UNCHANGED <<storeVars, faults>>

\* Reading or solving throws.
SolveThrows(w) ==
  /\ "throw" \in Faults
  /\ worker[w].pc = "claimed" /\ worker[w].key \in Supported
  /\ Goto(w, "error")
  /\ UNCHANGED <<jobVars, storeVars, faults, concluded>>

\* Mutant: the failure is not recorded at all.
MutRecordErrorSkipped(w) ==
  /\ worker[w].pc = "error"
  /\ Goto(w, "recorded")
  /\ UNCHANGED <<jobVars, storeVars, faults, concluded>>

\* The catch block: the failure becomes a run under a spec of its own.
RecordError(w) ==
  /\ worker[w].pc = "error"
  /\ UpsertRun(worker[w].key, ErrorSpec, "fail", "job_error", "yes")
  /\ Goto(w, "recorded")
  /\ UNCHANGED <<jobVars, faults, concluded>>

AckFailed(w) ==
  /\ worker[w].pc = "recorded"
  /\ DeleteJob(worker[w].job_id)
  /\ concluded' = concluded \cup {worker[w].key}
  /\ Rest(w)
  /\ UNCHANGED <<storeVars, faults>>

\* A statement throws: inside the job the catch block runs; there, a failure
\* to record is logged and the ack still made, a failed ack only logged.
DbError(w) ==
  /\ "db_error" \in Faults /\ faults < MaxFaults
  /\ faults' = faults + 1
  /\ \/ /\ worker[w].pc \in {"claimed", "deciding", "begun", "inserting",
                              "marked"}
        /\ Goto(w, "error")
     \/ worker[w].pc = "error" /\ Goto(w, "recorded")
     \/ worker[w].pc = "recorded" /\ Rest(w)
  /\ UNCHANGED <<jobVars, storeVars, concluded>>

Crash(w) ==
  /\ "crash" \in Faults /\ faults < MaxFaults
  /\ worker[w].pc # "idle"
  /\ faults' = faults + 1
  /\ Rest(w)
  /\ UNCHANGED <<jobVars, storeVars, concluded>>

Holders(id) == {w \in Workers : worker[w].pc # "idle" /\ worker[w].job_id = id}

\* Mutant: a lease can end under its worker whatever the timeout.
MutLeaseEndsAnyTime ==
  /\ \E r \in job_queue : Reappear(r)
  /\ UNCHANGED <<storeVars, workerVars>>

\* visible_at passes: after a crash, a retry delay or a lost ack, and, with
\* "overrun", under a worker that is still writing.
LeaseEnds ==
  /\ \E r \in job_queue :
       /\ Reappear(r)
       /\ Holders(r.job_id) = {} \/ "overrun" \in Faults
  /\ UNCHANGED <<storeVars, workerVars>>

WorkerStep(w) ==
  \/ FailSelect(w) \/ FailDecide(w)
  \/ BeginRun(w) \/ ClearMoves(w) \/ WriteMove(w) \/ WriteConflict(w)
  \/ MarkSuccess(w) \/ AckJob(w)
  \/ SolveThrows(w) \/ RecordError(w) \/ AckFailed(w)

WorkerNext == \/ \E w \in Workers : \/ ClaimJob(w) \/ WorkerStep(w)
                                    \/ DbError(w) \/ Crash(w)
              \/ LeaseEnds

=============================================================================
