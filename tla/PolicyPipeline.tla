---------------------------- MODULE PolicyPipeline ----------------------------
(***************************************************************************)
(* The policy pipeline: the /api/policy handlers                           *)
(* (packages/api/src/http/policy.ts) over the job queue, the workers and   *)
(* the policy tables.  A handler awaits between its reads and its write,   *)
(* so every one of its statements is a step of its own.  The checks before *)
(* the first read (parameters, token, allowlist, snapshot precondition)    *)
(* touch no state modelled here: a request here has passed them.           *)
(***************************************************************************)
EXTENDS PolicyWorker

CONSTANTS Requests,  \* clients, each with one request in flight
          Ops        \* the routes they use

Routes == {"run", "moves", "status", "cancel"}

ASSUME PipelineAssumption == Ops \subseteq Routes

VARIABLE request

vars == <<job_queue, job_dlq, last_job_id, policy_runs, policy_moves,
          last_run_id, worker, faults, concluded, request>>

Answers == {"none", "policy_run_failed", "ready", "pending",
            "policy_worker_unavailable", "policy_run_not_found",
            "policy_run_already_completed", "canceled"}

\* A request that has read no moves.
Asked(pc, op, k, id, answer, reason) ==
  [pc |-> pc, op |-> op, key |-> k, run_id |-> id,
   answer |-> answer, reason |-> reason, moves |-> {}]

NoRequest == Asked("idle", "run", NoKey, 0, "none", "none")

RequestState ==
  [pc : {"idle", "no_run", "enqueueing", "listing", "answered"},
   op : Routes, key : Keys \cup {NoKey},
   run_id : Nat,           \* of the run summary that was read
   answer : Answers,
   reason : Reasons,       \* the error_reason a policy_run_failed quotes
   moves : SUBSET MoveRow] \* the moves of a ready answer to /moves

TypeOK == /\ JobTypeOK /\ StoreTypeOK /\ WorkerTypeOK
          /\ request \in [Requests -> RequestState]

Init == JobInit /\ StoreInit /\ WorkerInit
        /\ request = [q \in Requests |-> NoRequest]

Answer(q, answer) ==
  request' = [request EXCEPT ![q].pc = "answered", ![q].answer = answer]

------------------------------------------------------------------------------

\* What the route makes of the run it found.
Found(op, k, run) ==
  IF run.status # "success"
    THEN Asked("answered", op, k, run.run_id, "policy_run_failed", run.error_reason)
  ELSE IF op = "moves"
    THEN Asked("listing", op, k, run.run_id, "none", "none")
  ELSE Asked("answered", op, k, run.run_id,
             IF op = "cancel" THEN "policy_run_already_completed" ELSE "ready",
             "none")

\* getRunSummary and what follows from it without another statement.
Look(q) ==
  /\ request[q].pc \in {"idle", "answered"}
  /\ \E op \in Ops, k \in Keys :
       \/ /\ LatestRun(k) = {}
          /\ request' = [request EXCEPT ![q] =
                           Asked("no_run", op, k, 0, "none", "none")]
       \/ \E run \in LatestRun(k) :
            request' = [request EXCEPT ![q] = Found(op, k, run)]
  /\ UNCHANGED jobVars

\* /moves: listMoves, after the summary said success.
ListMoves(q) ==
  /\ request[q].pc = "listing"
  /\ request' = [request EXCEPT ![q].pc = "answered", ![q].answer = "ready",
                                ![q].moves = MovesOf(request[q].run_id)]
  /\ UNCHANGED jobVars

\* /status without a run: getPendingByDedupeKey.  Whether a pending job is
\* older than pending_timeout_ms is left open.
StatusPending(q) ==
  /\ request[q].pc = "no_run" /\ request[q].op = "status"
  /\ \/ /\ Pending(request[q].key) # {}
        /\ \E a \in {"pending", "policy_worker_unavailable"} : Answer(q, a)
     \/ Pending(request[q].key) = {} /\ Answer(q, "policy_run_not_found")
  /\ UNCHANGED jobVars

\* /run and /moves without a run: getPendingByDedupeKey.
CheckPending(q) ==
  /\ request[q].pc = "no_run" /\ request[q].op \in {"run", "moves"}
  /\ \/ /\ Pending(request[q].key) # {}
        /\ Answer(q, "policy_worker_unavailable")
     \/ request' = [request EXCEPT ![q].pc = "enqueueing"]
  /\ UNCHANGED jobVars

\* ... and, unless that job had timed out, enqueue.
EnqueueRun(q) ==
  /\ request[q].pc = "enqueueing"
  /\ InsertJob(request[q].key)
  /\ Answer(q, "pending")

\* The INSERT throws, and with it the handler: the client gets no answer.
EnqueueThrows(q) ==
  /\ request[q].pc = "enqueueing"
  /\ request' = [request EXCEPT ![q] = NoRequest]
  /\ UNCHANGED jobVars

\* /cancel without a run: cancelByDedupeKey.
CancelRun(q) ==
  /\ request[q].pc = "no_run" /\ request[q].op = "cancel"
  /\ DeleteKey(request[q].key)
  /\ Answer(q, IF Pending(request[q].key) # {} THEN "canceled"
               ELSE "policy_run_not_found")

\* The routes read the policy tables and write the queue.
RequestNext(q) ==
  /\ \/ Look(q) \/ ListMoves(q) \/ StatusPending(q) \/ CheckPending(q)
     \/ EnqueueRun(q) \/ EnqueueThrows(q) \/ CancelRun(q)
  /\ UNCHANGED <<storeVars, workerVars>>

Next == \/ WorkerNext /\ UNCHANGED request
        \/ \E q \in Requests : RequestNext(q)

Spec == Init /\ [][Next]_vars

\* Workers poll and make progress, and the clock runs; faults, and requests
\* once answered, are not obliged to happen.
Fairness ==
  /\ WF_vars(LeaseEnds /\ UNCHANGED request)
  /\ \A w \in Workers : /\ WF_vars(ClaimJob(w) /\ UNCHANGED request)
                        /\ WF_vars(WorkerStep(w) /\ UNCHANGED request)

FairSpec == Spec /\ Fairness

------------------------------------------------------------------------------

Writing(w) == worker[w].pc \in {"begun", "inserting", "marked"}

\* No two workers write the outcome of one run key at a time.  This is what
\* the queue's lease and dedupe key are for: it needs leases that outlast their
\* workers (no "overrun") and no /cancel, which frees the key of a leased job.
SoleWriter ==
  \A v, w \in Workers :
    Writing(v) /\ Writing(w) /\ worker[v].key = worker[w].key => v = w

\* The rows of a run are the moves of one solution, whole.
HoldsOutcome(r) ==
  \E o \in Outcomes : /\ o.spec = r.spec
                      /\ MovesOf(r.run_id) = RowsFor(r.run_id, o.moves)
                      /\ r.no_op = NoOp(o.moves)

\* A run whose status is success holds exactly the moves of one solution,
\* although they are written row by row outside any transaction and earlier
\* attempts may have died half way.
ReadyRunIsWhole ==
  \A r \in policy_runs : r.status = "success" => HoldsOutcome(r)

\* A run the API reports as persisting_moves is not abandoned: a worker is
\* writing it, or a job of its key is in the queue to have it written again.
PersistingRunIsBacked ==
  \A k \in Keys : \A r \in LatestRun(k) : r.error_reason = "persisting_moves" =>
    \/ Pending(r.key) # {}
    \/ \E w \in Workers : /\ worker[w].pc \in {"begun", "inserting"}
                          /\ worker[w].run_id = r.run_id

\* A worker acks a job only when a run of its key is on record, whatever
\* crashes, overruns and cancellations there were: no accepted request
\* disappears without an outcome the API can report.
AckedHasOutcome == \A k \in concluded : RunsOf(k) # {}

\* A queued job comes to an end: a run that is not being persisted any more
\* becomes the latest of its key, or the job is in the DLQ.
Settled(k) == \/ \E r \in LatestRun(k) : r.error_reason # "persisting_moves"
              \/ \E d \in job_dlq : d.key = k
JobsConclude == \A k \in Keys : Pending(k) # {} ~> Settled(k)

=============================================================================
