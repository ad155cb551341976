---------------------------- MODULE PipelineQueue ----------------------------
(***************************************************************************)
(* The policy pipeline as a use of the job queue.  JobQueue lets consumers *)
(* do with a claimed job whatever PgJobQueue offers, at any time; here the *)
(* worker and the routes of the program are shown to do nothing else, so   *)
(* that what holds of JobQueue holds of the program.  History variables    *)
(* note what JobQueue remembers of a job and the program does not: how it  *)
(* left the queue, and which of its attempts a worker was given.           *)
(***************************************************************************)
EXTENDS PolicyPipeline

VARIABLES lease,            \* the attempts claim() returned to each worker
          acked, canceled   \* the ids whose rows were acked and canceled

history == <<lease, acked, canceled>>

IdsOf(S) == {r.job_id : r \in S}

HInit == /\ Init
         /\ lease = [w \in Workers |-> 0]
         /\ acked = {} /\ canceled = {}

\* The main loop passes the id and the payload on, and drops the attempts.
HClaim(w) ==
  /\ ClaimJob(w)
  /\ \E r \in RowsOf(worker'[w].job_id) : lease' = [lease EXCEPT ![w] = r.attempts + 1]
  /\ UNCHANGED <<acked, canceled>>

\* The only step of a worker at these places is its ack.
Acking(w) == worker[w].pc \in {"marked", "recorded"}

HWork(w) ==
  /\ WorkerStep(w)
  /\ acked' = acked \cup (IF Acking(w) THEN IdsOf(RowsOf(worker[w].job_id)) ELSE {})
  /\ UNCHANGED <<lease, canceled>>

\* The only step of a request at this place is its DELETE.
Canceling(q) == request[q].pc = "no_run" /\ request[q].op = "cancel"

HRequest(q) ==
  /\ RequestNext(q)
  /\ canceled' = canceled \cup
       (IF Canceling(q) THEN IdsOf(Pending(request[q].key)) ELSE {})
  /\ UNCHANGED <<lease, acked>>

HNext == \/ \E w \in Workers : (HClaim(w) \/ HWork(w)) /\ UNCHANGED request
         \/ /\ \/ \E w \in Workers : DbError(w) \/ Crash(w)
               \/ LeaseEnds
            /\ UNCHANGED <<request, history>>
         \/ \E q \in Requests : HRequest(q)

HSpec == HInit /\ [][HNext]_<<vars, history>>

------------------------------------------------------------------------------

\* What JobQueue sees of a worker: whether it has a job, and whether it is
\* between the statements of fail().
Consumer(w) ==
  IF worker[w].pc = "idle"
    THEN [pc |-> "idle", job_id |-> 0, attempts |-> 0, read |-> 0]
  ELSE IF worker[w].pc = "deciding"
    THEN [pc |-> "deciding", job_id |-> worker[w].job_id,
          attempts |-> lease[w], read |-> worker[w].read]
  ELSE [pc |-> "working", job_id |-> worker[w].job_id,
        attempts |-> lease[w], read |-> 0]

WorkersAsConsumers == [w \in Workers |-> Consumer(w)]

JQ == INSTANCE JobQueue WITH Consumers <- Workers, consumer <- WorkersAsConsumers

\* The worker and the routes use the queue as JobQueue says it can be used:
\* whatever crashes, exceptions, overrun leases and cancellations there are,
\* every step of the pipeline is one of the queue, its producers and its
\* consumers, or leaves the queue and the leases as they are.
PipelineUsesQueue == JQ!Spec

=============================================================================
