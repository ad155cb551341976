------------------------------- MODULE JobQueue -------------------------------
(***************************************************************************)
(* PgJobQueue under concurrent use (packages/api/src/jobs/queue.ts):       *)
(* producers enqueue and cancel by key; consumers claim a job, work on it  *)
(* and then ack or fail it.  A lease may end while its consumer is still   *)
(* at work, so two consumers can hold one job, and a consumer may crash.   *)
(* fail() is two statements, a SELECT and the write decided from it, and   *)
(* other statements may run between them.                                  *)
(***************************************************************************)
EXTENDS JobTable

CONSTANTS Consumers,
          MaxFaults    \* bound of the model: crashes and statements that throw

ASSUME JobQueueAssumption == IsFiniteSet(Consumers) /\ MaxFaults \in Nat

VARIABLES consumer,     \* what each consumer has in hand
          faults,       \* crashes and statements that threw so far
          acked, canceled  \* history: the ids acked and canceled

vars == <<job_queue, job_dlq, last_job_id, consumer, faults, acked, canceled>>

Idle == [pc |-> "idle", job_id |-> 0, attempts |-> 0, read |-> 0]

ConsumerState == [pc : {"idle", "working", "deciding"},
                  job_id : Nat,     \* the job claimed
                  attempts : Nat,   \* its attempts as claim() returned them
                  read : Nat]       \* its attempts as fail() selected them

TypeOK == /\ JobTypeOK
          /\ consumer \in [Consumers -> ConsumerState]
          /\ faults \in Nat
          /\ acked \subseteq Nat
          /\ canceled \subseteq Nat

Init == /\ JobInit
        /\ consumer = [c \in Consumers |-> Idle]
        /\ faults = 0
        /\ acked = {} /\ canceled = {}

------------------------------------------------------------------------------

Enqueue(k) == InsertJob(k) /\ UNCHANGED <<consumer, faults, acked, canceled>>

CancelByDedupeKey(k) ==
  /\ DeleteKey(k)
  /\ canceled' = canceled \cup {r.job_id : r \in Pending(k)}
  /\ UNCHANGED <<consumer, faults, acked>>

Claim(c) ==
  /\ consumer[c].pc = "idle"
  /\ \E r \in job_queue :
       /\ ClaimRow(r)
       /\ consumer' = [consumer EXCEPT ![c] =
            [pc |-> "working", job_id |-> r.job_id,
             attempts |-> r.attempts + 1, read |-> 0]]
  /\ UNCHANGED <<faults, acked, canceled>>

Ack(c) ==
  /\ consumer[c].pc = "working"
  /\ DeleteJob(consumer[c].job_id)
  /\ acked' = acked \cup {r.job_id : r \in RowsOf(consumer[c].job_id)}
  /\ consumer' = [consumer EXCEPT ![c] = Idle]
  /\ UNCHANGED <<faults, canceled>>

\* Mutant: fail() goes on when its SELECT finds no row.
MutFailSelectMissing(c) ==
  /\ consumer[c].pc = "working"
  /\ consumer' = [consumer EXCEPT ![c].pc = "deciding", ![c].read =
       IF RowsOf(consumer[c].job_id) = {} THEN -1 ELSE consumer[c].attempts]
  /\ UNCHANGED <<job_queue, job_dlq, last_job_id, faults, acked, canceled>>

\* fail(), first statement: SELECT attempts, max_attempts.
FailSelect(c) ==
  /\ consumer[c].pc = "working"
  /\ \/ /\ RowsOf(consumer[c].job_id) = {}
        /\ consumer' = [consumer EXCEPT ![c] = Idle]
     \/ \E r \in RowsOf(consumer[c].job_id) :
          consumer' = [consumer EXCEPT ![c].pc = "deciding",
                                       ![c].read = r.attempts]
  /\ UNCHANGED <<job_queue, job_dlq, last_job_id, faults, acked, canceled>>

\* Mutant: one delivery more than max_attempts is allowed.
MutFailDecideLate(c) ==
  /\ consumer[c].pc = "deciding"
  /\ IF consumer[c].read > MaxAttempts
       THEN BuryJob(consumer[c].job_id)
       ELSE PostponeJob(consumer[c].job_id)
  /\ consumer' = [consumer EXCEPT ![c] = Idle]
  /\ UNCHANGED <<faults, acked, canceled>>

\* Mutant: the last attempt is given up before it was made.
MutFailDecideEarly(c) ==
  /\ consumer[c].pc = "deciding"
  /\ IF consumer[c].read >= MaxAttempts - 1
       THEN BuryJob(consumer[c].job_id)
       ELSE PostponeJob(consumer[c].job_id)
  /\ consumer' = [consumer EXCEPT ![c] = Idle]
  /\ UNCHANGED <<faults, acked, canceled>>

\* fail(), second statement: the DLQ or a retry, as the SELECT decided.
FailDecide(c) ==
  /\ consumer[c].pc = "deciding"
  /\ IF consumer[c].read >= MaxAttempts
       THEN BuryJob(consumer[c].job_id)
       ELSE PostponeJob(consumer[c].job_id)
  /\ consumer' = [consumer EXCEPT ![c] = Idle]
  /\ UNCHANGED <<faults, acked, canceled>>

\* A statement of the job, or of fail() itself, throws and has no effect: the
\* consumer still has the job in hand, and the worker's catch block acks it.
Throws(c) ==
  /\ consumer[c].pc # "idle"
  /\ faults < MaxFaults
  /\ faults' = faults + 1
  /\ consumer' = [consumer EXCEPT ![c].pc = "working", ![c].read = 0]
  /\ UNCHANGED <<job_queue, job_dlq, last_job_id, acked, canceled>>

\* The process stops, or its ack throws, which the worker only logs: the row
\* stays as it is.
Crash(c) ==
  /\ consumer[c].pc # "idle"
  /\ faults < MaxFaults
  /\ faults' = faults + 1
  /\ consumer' = [consumer EXCEPT ![c] = Idle]
  /\ UNCHANGED <<job_queue, job_dlq, last_job_id, acked, canceled>>

VisibleAgain ==
  /\ \E r \in job_queue : Reappear(r)
  /\ UNCHANGED <<consumer, faults, acked, canceled>>

Next == \/ \E k \in Keys : Enqueue(k) \/ CancelByDedupeKey(k)
        \/ \E c \in Consumers : \/ Claim(c) \/ Ack(c) \/ FailSelect(c)
                                \/ FailDecide(c) \/ Throws(c) \/ Crash(c)
        \/ VisibleAgain

Spec == Init /\ [][Next]_vars

\* A consumer polls for ever and finishes what it claimed, well or badly, and
\* the clock runs.  Nothing obliges producers to act or statements to throw.
Fairness == /\ WF_vars(VisibleAgain)
            /\ \A c \in Consumers : /\ WF_vars(Claim(c))
                                    /\ WF_vars(Ack(c) \/ FailSelect(c))
                                    /\ WF_vars(FailDecide(c))

FairSpec == Spec /\ Fairness

------------------------------------------------------------------------------

Ids(S) == {r.job_id : r \in S}

\* Every job_id ever issued is in exactly one place: the queue, the DLQ, or
\* among the acked or the canceled.  No interleaving of a stale consumer's ack
\* or fail with a newer claim loses a job, doubles it or leaves it in both tables.
JobsConserved ==
  /\ Ids(job_queue) \cup Ids(job_dlq) \cup acked \cup canceled = 1..last_job_id
  /\ Ids(job_queue) \cap (Ids(job_dlq) \cup acked \cup canceled) = {}
  /\ Ids(job_dlq) \cap (acked \cup canceled) = {}
  /\ acked \cap canceled = {}

\* The attempts value claim() returns tells the leases of a job apart: two
\* consumers that hold the same job, one of them stale, never hold the same
\* attempt of it, and none is ahead of the row.
LeasesDistinct ==
  /\ \A c, d \in Consumers :
       /\ c # d
       /\ consumer[c].pc # "idle" /\ consumer[d].pc # "idle"
       /\ consumer[c].job_id = consumer[d].job_id
       => consumer[c].attempts # consumer[d].attempts
  /\ \A c \in Consumers : \A r \in RowsOf(consumer[c].job_id) :
       consumer[c].attempts <= r.attempts

\* A job reaches the DLQ only after max_attempts deliveries, although fail()
\* decides from a count it read in an earlier statement.
DlqExhausted == \A d \in job_dlq : d.attempts >= MaxAttempts

Holders(id) == {c \in Consumers : consumer[c].pc # "idle" /\ consumer[c].job_id = id}

\* claim() never compares attempts with max_attempts: only fail() does.  What
\* keeps a job from being delivered for ever is that every delivery beyond
\* max_attempts is still in somebody's hand, or ended in a crash or a throw.
DeliveriesBounded ==
  \A r \in job_queue :
    r.attempts < MaxAttempts + faults + Cardinality(Holders(r.job_id))

\* The queue keeps the promises of WorkQueue, whatever consumers and leases do.
WQ == INSTANCE WorkQueue WITH
        waiting <- {[job_id |-> r.job_id, key |-> r.key,
                     deliveries |-> r.attempts] : r \in job_queue},
        done <- acked,
        dead <- Ids(job_dlq),
        issued <- last_job_id

ImplementsWorkQueue == WQ!Spec

\* Every job that was enqueued leaves the queue: with finitely many faults the
\* attempts it is given run out, if no consumer acks it and nobody cancels it.
JobsLeave == \A id \in 1..MaxJobs : id \in Ids(job_queue) ~> id \notin Ids(job_queue)

=============================================================================
