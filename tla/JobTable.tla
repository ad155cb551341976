------------------------------- MODULE JobTable -------------------------------
(***************************************************************************)
(* The tables job_queue and job_dlq and the SQL statements PgJobQueue runs *)
(* on them (packages/api/src/jobs/queue.ts).  Each statement is atomic;    *)
(* the methods that need several statements are put together by the        *)
(* modules that use these operators.                                       *)
(*                                                                         *)
(* visible_at is abstracted to whether it has passed: a claim and a retry  *)
(* put it in the future, and Reappear is the clock reaching it.  Every     *)
(* lease length and every backoff is thereby covered, and so is the order  *)
(* of claims (ORDER BY visible_at, job_id), which is left open.            *)
(***************************************************************************)
EXTENDS RunKey, Integers, FiniteSets

CONSTANTS MaxAttempts,  \* max_attempts of a row (10 unless the caller says)
          MaxJobs       \* bound of the model: job_ids ever issued

ASSUME JobTableAssumption == MaxAttempts \in Nat \ {0} /\ MaxJobs \in Nat

VARIABLES job_queue,    \* the rows of job_queue
          job_dlq,      \* the rows of job_dlq
          last_job_id   \* the sequence job_id is drawn from

jobVars == <<job_queue, job_dlq, last_job_id>>

JobRow == [job_id : Nat, key : Keys, attempts : Nat, visible_at : {"past", "future"}]
DlqRow == [job_id : Nat, key : Keys, attempts : Nat]

JobTypeOK == /\ job_queue \subseteq JobRow
             /\ job_dlq \subseteq DlqRow
             /\ last_job_id \in Nat

JobInit == job_queue = {} /\ job_dlq = {} /\ last_job_id = 0

RowsOf(id) == {r \in job_queue : r.job_id = id}

\* getPendingByDedupeKey: leased rows are pending too.
Pending(k) == {r \in job_queue : r.key = k}

NewRow(k) == [job_id |-> last_job_id + 1, key |-> k,
              attempts |-> 0, visible_at |-> "past"]

\* Mutant: the ON CONFLICT clause is forgotten.
MutInsertAlways(k) ==
  /\ last_job_id < MaxJobs
  /\ job_queue' = job_queue \cup {NewRow(k)}
  /\ last_job_id' = last_job_id + 1
  /\ UNCHANGED job_dlq

\* INSERT ... ON CONFLICT (type, dedupe_key) DO NOTHING.
InsertJob(k) ==
  /\ \/ Pending(k) # {} /\ UNCHANGED <<job_queue, last_job_id>>
     \/ /\ Pending(k) = {}
        /\ last_job_id < MaxJobs
        /\ job_queue' = job_queue \cup {NewRow(k)}
        /\ last_job_id' = last_job_id + 1
  /\ UNCHANGED job_dlq

Leased(r) == [r EXCEPT !.attempts = @ + 1, !.visible_at = "future"]

\* Mutant: the claim moves visible_at but does not count the attempt.
MutClaimUncounted(r) ==
  /\ r \in job_queue /\ r.visible_at = "past"
  /\ job_queue' = (job_queue \ {r}) \cup {[r EXCEPT !.visible_at = "future"]}
  /\ UNCHANGED <<job_dlq, last_job_id>>

\* Mutant: the claim passes over jobs that have had all their attempts.
MutClaimBelowMax(r) ==
  /\ r \in job_queue /\ r.visible_at = "past" /\ r.attempts < MaxAttempts
  /\ job_queue' = (job_queue \ {r}) \cup {Leased(r)}
  /\ UNCHANGED <<job_dlq, last_job_id>>

\* SELECT ... FOR UPDATE SKIP LOCKED and UPDATE, one statement.
ClaimRow(r) ==
  /\ r \in job_queue /\ r.visible_at = "past"
  /\ job_queue' = (job_queue \ {r}) \cup {Leased(r)}
  /\ UNCHANGED <<job_dlq, last_job_id>>

\* DELETE ... WHERE job_id: no trace of who holds the lease is looked at.
DeleteJob(id) ==
  /\ job_queue' = job_queue \ RowsOf(id)
  /\ UNCHANGED <<job_dlq, last_job_id>>

\* DELETE ... WHERE type AND dedupe_key: a leased row goes too.
DeleteKey(k) ==
  /\ job_queue' = job_queue \ Pending(k)
  /\ UNCHANGED <<job_dlq, last_job_id>>

Buried(r) == [job_id |-> r.job_id, key |-> r.key, attempts |-> r.attempts]

\* Mutant: the row is copied to the DLQ and stays in the queue.
MutBuryCopy(id) ==
  /\ job_dlq' = job_dlq \cup {Buried(r) : r \in RowsOf(id)}
  /\ UNCHANGED <<job_queue, last_job_id>>

\* DELETE ... RETURNING feeding INSERT INTO job_dlq, one statement.
BuryJob(id) ==
  /\ job_queue' = job_queue \ RowsOf(id)
  /\ job_dlq' = job_dlq \cup {Buried(r) : r \in RowsOf(id)}
  /\ UNCHANGED last_job_id

\* UPDATE visible_at = NOW() + backoff WHERE job_id.
Postponed(r) == [r EXCEPT !.visible_at = "future"]

PostponeJob(id) ==
  /\ job_queue' = (job_queue \ RowsOf(id)) \cup {Postponed(r) : r \in RowsOf(id)}
  /\ UNCHANGED <<job_dlq, last_job_id>>

\* The clock reaches visible_at.
Reappear(r) ==
  /\ r \in job_queue /\ r.visible_at = "future"
  /\ job_queue' = (job_queue \ {r}) \cup {[r EXCEPT !.visible_at = "past"]}
  /\ UNCHANGED <<job_dlq, last_job_id>>

=============================================================================
