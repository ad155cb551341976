---------------------------- MODULE JobQueueProofs ----------------------------
(***************************************************************************)
(* Safety of the job queue for every set of keys and consumers and every   *)
(* bound: what a row's attempts and a consumer's copies of it say of each  *)
(* other is inductive, and the properties of JobQueue follow from it.      *)
(***************************************************************************)
EXTENDS JobQueue, FiniteSetTheorems, TLAPS

\* A dedupe key has at most one job outstanding, leased ones included, and a
\* job_id at most one row (the unique index and the primary key).
OneJobPerKey ==
  \A r, s \in job_queue : r.key = s.key \/ r.job_id = s.job_id => r = s

\* What a consumer carries about a job was true of the job when it read it,
\* and attempts only grow: the copies never run ahead of the row.
Copies ==
  \A c \in Consumers :
    IF consumer[c].pc = "idle" THEN consumer[c].attempts = 0
    ELSE /\ consumer[c].job_id \in 1..last_job_id
         /\ consumer[c].attempts >= 1
         /\ \A r \in RowsOf(consumer[c].job_id) :
              /\ consumer[c].attempts <= r.attempts
              /\ consumer[c].pc = "deciding" => consumer[c].read <= r.attempts

\* Two consumers that hold one job hold different attempts of it.
Distinct ==
  \A c, d \in Consumers :
    /\ c # d
    /\ consumer[c].pc # "idle" /\ consumer[d].pc # "idle"
    /\ consumer[c].job_id = consumer[d].job_id
    => consumer[c].attempts # consumer[d].attempts

IInv == /\ TypeOK /\ JobsConserved /\ OneJobPerKey /\ DlqExhausted
        /\ Copies /\ Distinct

------------------------------------------------------------------------------

\* Init establishes the invariant: the tables are empty and nobody works.
LEMMA InitIInv == Init => IInv
<1> SUFFICES ASSUME Init PROVE IInv
  OBVIOUS
<1> USE DEF Init, JobInit, Idle
<1>1. TypeOK
  BY DEF TypeOK, JobTypeOK, ConsumerState
<1>2. JobsConserved
  BY DEF JobsConserved, Ids
<1>3. OneJobPerKey /\ DlqExhausted /\ Copies /\ Distinct
  BY DEF OneJobPerKey, DlqExhausted, Copies, Distinct, RowsOf
<1> QED
  BY <1>1, <1>2, <1>3 DEF IInv

USE JobTableAssumption, JobQueueAssumption

\* The ids of a table after a row is added, and after a row is rewritten.
LEMMA IdsAdd == ASSUME NEW S, NEW r PROVE Ids(S \cup {r}) = Ids(S) \cup {r.job_id}
BY DEF Ids

LEMMA IdsRewrite ==
  ASSUME NEW S, NEW r \in S, NEW t, t.job_id = r.job_id
  PROVE  Ids((S \ {r}) \cup {t}) = Ids(S)
BY DEF Ids

\* What the statements that rewrite rows keep of them.
LEMMA LeasedRow ==
  ASSUME NEW r \in JobRow
  PROVE  /\ Leased(r) \in JobRow
         /\ Leased(r).job_id = r.job_id /\ Leased(r).key = r.key
         /\ Leased(r).attempts = r.attempts + 1
<1> DEFINE s == [r EXCEPT !.attempts = r.attempts + 1]
<1>1. s \in JobRow /\ s.job_id = r.job_id /\ s.key = r.key
  BY DEF JobRow
<1>2. s.attempts = r.attempts + 1
  BY DEF JobRow
<1>3. Leased(r) = [s EXCEPT !.visible_at = "future"]
  BY DEF JobRow, Leased
<1> HIDE DEF s
<1> QED
  BY <1>1, <1>2, <1>3 DEF JobRow

LEMMA PostponedRow ==
  ASSUME NEW r \in JobRow
  PROVE  /\ Postponed(r) \in JobRow
         /\ Postponed(r).job_id = r.job_id /\ Postponed(r).key = r.key
         /\ Postponed(r).attempts = r.attempts
BY DEF JobRow, Postponed

LEMMA PostponedIds ==
  ASSUME NEW S, NEW T \in SUBSET JobRow
  PROVE  Ids(S \cup {Postponed(r) : r \in T}) = Ids(S) \cup Ids(T)
<1>1. \A r \in T : Postponed(r).job_id = r.job_id
  BY PostponedRow
<1> QED
  BY <1>1 DEF Ids

LEMMA BuriedIds ==
  ASSUME NEW S, NEW T
  PROVE  Ids(S \cup {Buried(r) : r \in T}) = Ids(S) \cup Ids(T)
<1>1. \A r \in T : Buried(r).job_id = r.job_id
  BY DEF Buried
<1> QED
  BY <1>1 DEF Ids

\* Inserting a job: a fresh id, or nothing when the key is taken.
LEMMA EnqueueIInv ==
  ASSUME IInv, NEW k \in Keys, Enqueue(k) PROVE IInv'
<1> USE DEF IInv, Enqueue, InsertJob
<1>1. TypeOK'
  BY DEF TypeOK, JobTypeOK, NewRow, JobRow
<1>2. JobsConserved'
  <2>1. CASE UNCHANGED <<job_queue, last_job_id>>
    BY <2>1 DEF JobsConserved, Ids
  <2>2. CASE /\ job_queue' = job_queue \cup {NewRow(k)}
             /\ last_job_id' = last_job_id + 1
    <3>1. Ids(job_queue') = Ids(job_queue) \cup {last_job_id + 1}
      <4>1. NewRow(k).job_id = last_job_id + 1
        BY DEF NewRow
      <4> QED
        BY <2>2, <4>1, IdsAdd
    <3>2. 1..(last_job_id + 1) = (1..last_job_id) \cup {last_job_id + 1}
      BY DEF TypeOK, JobTypeOK
    <3>3. last_job_id + 1 \notin 1..last_job_id
      BY DEF TypeOK, JobTypeOK
    <3> QED
      BY <2>2, <3>1, <3>2, <3>3 DEF JobsConserved, Ids
  <2> QED
    BY <2>1, <2>2
<1>3. OneJobPerKey'
  BY DEF OneJobPerKey, Pending, NewRow, JobsConserved, Ids, TypeOK, JobTypeOK
<1>4. DlqExhausted' /\ Distinct'
  BY DEF DlqExhausted, Distinct
<1>5. Copies'
  BY DEF Copies, RowsOf, NewRow, TypeOK, JobTypeOK, ConsumerState
<1> QED
  BY <1>1, <1>2, <1>3, <1>4, <1>5

\* Canceling by key moves the ids of the deleted rows to the canceled ones.
LEMMA CancelIInv ==
  ASSUME IInv, NEW k \in Keys, CancelByDedupeKey(k) PROVE IInv'
<1> USE DEF IInv, CancelByDedupeKey, DeleteKey
<1>1. TypeOK'
  BY DEF TypeOK, JobTypeOK, Pending, JobRow
<1>2. JobsConserved'
  BY DEF JobsConserved, Ids, Pending, OneJobPerKey
<1>3. OneJobPerKey' /\ DlqExhausted' /\ Distinct'
  BY DEF OneJobPerKey, DlqExhausted, Distinct
<1>4. Copies'
  BY DEF Copies, RowsOf
<1> QED
  BY <1>1, <1>2, <1>3, <1>4

\* A claim rewrites one visible row: same id and key, one attempt more, which
\* is the attempt its consumer now holds and nobody else did.
LEMMA ClaimIInv ==
  ASSUME IInv, NEW c \in Consumers, Claim(c) PROVE IInv'
<1> USE DEF IInv, Claim, ClaimRow
<1>1. PICK r \in job_queue :
        /\ job_queue' = (job_queue \ {r}) \cup {Leased(r)}
        /\ consumer' = [consumer EXCEPT ![c] =
             [pc |-> "working", job_id |-> r.job_id,
              attempts |-> r.attempts + 1, read |-> 0]]
  OBVIOUS
<1>2. /\ r \in JobRow /\ Leased(r) \in JobRow
      /\ Leased(r).job_id = r.job_id /\ Leased(r).key = r.key
      /\ Leased(r).attempts = r.attempts + 1
  BY LeasedRow DEF TypeOK, JobTypeOK
<1>3. TypeOK'
  <2>1. JobTypeOK'
    BY <1>1, <1>2 DEF TypeOK, JobTypeOK
  <2>2. consumer' \in [Consumers -> ConsumerState]
    BY <1>1, <1>2 DEF TypeOK, ConsumerState, JobRow
  <2> QED
    BY <2>1, <2>2 DEF TypeOK
<1>4. JobsConserved'
  <2>1. Ids(job_queue') = Ids(job_queue)
    BY <1>1, <1>2, IdsRewrite
  <2> QED
    BY <2>1 DEF JobsConserved, Ids
<1>5. OneJobPerKey' /\ DlqExhausted'
  BY <1>1, <1>2 DEF OneJobPerKey, DlqExhausted
<1>6. r.job_id \in 1..last_job_id
  BY DEF JobsConserved, Ids
<1>7. Copies'
  BY <1>1, <1>2, <1>6
     DEF Copies, RowsOf, OneJobPerKey, TypeOK, JobTypeOK, JobRow, ConsumerState
<1>8. Distinct'
  BY <1>1, <1>2 DEF Distinct, Copies, RowsOf, TypeOK, JobTypeOK, JobRow, ConsumerState
<1> QED
  BY <1>3, <1>4, <1>5, <1>7, <1>8

\* An ack deletes at most one row, whoever holds it, and notes its id.
LEMMA AckIInv ==
  ASSUME IInv, NEW c \in Consumers, Ack(c) PROVE IInv'
<1> USE DEF IInv, Ack, DeleteJob
<1>1. TypeOK'
  BY DEF TypeOK, JobTypeOK, RowsOf, JobRow, ConsumerState, Idle
<1>2. JobsConserved'
  BY DEF JobsConserved, Ids, RowsOf
<1>3. OneJobPerKey' /\ DlqExhausted'
  BY DEF OneJobPerKey, DlqExhausted
<1>4. Copies' /\ Distinct'
  BY DEF Copies, Distinct, RowsOf, Idle, TypeOK
<1> QED
  BY <1>1, <1>2, <1>3, <1>4

\* fail() reads the attempts of the row, or gives the lease up when it is gone.
LEMMA FailSelectIInv ==
  ASSUME IInv, NEW c \in Consumers, FailSelect(c) PROVE IInv'
<1> USE DEF IInv, FailSelect
<1>1. TypeOK'
  BY DEF TypeOK, JobTypeOK, RowsOf, JobRow, ConsumerState, Idle
<1>2. JobsConserved' /\ OneJobPerKey' /\ DlqExhausted'
  BY DEF JobsConserved, Ids, OneJobPerKey, DlqExhausted
<1>3. Copies' /\ Distinct'
  BY DEF Copies, Distinct, RowsOf, Idle, TypeOK, ConsumerState, JobTypeOK,
         JobRow, OneJobPerKey
<1> QED
  BY <1>1, <1>2, <1>3

\* fail() writes what it decided; attempts read as exhausted still are.
LEMMA FailDecideIInv ==
  ASSUME IInv, NEW c \in Consumers, FailDecide(c) PROVE IInv'
<1> USE DEF IInv, FailDecide
<1>1. consumer' \in [Consumers -> ConsumerState]
  BY DEF TypeOK, ConsumerState, Idle
<1>2. CASE consumer[c].read >= MaxAttempts
  <2> USE <1>2 DEF BuryJob
  <2>1. TypeOK'
    BY <1>1 DEF TypeOK, JobTypeOK, RowsOf, JobRow, DlqRow, Buried
  <2>2. JobsConserved'
    <3> DEFINE gone == RowsOf(consumer[c].job_id)
    <3>2. Ids(job_dlq') = Ids(job_dlq) \cup Ids(gone)
      BY BuriedIds
    <3>3. /\ Ids(job_queue') = Ids(job_queue) \ Ids(gone)
          /\ Ids(gone) \subseteq Ids(job_queue)
      BY DEF Ids, RowsOf
    <3> HIDE DEF gone
    <3> QED
      BY <3>2, <3>3 DEF JobsConserved, Ids
  <2>3. OneJobPerKey'
    BY DEF OneJobPerKey
  <2>4. DlqExhausted'
    BY DEF DlqExhausted, Copies, RowsOf, Buried, TypeOK, JobTypeOK, JobRow,
           ConsumerState
  <2>5. Copies' /\ Distinct'
    BY DEF Copies, Distinct, RowsOf, Idle, TypeOK
  <2> QED
    BY <2>1, <2>2, <2>3, <2>4, <2>5
<1>3. CASE ~(consumer[c].read >= MaxAttempts)
  <2> USE <1>3 DEF PostponeJob
  <2> DEFINE late == RowsOf(consumer[c].job_id)
  <2>1. \A t \in job_queue' : \E r \in job_queue :
          t \in JobRow /\ t.job_id = r.job_id /\ t.key = r.key /\ t.attempts = r.attempts
    BY PostponedRow DEF TypeOK, JobTypeOK, RowsOf
  <2>2. Ids(job_queue') = Ids(job_queue)
    <3>1. Ids(job_queue') = Ids(job_queue \ late) \cup Ids(late)
      BY PostponedIds DEF TypeOK, JobTypeOK, RowsOf
    <3> QED
      BY <3>1 DEF Ids, RowsOf
  <2>3. TypeOK'
    BY <1>1, <2>1 DEF TypeOK, JobTypeOK
  <2>4. JobsConserved' /\ DlqExhausted'
    BY <2>2 DEF JobsConserved, DlqExhausted, Ids
  <2>5. OneJobPerKey'
    BY PostponedRow DEF OneJobPerKey, TypeOK, JobTypeOK, RowsOf
  <2>6. Copies' /\ Distinct'
    BY <2>1 DEF Copies, Distinct, RowsOf, Idle, TypeOK
  <2> QED
    BY <2>3, <2>4, <2>5, <2>6
<1> QED
  BY <1>2, <1>3

\* A fault takes the lease, or the decision, from its consumer; the row stays.
LEMMA FaultIInv ==
  ASSUME IInv, NEW c \in Consumers, Throws(c) \/ Crash(c) PROVE IInv'
<1> USE DEF IInv, Throws, Crash
<1>1. TypeOK'
  BY DEF TypeOK, JobTypeOK, ConsumerState, Idle
<1>2. JobsConserved' /\ OneJobPerKey' /\ DlqExhausted'
  BY DEF JobsConserved, Ids, OneJobPerKey, DlqExhausted
<1>3. /\ \A d \in Consumers \ {c} : consumer'[d] = consumer[d]
      /\ \/ consumer'[c] = Idle
         \/ /\ consumer[c].pc # "idle" /\ consumer'[c].pc = "working"
            /\ consumer'[c].job_id = consumer[c].job_id
            /\ consumer'[c].attempts = consumer[c].attempts
  BY DEF TypeOK, ConsumerState
<1>4. job_queue' = job_queue /\ last_job_id' = last_job_id
  OBVIOUS
<1>5. Copies' /\ Distinct'
  <2> USE DEF Copies, Distinct, RowsOf
  <2>1. CASE consumer'[c] = Idle
    BY <1>3, <1>4, <2>1 DEF Idle
  <2>2. CASE consumer'[c] # Idle
    BY <1>3, <1>4, <2>2
  <2> QED
    BY <2>1, <2>2
<1> QED
  BY <1>1, <1>2, <1>5

\* The clock changes nothing of a row but its visibility.
LEMMA VisibleAgainIInv ==
  ASSUME IInv, VisibleAgain PROVE IInv'
<1> USE DEF IInv, VisibleAgain, Reappear
<1>1. PICK r \in job_queue :
        job_queue' = (job_queue \ {r}) \cup {[r EXCEPT !.visible_at = "past"]}
  OBVIOUS
<1> DEFINE t == [r EXCEPT !.visible_at = "past"]
<1>2. /\ t \in JobRow /\ t.job_id = r.job_id
      /\ t.key = r.key /\ t.attempts = r.attempts
  BY DEF TypeOK, JobTypeOK, JobRow
<1> HIDE DEF t
<1>3. job_queue' = (job_queue \ {r}) \cup {t}
  BY <1>1 DEF t
<1>4. TypeOK'
  BY <1>2, <1>3 DEF TypeOK, JobTypeOK
<1>5. JobsConserved' /\ DlqExhausted'
  <2>1. Ids(job_queue') = Ids(job_queue)
    BY <1>2, <1>3, IdsRewrite
  <2> QED
    BY <2>1 DEF JobsConserved, DlqExhausted, Ids
<1>6. OneJobPerKey'
  BY <1>2, <1>3 DEF OneJobPerKey
<1>7. Copies' /\ Distinct'
  BY <1>2, <1>3 DEF Copies, Distinct, RowsOf
<1> QED
  BY <1>4, <1>5, <1>6, <1>7

------------------------------------------------------------------------------

\* The conjunction of the conserved facts is an inductive invariant of the
\* queue, for all keys, consumers and bounds.
THEOREM Inductive == Spec => []IInv
<1>1. Init => IInv
  BY InitIInv
<1>2. IInv /\ [Next]_vars => IInv'
  <2> SUFFICES ASSUME IInv, [Next]_vars PROVE IInv'
    OBVIOUS
  <2>1. CASE Next
    BY <2>1, EnqueueIInv, CancelIInv, ClaimIInv, AckIInv, FailSelectIInv,
       FailDecideIInv, FaultIInv, VisibleAgainIInv DEF Next
  <2>2. CASE UNCHANGED vars
    BY <2>2 DEF vars, IInv, TypeOK, JobTypeOK, JobsConserved, Ids,
       OneJobPerKey, DlqExhausted, Copies, Distinct, RowsOf
  <2> QED
    BY <2>1, <2>2
<1> QED
  BY <1>1, <1>2, PTL DEF Spec

\* TypeOK holds of the queue for every value of its constants.
THEOREM TypeCorrect == Spec => []TypeOK
<1>1. IInv => TypeOK
  BY DEF IInv
<1> QED
  BY <1>1, Inductive, PTL

\* No job is ever lost, doubled or in two tables, whatever stale consumers do.
THEOREM Conservation == Spec => []JobsConserved
<1>1. IInv => JobsConserved
  BY DEF IInv
<1> QED
  BY <1>1, Inductive, PTL

\* At most one outstanding job per dedupe key.
THEOREM Dedupe == Spec => []OneJobPerKey
<1>1. IInv => OneJobPerKey
  BY DEF IInv
<1> QED
  BY <1>1, Inductive, PTL

\* The attempt number of a lease tells it from every other lease of the job.
THEOREM LeaseIdentity == Spec => []LeasesDistinct
<1>1. IInv => LeasesDistinct
  BY DEF IInv, LeasesDistinct, Distinct, Copies, RowsOf, TypeOK, JobTypeOK, JobRow
<1> QED
  BY <1>1, Inductive, PTL

\* Only a job delivered max_attempts times is given up.
THEOREM GivenUpExhausted == Spec => []DlqExhausted
<1>1. IInv => DlqExhausted
  BY DEF IInv
<1> QED
  BY <1>1, Inductive, PTL

------------------------------------------------------------------------------

\* What fail() read is no less than what the claim returned.
ReadsAhead ==
  \A c \in Consumers : consumer[c].pc = "deciding" => consumer[c].attempts <= consumer[c].read

\* The consumers that hold a delivery of the job for which it had used up
\* its attempts.  A fail() of one of them buries the job, so every delivery
\* beyond max_attempts is one of theirs, or ended in a fault.
Late(id) == {c \in Holders(id) : consumer[c].attempts >= MaxAttempts}

LateBounded ==
  \A r \in job_queue : r.attempts < MaxAttempts + faults + Cardinality(Late(r.job_id))

BoundInv == ReadsAhead /\ LateBounded

\* Consumers that are late with a job, after a step of c alone: a consumer
\* that is late still, or was not, takes none of them away, and c takes one
\* at most.
LEMMA LateAfter ==
  ASSUME NEW c \in Consumers, \A d \in Consumers \ {c} : consumer'[d] = consumer[d],
         NEW id
  PROVE  /\ IsFiniteSet(Late(id)) /\ IsFiniteSet(Late(id)')
         /\ Cardinality(Late(id)) \in Nat /\ Cardinality(Late(id)') \in Nat
         /\ Cardinality(Late(id)') >= Cardinality(Late(id)) - 1
         /\ c \notin Late(id) \/ c \in Late(id)' => Cardinality(Late(id)') >= Cardinality(Late(id))
         /\ c \notin Late(id) /\ c \in Late(id)' => Cardinality(Late(id)') = Cardinality(Late(id)) + 1
<1>1. Late(id) \in SUBSET Consumers /\ Late(id)' \in SUBSET Consumers
  BY DEF Late, Holders
<1>2. IsFiniteSet(Late(id)) /\ IsFiniteSet(Late(id)')
  BY <1>1, JobQueueAssumption, FS_Subset
<1>3. Cardinality(Late(id)) \in Nat /\ Cardinality(Late(id)') \in Nat
  BY <1>2, FS_CardinalityType
<1>4. Late(id)' \ {c} = Late(id) \ {c}
  BY DEF Late, Holders
<1>5. /\ c \in Late(id) => Cardinality(Late(id) \ {c}) = Cardinality(Late(id)) - 1
      /\ c \notin Late(id) => Cardinality(Late(id) \ {c}) = Cardinality(Late(id))
      /\ c \in Late(id)' => Cardinality(Late(id)' \ {c}) = Cardinality(Late(id)') - 1
      /\ c \notin Late(id)' => Cardinality(Late(id)' \ {c}) = Cardinality(Late(id)')
  BY <1>2, FS_RemoveElement
<1> QED
  BY <1>2, <1>3, <1>4, <1>5

\* When consumers do not move, nor do those that are late.
LEMMA LateSame ==
  ASSUME UNCHANGED consumer, NEW id
  PROVE  Late(id)' = Late(id) /\ Cardinality(Late(id)) \in Nat
<1>1. Late(id)' = Late(id) /\ Late(id) \in SUBSET Consumers
  BY DEF Late, Holders
<1> QED
  BY <1>1, JobQueueAssumption, FS_Subset, FS_CardinalityType

\* Producers and the clock raise nobody's attempts.
LEMMA TableStepBound ==
  ASSUME IInv, BoundInv,
         \/ \E k \in Keys : Enqueue(k) \/ CancelByDedupeKey(k)
         \/ VisibleAgain
         \/ UNCHANGED vars
  PROVE  BoundInv'
<1>1. UNCHANGED <<consumer, faults>>
  BY DEF Enqueue, CancelByDedupeKey, VisibleAgain, vars
<1>2. ReadsAhead'
  BY <1>1 DEF BoundInv, ReadsAhead
<1>3. ASSUME NEW t \in job_queue'
      PROVE  t.attempts = 0 \/ \E r \in job_queue : t.job_id = r.job_id /\ t.attempts = r.attempts
  <2>1. \A r \in job_queue : LET u == [r EXCEPT !.visible_at = "past"] IN
          u.job_id = r.job_id /\ u.attempts = r.attempts
    BY DEF IInv, TypeOK, JobTypeOK, JobRow
  <2>2. \A k : NewRow(k).attempts = 0
    BY DEF NewRow
  <2>3. CASE \E k \in Keys : Enqueue(k) \/ CancelByDedupeKey(k)
    BY <1>3, <2>2, <2>3 DEF Enqueue, InsertJob, CancelByDedupeKey, DeleteKey
  <2>4. CASE VisibleAgain
    <3>1. PICK r \in job_queue :
            job_queue' = (job_queue \ {r}) \cup {[r EXCEPT !.visible_at = "past"]}
      BY <2>4 DEF VisibleAgain, Reappear
    <3> QED
      BY <1>3, <2>1, <3>1
  <2> QED
    BY <1>3, <2>3, <2>4 DEF vars
<1>4. ASSUME NEW t \in job_queue' PROVE t.attempts < MaxAttempts + faults' + Cardinality(Late(t.job_id)')
  <2>1. Late(t.job_id)' = Late(t.job_id) /\ Cardinality(Late(t.job_id)) \in Nat
    BY <1>1, LateSame
  <2>2. CASE t.attempts = 0
    BY <1>1, <2>1, <2>2 DEF IInv, TypeOK
  <2>3. CASE \E r \in job_queue : t.job_id = r.job_id /\ t.attempts = r.attempts
    BY <1>1, <2>1, <2>3 DEF BoundInv, LateBounded
  <2> QED
    BY <1>3, <2>2, <2>3
<1> QED
  BY <1>2, <1>4 DEF BoundInv, LateBounded

\* A claim beyond max_attempts has a consumer that is late from then on.
LEMMA ClaimBound ==
  ASSUME IInv, BoundInv, NEW c \in Consumers, Claim(c) PROVE BoundInv'
<1>1. PICK r \in job_queue :
        /\ job_queue' = (job_queue \ {r}) \cup {Leased(r)}
        /\ consumer' = [consumer EXCEPT ![c] =
             [pc |-> "working", job_id |-> r.job_id,
              attempts |-> r.attempts + 1, read |-> 0]]
  BY DEF Claim, ClaimRow
<1>2. /\ consumer[c].pc = "idle" /\ faults' = faults /\ faults \in Nat
      /\ \A d \in Consumers \ {c} : consumer'[d] = consumer[d]
      /\ consumer'[c] = [pc |-> "working", job_id |-> r.job_id,
                         attempts |-> r.attempts + 1, read |-> 0]
  BY <1>1 DEF Claim, IInv, TypeOK
<1>3. /\ r.attempts \in Nat /\ Leased(r).job_id = r.job_id
      /\ Leased(r).attempts = r.attempts + 1
  BY LeasedRow DEF IInv, TypeOK, JobTypeOK, JobRow
<1>4. ReadsAhead'
  BY <1>2 DEF BoundInv, ReadsAhead
<1>5. \A id : c \notin Late(id)
  BY <1>2 DEF Late, Holders
<1>6. ASSUME NEW t \in job_queue' PROVE t.attempts < MaxAttempts + faults' + Cardinality(Late(t.job_id)')
  <2>1. CASE t \in job_queue \ {r}
    <3>1. /\ Cardinality(Late(t.job_id)') >= Cardinality(Late(t.job_id))
          /\ Cardinality(Late(t.job_id)') \in Nat /\ Cardinality(Late(t.job_id)) \in Nat
      BY <1>2, <1>5, LateAfter
    <3>2. t.attempts \in Nat
      BY <2>1 DEF IInv, TypeOK, JobTypeOK, JobRow
    <3> QED
      BY <1>2, <2>1, <3>1, <3>2 DEF BoundInv, LateBounded
  <2>2. CASE t = Leased(r) /\ r.attempts + 1 >= MaxAttempts
    <3>1. c \in Late(r.job_id)'
      BY <1>2, <2>2 DEF Late, Holders
    <3>2. /\ Cardinality(Late(r.job_id)') = Cardinality(Late(r.job_id)) + 1
          /\ Cardinality(Late(r.job_id)) \in Nat
      BY <1>2, <1>5, <3>1, LateAfter
    <3> QED
      BY <1>2, <1>3, <2>2, <3>2 DEF BoundInv, LateBounded
  <2>3. CASE t = Leased(r) /\ ~(r.attempts + 1 >= MaxAttempts)
    <3>1. Cardinality(Late(r.job_id)') \in Nat
      BY <1>2, LateAfter
    <3> QED
      BY <1>2, <1>3, <2>3, <3>1
  <2> QED
    BY <1>1, <2>1, <2>2, <2>3
<1> QED
  BY <1>4, <1>6 DEF BoundInv, LateBounded

\* A consumer that ends with its job leaves no row of it, or it was not late,
\* or its end was a fault.
LEMMA EndBound ==
  ASSUME IInv, BoundInv, NEW c \in Consumers,
         Ack(c) \/ FailSelect(c) \/ FailDecide(c) \/ Throws(c) \/ Crash(c)
  PROVE  BoundInv'
<1> DEFINE id == consumer[c].job_id
<1>1. /\ \A d \in Consumers \ {c} : consumer'[d] = consumer[d]
      /\ consumer[c].pc # "idle" /\ faults \in Nat /\ faults' \in {faults, faults + 1}
      /\ consumer[c] \in ConsumerState
  BY DEF Ack, FailSelect, FailDecide, Throws, Crash, IInv, TypeOK
<1>2. ReadsAhead'
  <2>1. CASE FailSelect(c)
    BY <1>1, <2>1 DEF FailSelect, BoundInv, ReadsAhead, IInv, Copies, RowsOf, TypeOK,
                      ConsumerState, Idle
  <2>2. CASE ~FailSelect(c)
    <3>1. consumer'[c].pc # "deciding"
      BY <2>2 DEF Ack, FailDecide, Throws, Crash, IInv, TypeOK, ConsumerState, Idle
    <3> QED
      BY <1>1, <3>1 DEF BoundInv, ReadsAhead
  <2> QED
    BY <2>1, <2>2
<1>3. ASSUME NEW t \in job_queue'
      PROVE  \E r \in job_queue : /\ t.job_id = r.job_id /\ t.attempts = r.attempts
  <2>1. \A r \in job_queue : Postponed(r).job_id = r.job_id /\ Postponed(r).attempts = r.attempts
    BY PostponedRow DEF IInv, TypeOK, JobTypeOK
  <2> QED
    BY <1>3, <2>1 DEF Ack, DeleteJob, FailSelect, FailDecide, BuryJob, PostponeJob, Throws,
                      Crash, RowsOf
<1>4. ASSUME NEW t \in job_queue', c \in Late(t.job_id), c \notin Late(t.job_id)'
      PROVE  faults' = faults + 1
  <2>1. t.job_id = id /\ consumer[c].attempts >= MaxAttempts
    BY <1>4 DEF Late, Holders
  <2>2. ~Ack(c)
    BY <1>4, <2>1 DEF Ack, DeleteJob, RowsOf
  <2>3. ~FailSelect(c)
    <3>1. PICK r \in job_queue : r.job_id = id
      BY <1>3, <2>1
    <3>2. RowsOf(id) # {}
      BY <3>1 DEF RowsOf
    <3>3. FailSelect(c) => /\ consumer'[c].pc = "deciding" /\ consumer'[c].job_id = id
                           /\ consumer'[c].attempts = consumer[c].attempts
      BY <3>2 DEF FailSelect, IInv, TypeOK, ConsumerState
    <3> QED
      BY <1>4, <2>1, <3>3 DEF Late, Holders
  <2>4. ~FailDecide(c)
    <3>1. SUFFICES ASSUME FailDecide(c) PROVE FALSE
      OBVIOUS
    <3>2. consumer[c].read >= MaxAttempts
      BY <1>1, <2>1, <3>1 DEF FailDecide, BoundInv, ReadsAhead, ConsumerState
    <3> QED
      BY <1>4, <2>1, <3>1, <3>2 DEF FailDecide, BuryJob, RowsOf
  <2> QED
    BY <2>2, <2>3, <2>4 DEF Throws, Crash
<1>5. ASSUME NEW t \in job_queue' PROVE t.attempts < MaxAttempts + faults' + Cardinality(Late(t.job_id)')
  <2>1. PICK r \in job_queue : t.job_id = r.job_id /\ t.attempts = r.attempts
    BY <1>3
  <2>2. t.attempts < MaxAttempts + faults + Cardinality(Late(t.job_id)) /\ t.attempts \in Nat
    BY <2>1 DEF BoundInv, LateBounded, IInv, TypeOK, JobTypeOK, JobRow
  <2>3. /\ Cardinality(Late(t.job_id)) \in Nat /\ Cardinality(Late(t.job_id)') \in Nat
        /\ Cardinality(Late(t.job_id)') >= Cardinality(Late(t.job_id)) - 1
        /\ c \notin Late(t.job_id) \/ c \in Late(t.job_id)'
             => Cardinality(Late(t.job_id)') >= Cardinality(Late(t.job_id))
    BY <1>1, LateAfter
  <2>4. CASE c \in Late(t.job_id) /\ c \notin Late(t.job_id)'
    BY <1>1, <1>4, <2>2, <2>3, <2>4
  <2>5. CASE c \notin Late(t.job_id) \/ c \in Late(t.job_id)'
    BY <1>1, <2>2, <2>3, <2>5
  <2> QED
    BY <2>4, <2>5
<1> QED
  BY <1>2, <1>5 DEF BoundInv, LateBounded

\* A job is delivered at most max_attempts times, and once more for every
\* fault there was and every consumer that holds it now.
THEOREM DeliveriesEnd == Spec => []DeliveriesBounded
<1>1. Init => BoundInv
  BY DEF Init, JobInit, Idle, BoundInv, ReadsAhead, LateBounded
<1>2. IInv /\ BoundInv /\ [Next]_vars => BoundInv'
  BY TableStepBound, ClaimBound, EndBound DEF Next
<1>3. IInv /\ BoundInv => DeliveriesBounded
  <2> SUFFICES ASSUME IInv, BoundInv, NEW r \in job_queue
               PROVE  r.attempts < MaxAttempts + faults + Cardinality(Holders(r.job_id))
    BY DEF DeliveriesBounded
  <2>1. /\ Holders(r.job_id) \in SUBSET Consumers
        /\ Late(r.job_id) \in SUBSET Holders(r.job_id)
    BY DEF Late, Holders
  <2>2. IsFiniteSet(Holders(r.job_id)) /\ IsFiniteSet(Late(r.job_id))
        /\ Cardinality(Late(r.job_id)) <= Cardinality(Holders(r.job_id))
    BY <2>1, JobQueueAssumption, FS_Subset
  <2>3. Cardinality(Late(r.job_id)) \in Nat /\ Cardinality(Holders(r.job_id)) \in Nat
    BY <2>2, FS_CardinalityType
  <2>4. /\ r.attempts < MaxAttempts + faults + Cardinality(Late(r.job_id))
        /\ r.attempts \in Nat /\ faults \in Nat
    BY DEF BoundInv, LateBounded, IInv, TypeOK, JobTypeOK, JobRow
  <2> QED
    BY <2>2, <2>3, <2>4
<1> QED
  BY <1>1, <1>2, <1>3, Inductive, PTL DEF Spec

------------------------------------------------------------------------------

\* What WorkQueue sees of a row, and of the table.
Item(r) == [job_id |-> r.job_id, key |-> r.key, deliveries |-> r.attempts]
Items(S) == {Item(r) : r \in S}

LEMMA ItemsRemove ==
  ASSUME NEW r \in job_queue, OneJobPerKey
  PROVE  Items(job_queue \ {r}) = Items(job_queue) \ {Item(r)}
<1>1. \A s \in job_queue : s # r => Item(s) # Item(r)
  BY DEF OneJobPerKey, Item
<1> QED
  BY <1>1 DEF Items

LEMMA ItemsAdd == ASSUME NEW S, NEW r PROVE Items(S \cup {r}) = Items(S) \cup {Item(r)}
BY DEF Items

\* Removing the rows of a set that holds one row at most: a step that removes
\* its item, or no change.
LEMMA ItemsOfOne ==
  ASSUME OneJobPerKey, NEW S \in SUBSET job_queue,
         \A r, s \in S : r = s
  PROVE  \/ S = {} \/ \E r \in job_queue : S = {r} /\ Ids(S) = {r.job_id}
                                    /\ Items(job_queue \ S) = Items(job_queue) \ {Item(r)}
<1>1. CASE S # {}
  <2>1. PICK r \in S : S = {r}
    BY <1>1
  <2>2. Ids(S) = {r.job_id}
    BY <2>1 DEF Ids
  <2> QED
    BY <2>1, <2>2, ItemsRemove
<1> QED
  BY <1>1

LEMMA WQVars ==
  /\ WQ!workVars = <<Items(job_queue), acked, Ids(job_dlq), canceled, last_job_id>>
  /\ WQ!workVars' = <<Items(job_queue'), acked', Ids(job_dlq'), canceled', last_job_id'>>
BY DEF WQ!workVars, Items, Item, Ids

\* Every step of the queue is a step of WorkQueue or none.
LEMMA StepRefines ==
  ASSUME IInv, [Next]_vars PROVE [WQ!Next]_(WQ!workVars)
<1> DEFINE stutter == /\ Items(job_queue') = Items(job_queue) /\ Ids(job_dlq') = Ids(job_dlq)
                      /\ UNCHANGED <<acked, canceled, last_job_id>>
<1>0. stutter => [WQ!Next]_(WQ!workVars)
  BY WQVars
<1>1. ASSUME NEW k \in Keys, Enqueue(k) PROVE [WQ!Next]_(WQ!workVars)
  <2>1. CASE UNCHANGED <<job_queue, last_job_id>>
    BY <1>0, <1>1, <2>1 DEF Enqueue, InsertJob
  <2>2. CASE /\ Pending(k) = {}
             /\ job_queue' = job_queue \cup {NewRow(k)}
             /\ last_job_id' = last_job_id + 1
    <3>1. Items(job_queue') = Items(job_queue) \cup
            {[job_id |-> last_job_id + 1, key |-> k, deliveries |-> 0]}
      BY <2>2, ItemsAdd DEF NewRow, Item
    <3>2. \A w \in Items(job_queue) : w.key # k
      BY <2>2 DEF Items, Item, Pending
    <3>3. WQ!Add(k)
      BY <1>1, <2>2, <3>1, <3>2
         DEF WQ!Add, Items, Item, Ids, Enqueue, InsertJob
    <3> QED
      BY <3>3 DEF WQ!Next
  <2> QED
    BY <1>1, <2>1, <2>2 DEF Enqueue, InsertJob
<1>2. ASSUME NEW k \in Keys, CancelByDedupeKey(k) PROVE [WQ!Next]_(WQ!workVars)
  <2>1. /\ job_queue' = job_queue \ Pending(k) /\ canceled' = canceled \cup Ids(Pending(k))
        /\ UNCHANGED <<job_dlq, last_job_id, acked>>
    BY <1>2 DEF CancelByDedupeKey, DeleteKey, Ids
  <2>2. CASE Pending(k) = {}
    BY <1>0, <2>1, <2>2 DEF Ids
  <2>3. CASE \E r \in job_queue : Pending(k) = {r} /\ Ids(Pending(k)) = {r.job_id}
                                  /\ Items(job_queue \ Pending(k)) = Items(job_queue) \ {Item(r)}
    <3>1. PICK r \in job_queue : /\ Ids(Pending(k)) = {r.job_id}
                                 /\ Items(job_queue') = Items(job_queue) \ {Item(r)}
      BY <2>1, <2>3
    <3>2. WQ!Cancel(Item(r))
      BY <2>1, <3>1 DEF WQ!Cancel, Items, Item
    <3> QED
      BY <3>2 DEF WQ!Next, Items, Item
  <2> QED
    <3>1. Pending(k) \in SUBSET job_queue /\ \A r, s \in Pending(k) : r = s
      BY DEF IInv, Pending, OneJobPerKey
    <3> QED
      BY <2>2, <2>3, <3>1, ItemsOfOne DEF IInv
<1>3. ASSUME NEW c \in Consumers, Claim(c) PROVE [WQ!Next]_(WQ!workVars)
  <2>1. PICK r \in job_queue :
          /\ job_queue' = (job_queue \ {r}) \cup {Leased(r)}
          /\ UNCHANGED <<job_dlq, last_job_id, acked, canceled>>
    BY <1>3 DEF Claim, ClaimRow
  <2>2. /\ Leased(r).job_id = r.job_id /\ Leased(r).key = r.key
        /\ Leased(r).attempts = r.attempts + 1
    BY LeasedRow DEF IInv, TypeOK, JobTypeOK
  <2>3. Item(Leased(r)) = [Item(r) EXCEPT !.deliveries = @ + 1]
    BY <2>2 DEF Item
  <2>4. Items(job_queue') = (Items(job_queue) \ {Item(r)}) \cup {Item(Leased(r))}
    BY <2>1, ItemsRemove, ItemsAdd DEF IInv
  <2>5. WQ!Deliver(Item(r))
    BY <2>1, <2>3, <2>4 DEF WQ!Deliver, Items, Item, Ids
  <2> QED
    BY <2>5 DEF WQ!Next, Items, Item
<1>4. ASSUME NEW c \in Consumers, Ack(c) PROVE [WQ!Next]_(WQ!workVars)
  <2> DEFINE gone == RowsOf(consumer[c].job_id)
  <2>1. /\ job_queue' = job_queue \ gone /\ acked' = acked \cup Ids(gone)
        /\ UNCHANGED <<job_dlq, last_job_id, canceled>>
    BY <1>4 DEF Ack, DeleteJob, Ids
  <2>2. \A r \in gone : r.attempts >= 1
    BY <1>4 DEF Ack, IInv, Copies, RowsOf, TypeOK, JobTypeOK, JobRow, ConsumerState
  <2>3. CASE gone = {}
    BY <1>0, <2>1, <2>3 DEF Ids
  <2>4. CASE \E r \in job_queue : gone = {r} /\ Ids(gone) = {r.job_id}
                                  /\ Items(job_queue \ gone) = Items(job_queue) \ {Item(r)}
    <3>1. PICK r \in job_queue : /\ r.attempts >= 1 /\ Ids(gone) = {r.job_id}
                                 /\ Items(job_queue') = Items(job_queue) \ {Item(r)}
      BY <2>1, <2>2, <2>4
    <3>2. WQ!Finish(Item(r))
      BY <2>1, <3>1 DEF WQ!Finish, Items, Item, Ids
    <3> QED
      BY <3>2 DEF WQ!Next, Items, Item
  <2> QED
    <3>1. gone \in SUBSET job_queue /\ \A r, s \in gone : r = s
      BY DEF IInv, RowsOf, OneJobPerKey
    <3> HIDE DEF gone
    <3> QED
      BY <2>3, <2>4, <3>1, ItemsOfOne DEF IInv
<1>5. ASSUME NEW c \in Consumers, FailDecide(c) PROVE [WQ!Next]_(WQ!workVars)
  <2> DEFINE gone == RowsOf(consumer[c].job_id)
  <2>1. CASE consumer[c].read >= MaxAttempts
    <3>1. /\ job_queue' = job_queue \ gone
          /\ job_dlq' = job_dlq \cup {Buried(r) : r \in gone}
          /\ UNCHANGED <<last_job_id, acked, canceled>>
      BY <1>5, <2>1 DEF FailDecide, BuryJob
    <3>2. Ids(job_dlq') = Ids(job_dlq) \cup Ids(gone)
      BY <3>1, BuriedIds
    <3>3. \A r \in gone : r.attempts >= MaxAttempts
      BY <1>5, <2>1 DEF FailDecide, IInv, Copies, RowsOf, TypeOK, JobTypeOK,
                        JobRow, ConsumerState
    <3>4. CASE gone = {}
      BY <1>0, <3>1, <3>2, <3>4 DEF Ids
    <3>5. CASE \E r \in job_queue : gone = {r} /\ Ids(gone) = {r.job_id}
                                    /\ Items(job_queue \ gone) = Items(job_queue) \ {Item(r)}
      <4>1. PICK r \in job_queue : /\ r.attempts >= MaxAttempts /\ Ids(gone) = {r.job_id}
                                   /\ Items(job_queue') = Items(job_queue) \ {Item(r)}
        BY <3>1, <3>3, <3>5
      <4>2. WQ!GiveUp(Item(r))
        BY <3>1, <3>2, <4>1 DEF WQ!GiveUp, Items, Item, Ids
      <4> QED
        BY <4>2 DEF WQ!Next, Items, Item
    <3> QED
      <4>1. gone \in SUBSET job_queue /\ \A r, s \in gone : r = s
        BY DEF IInv, RowsOf, OneJobPerKey
      <4> HIDE DEF gone
      <4> QED
        BY <3>4, <3>5, <4>1, ItemsOfOne DEF IInv
  <2>2. CASE ~(consumer[c].read >= MaxAttempts)
    <3>1. /\ job_queue' = (job_queue \ gone) \cup {Postponed(r) : r \in gone}
          /\ UNCHANGED <<job_dlq, last_job_id, acked, canceled>>
      BY <1>5, <2>2 DEF FailDecide, PostponeJob
    <3>2. gone \subseteq job_queue /\ \A r \in gone : Item(Postponed(r)) = Item(r)
      BY PostponedRow DEF Item, RowsOf, IInv, TypeOK, JobTypeOK
    <3>3. Items(job_queue') = Items(job_queue)
      <4> HIDE DEF gone
      <4> QED
        BY <3>1, <3>2 DEF Items
    <3> QED
      BY <1>0, <3>1, <3>3 DEF Ids
  <2> QED
    BY <2>1, <2>2
<1>6. ASSUME VisibleAgain PROVE [WQ!Next]_(WQ!workVars)
  <2>1. PICK r \in job_queue :
          /\ job_queue' = (job_queue \ {r}) \cup {[r EXCEPT !.visible_at = "past"]}
          /\ UNCHANGED <<job_dlq, last_job_id, acked, canceled>>
    BY <1>6 DEF VisibleAgain, Reappear
  <2>2. Item([r EXCEPT !.visible_at = "past"]) = Item(r)
    BY DEF Item, IInv, TypeOK, JobTypeOK, JobRow
  <2>3. Items(job_queue') = Items(job_queue)
    BY <2>1, <2>2 DEF Items
  <2> QED
    BY <1>0, <2>1, <2>3 DEF Ids
<1>7. ASSUME UNCHANGED <<job_queue, job_dlq, last_job_id, acked, canceled>>
      PROVE  [WQ!Next]_(WQ!workVars)
  BY <1>0, <1>7 DEF Items, Ids
<1>8. ASSUME NEW c \in Consumers, FailSelect(c) \/ Throws(c) \/ Crash(c)
      PROVE  [WQ!Next]_(WQ!workVars)
  BY <1>7, <1>8 DEF FailSelect, Throws, Crash
<1>9. UNCHANGED vars => [WQ!Next]_(WQ!workVars)
  BY <1>7 DEF vars
<1> HIDE DEF stutter
<1> QED
  BY <1>1, <1>2, <1>3, <1>4, <1>5, <1>6, <1>8, <1>9 DEF Next

\* The queue implements WorkQueue: at-least-once delivery, one waiting job per
\* key, and every job leaves the queue once, in the way the code says.
THEOREM QueueImplements == Spec => ImplementsWorkQueue
<1>1. Init => WQ!Init
  BY DEF Init, JobInit, WQ!Init, Ids
<1>2. IInv /\ [Next]_vars => [WQ!Next]_(WQ!workVars)
  BY StepRefines
<1> QED
  BY <1>1, <1>2, Inductive, PTL DEF Spec, ImplementsWorkQueue, WQ!Spec

=============================================================================
