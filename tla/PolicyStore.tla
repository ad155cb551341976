------------------------------ MODULE PolicyStore ------------------------------
(***************************************************************************)
(* The tables policy_runs and policy_moves (migration 0012), the           *)
(* statements PgPolicyOutputStore writes them with                         *)
(* (packages/policy/src/output_store.ts) and the reads of PgPolicyStore    *)
(* (packages/api/src/policy/store.ts).  Each statement is atomic and no    *)
(* transaction spans two of them.                                          *)
(***************************************************************************)
EXTENDS RunKey, Integers, FiniteSets, Sequences

CONSTANTS Specs,   \* policy_spec_sha256 of the solver's specifications
          Moves    \* from, to and bikes of a move

ErrorSpec == "policy_worker_error"

VARIABLES policy_runs, policy_moves, last_run_id

storeVars == <<policy_runs, policy_moves, last_run_id>>

Reasons == {"none", "persisting_moves", "job_error"}

RunRow == [run_id : Nat, key : Keys, spec : Specs \cup {ErrorSpec},
           status : {"success", "fail"}, error_reason : Reasons,
           no_op : {"yes", "no"}]
MoveRow == [run_id : Nat, move_rank : Nat, move : Moves]

\* The last conjunct is the table's CHECK.
StoreTypeOK ==
  /\ policy_runs \subseteq RunRow
  /\ policy_moves \subseteq MoveRow
  /\ last_run_id \in Nat
  /\ \A r \in policy_runs : r.status = "fail" <=> r.error_reason # "none"

StoreInit == policy_runs = {} /\ policy_moves = {} /\ last_run_id = 0

RunsOf(k) == {r \in policy_runs : r.key = k}

\* getRunSummary: the run of the key created last; the spec is not asked for,
\* and an upsert of an older row does not change when it was created.
LatestRun(k) == {r \in RunsOf(k) : \A s \in RunsOf(k) : s.run_id <= r.run_id}

\* listMoves: the moves of a run, in rank order.
MovesOf(id) == {m \in policy_moves : m.run_id = id}

Conflicting(k, spec) == {r \in policy_runs : r.key = k /\ r.spec = spec}

\* The run_id an upsert returns.
RunIdFor(k, spec) ==
  IF Conflicting(k, spec) = {} THEN last_run_id + 1
  ELSE (CHOOSE r \in Conflicting(k, spec) : TRUE).run_id

\* INSERT INTO policy_runs ... ON CONFLICT (namespace) DO UPDATE.
UpsertRun(k, spec, status, reason, no_op) ==
  /\ policy_runs' = (policy_runs \ Conflicting(k, spec)) \cup
       {[run_id |-> RunIdFor(k, spec), key |-> k, spec |-> spec,
         status |-> status, error_reason |-> reason, no_op |-> no_op]}
  /\ last_run_id' = IF Conflicting(k, spec) = {} THEN last_run_id + 1
                                                 ELSE last_run_id
  /\ UNCHANGED policy_moves

\* Mutant: the DELETE of replaceMoves is forgotten.
MutKeepMoves(id) == UNCHANGED storeVars

\* replaceMoves, first statement.
DeleteMoves(id) ==
  /\ policy_moves' = policy_moves \ MovesOf(id)
  /\ UNCHANGED <<policy_runs, last_run_id>>

\* The primary key (run_id, move_rank) is taken: the INSERT throws.
RankTaken(id, rank) == \E m \in MovesOf(id) : m.move_rank = rank

\* replaceMoves, one INSERT of its loop.
InsertMove(id, rank, move) ==
  /\ ~RankTaken(id, rank)
  /\ policy_moves' = policy_moves \cup
       {[run_id |-> id, move_rank |-> rank, move |-> move]}
  /\ UNCHANGED <<policy_runs, last_run_id>>

\* The rows replaceMoves leaves behind for a list of moves when it ran alone.
RowsFor(id, moves) ==
  {[run_id |-> id, move_rank |-> i, move |-> moves[i]] : i \in 1..Len(moves)}

=============================================================================
