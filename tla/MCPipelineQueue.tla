---------------------------- MODULE MCPipelineQueue ----------------------------
(* Small instances of PipelineQueue. *)
EXTENDS PipelineQueue, MCPolicyPipeline

OneMove == {PlanB}
RunOrCancel == {"run", "cancel"}  \* the routes that write the queue
WorkerSymmetry == Permutations(TwoWorkers)

=============================================================================
