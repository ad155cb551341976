-------------------------------- MODULE RunKey --------------------------------
(***************************************************************************)
(* What names a policy run to callers and to the queue: the tuple system,  *)
(* sv, bucket, policy version and horizon that buildPolicyRunDedupeKey     *)
(* joins (packages/api/src/http/policy.ts).  Only equality matters.        *)
(***************************************************************************)
CONSTANT Keys
=============================================================================
