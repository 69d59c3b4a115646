----------------------------- MODULE MCPipeline -----------------------------
(* Both backends; three failures reach every pair of a failed call and a   *)
(* failed cleanup, and a failed retry.                                     *)
EXTENDS Pipeline
=============================================================================
