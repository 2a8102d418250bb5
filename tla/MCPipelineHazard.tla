-------------------------- MODULE MCPipelineHazard --------------------------
(* The three slots of a session. *)
EXTENDS PipelineHazard
=============================================================================
