------------------------------ MODULE MCPipeline -----------------------------
(***************************************************************************)
(* Values for the constants of PipelineBatch are in the configurations.    *)
(***************************************************************************)
EXTENDS PipelineBatch
==============================================================================
