---------------------------- MODULE MCPingPipeline ----------------------------
(***************************************************************************)
(* Small instances of PingPipeline.  The workers are interchangeable.      *)
(***************************************************************************)
EXTENDS PipelineRefinement, TLC

Symmetry == Permutations(Workers)
=============================================================================
