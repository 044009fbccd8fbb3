------------------------ MODULE MCPipelineRefinement ------------------------
(***************************************************************************)
(* CompilePipeline with the refinement of PluginCatalog for TLC, fairness  *)
(* included.  Liveness is checked, so there is no symmetry.                *)
(***************************************************************************)
EXTENDS PipelineRefinement
=============================================================================
