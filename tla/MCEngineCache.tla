--------------------------- MODULE MCEngineCache ---------------------------
(***************************************************************************)
(* EngineCache for TLC, with the refinement of MemoTable.  Goroutines and  *)
(* plugins are interchangeable; of the artefacts two can be loaded and one *)
(* cannot, so that racing first Runs may bring different bytes.            *)
(***************************************************************************)
EXTENDS CacheRefinement, TLC

Symmetry == Permutations(Runner) \cup Permutations(Plugin)
=============================================================================
