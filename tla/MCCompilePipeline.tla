------------------------- MODULE MCCompilePipeline -------------------------
(***************************************************************************)
(* CompilePipeline for TLC.  Clients are interchangeable and so are plugin *)
(* ids; sources are not, one of them compiles and the other does not.      *)
(* Symmetry is for the runs without liveness properties.                   *)
(***************************************************************************)
EXTENDS CompilePipeline, TLC

Symmetry == Permutations(Client) \cup Permutations(Plugin)
=============================================================================
