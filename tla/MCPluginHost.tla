---------------------------- MODULE MCPluginHost ----------------------------
(***************************************************************************)
(* PluginHost for TLC.  Requests and plugin ids are interchangeable.       *)
(***************************************************************************)
EXTENDS PluginHost, TLC

Symmetry == Permutations(Client) \cup Permutations(Plugin) \cup Permutations(Runner)
=============================================================================
