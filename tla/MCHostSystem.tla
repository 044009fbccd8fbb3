---------------------------- MODULE MCHostSystem ----------------------------
(***************************************************************************)
(* HostSystem for TLC.  Requests, executions, plugin ids and, since all of *)
(* them compile, source texts are interchangeable.                         *)
(***************************************************************************)
EXTENDS HostSystem, FiniteSets, TLC

Symmetry == Permutations(Client) \cup Permutations(Plugin)
              \cup Permutations(Runner) \cup Permutations(Source)

\* Bound: once there is a second plugin, none was or is being updated.
UpdatesToOneOnly ==
    \/ Cardinality(issued) <= 1
    \/ /\ \A p \in Plugin :
            Cardinality(submitted[p]) <= 1 /\ plugins[p].version <= 2
       /\ \A c \in Client :
            handler[c].at \notin {"update_write", "update_enqueue", "update_reread"}
=============================================================================
