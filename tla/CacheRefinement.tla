-------------------------- MODULE CacheRefinement --------------------------
(***************************************************************************)
(* EngineCache implements MemoTable: GetModule, with its two lookups and   *)
(* the double check under the write lock, is linearizable.  A call takes   *)
(* effect at the first lookup when that hits, and in Compile otherwise:    *)
(* the second lookup only finds what Compile left there.                   *)
(***************************************************************************)
EXTENDS EngineCache

CallOf(r) ==
    CASE run[r].at = "idle" ->
           [at |-> "idle", id |-> NoModule, bytes |-> NoModule, res |-> NoModule]
      [] run[r].at \in {"read", "miss", "locking", "load"} ->
           [at |-> "called", id |-> run[r].id, bytes |-> run[r].bytes,
            res |-> NoModule]
      [] run[r].at = "reread" ->
           [at |-> "answered", id |-> run[r].id, bytes |-> run[r].bytes,
            res |-> modules[run[r].id]]
      [] run[r].at \in {"got", "error"} ->
           [at |-> "answered", id |-> run[r].id, bytes |-> run[r].bytes,
            res |-> run[r].mod]

CallsOf == [r \in Runner |-> CallOf(r)]

Memo == INSTANCE MemoTable WITH table <- modules, call <- CallsOf

\* GetModule behaves as one atomic step per call, whatever the interleaving
\* of the lookups, the write lock and the loads of other goroutines.
ImplementsMemo == Memo!Spec
=============================================================================
