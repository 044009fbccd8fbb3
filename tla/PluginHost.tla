----------------------------- MODULE PluginHost -----------------------------
(***************************************************************************)
(* The whole host: the control plane of CompilePipeline, the engine's      *)
(* module cache and the execution history, brought together by the two     *)
(* handlers of main.go that touch more than one of them, execute and       *)
(* delete.  The cache is the atomic MemoTable, which EngineCache           *)
(* implements (theorem CacheImplementsMemo).                               *)
(***************************************************************************)
EXTENDS CompilePipeline

CONSTANTS
    Runner,      \* goroutines of handleExecutePlugin
    FKEnforced   \* the database enforces the foreign key of executions:
                 \* Postgres does, SQLite as it is opened here does not

ASSUME HostAssumption == FKEnforced \in BOOLEAN

VARIABLES
    table,      \* Engine.modules
    call,       \* the Engine.Run that each execute handler is in
    history,    \* ids with rows in the executions table
    submitted   \* ghost: the texts clients submitted under each id

engineVars == <<table, call>>
hostVars == <<vars, engineVars, history, submitted>>

Memo == INSTANCE MemoTable
          WITH Artefact <- Source, Loadable <- Compilable, NoModule <- None

HostInit ==
    /\ Init
    /\ Memo!Init
    /\ history = {}
    /\ submitted = [p \in Plugin |-> {}]

-----------------------------------------------------------------------------
\* The control plane alone, deletes aside.
Submit(c, p, s) ==
    /\ CreatePlugin(c, p, s) \/ UpdateCheck(c, p, s)
    /\ submitted' = [submitted EXCEPT ![p] = @ \cup {s}]
    /\ UNCHANGED <<engineVars, history>>

ControlStep ==
    /\ \/ WorkerStep
       \/ \E c \in Client : UpdateWrite(c) \/ QueueCompile(c) \/ UpdateReread(c)
    /\ UNCHANGED <<engineVars, history, submitted>>

\* Mutant: a plugin whose module is cached already is run without its row.
ExecuteFromCache(r, p) ==
    /\ plugins[p].status = "compiled" \/ table[p] # None
    /\ Memo!Invoke(r, p, plugins[p].wasm)
    /\ UNCHANGED <<vars, history, submitted>>

\* handleExecutePlugin: GetPlugin, the test of the status, and engine.Run
\* with the artefact that was read.  Any other status is a 409.
ExecuteBegin(r, p) ==
    /\ plugins[p].status = "compiled"
    /\ Memo!Invoke(r, p, plugins[p].wasm)
    /\ UNCHANGED <<vars, history, submitted>>

\* GetModule answers with a module or an error.
GetModule(r) ==
    /\ Memo!Answer(r)
    /\ UNCHANGED <<vars, history, submitted>>

\* The INSERT of SaveExecution for a run of p.
Record(p) ==
    \E o \in Outcomes :
        history' = IF FKEnforced /\ ~Exists(plugins, p)
                   THEN history ELSE Written(history, o, history \cup {p})

\* Run returned a result, whatever its status: SaveExecution, whose error is
\* only logged, and the answer.
SaveExecution(r) ==
    /\ Memo!Return(r)
    /\ Record(call[r].id)
    /\ UNCHANGED <<vars, submitted>>

\* Run returned an error (no temporary file) or panicked: a 500, no history.
RunFails(r) ==
    /\ call[r].res # None
    /\ Memo!Return(r)
    /\ UNCHANGED <<vars, history, submitted>>

\* handleDeletePlugin: the first statement of DeletePlugin succeeds.
ForgetHistory(c, p) ==
    /\ DeleteHistory(c, p)
    /\ history' = history \ {p}
    /\ UNCHANGED <<engineVars, submitted>>

\* It fails: a 500, though the history may be gone.
ForgetHistoryFails(c, p) ==
    /\ handler[c].at = "idle"
    /\ \E o \in Faults : history' = Written(history, o, history \ {p})
    /\ UNCHANGED <<vars, engineVars, submitted>>

\* The second statement, which an enforced foreign key refuses as long as
\* there is history.
RemoveRow(c) ==
    /\ \E o \in IF FKEnforced /\ handler[c].id \in history
                THEN {"rejected"} ELSE Outcomes : DeleteRowWith(c, o)
    /\ UNCHANGED <<engineVars, history, submitted>>

\* The engine starts again with an empty map.
Restart ==
    /\ Crash
    /\ table' = [p \in Plugin |-> None]
    /\ call' = [r \in Runner |-> Memo!NoCall]
    /\ UNCHANGED <<history, submitted>>

HostNext ==
    \/ \E c \in Client, p \in Plugin, s \in Source : Submit(c, p, s)
    \/ \E c \in Client, p \in Plugin :
         ForgetHistory(c, p) \/ ForgetHistoryFails(c, p)
    \/ \E c \in Client : RemoveRow(c)
    \/ ControlStep
    \/ \E r \in Runner, p \in Plugin : ExecuteBegin(r, p)
    \/ \E r \in Runner : GetModule(r) \/ SaveExecution(r) \/ RunFails(r)
    \/ Restart

HostSpec == HostInit /\ [][HostNext]_hostVars

-----------------------------------------------------------------------------
\* Tenants are kept apart: what the engine runs for a plugin was submitted
\* under the id of that plugin, through queue, build and cache.
RunsOwnCode ==
    \A r \in Runner : call[r].res # None => call[r].res \in submitted[call[r].id]

\* The first verdict is served as it is: a plugin whose only build compiled
\* never runs, and never has cached, anything but the artefact in its row.
FirstVersionServed ==
    \A p \in Plugin : plugins[p].status = "compiled" /\ plugins[p].version = 2 =>
        table[p] \in {None, plugins[p].wasm}

\* What the dashboard says of a plugin that is compiled after "Deploy &
\* Recompile": "Engine preloaded module cached safely. Ready to run!".
DeployedCodeIsServed ==
    \A p \in Plugin : plugins[p].status = "compiled" =>
        table[p] \in {None, plugins[p].wasm}

\* Nothing is left of p but what the engine has cached: no row, no history and
\* no execution that is still to be recorded.
Gone(p) ==
    /\ ~Exists(plugins, p) /\ p \notin history
    /\ \A r \in Runner : call[r].at # "idle" => call[r].id # p

\* A delete is final once the executions it met have ended, even without a
\* foreign key: no update that had found the row, no queued or running build
\* and no module that stays in the cache brings back the plugin, a run of it
\* or a record of one.
GoneForGood == [][\A p \in issued : Gone(p) => Gone(p)']_hostVars

\* "Delete this plugin and all its execution history": between requests no
\* history belongs to a plugin that was deleted.
NoOrphanHistory == \A p \in history : Exists(plugins, p)
=============================================================================
