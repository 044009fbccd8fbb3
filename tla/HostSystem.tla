----------------------------- MODULE HostSystem -----------------------------
(***************************************************************************)
(* The whole host with nothing put in place of a part: the control plane   *)
(* and the execution history of PluginHost around the module cache of      *)
(* EngineCache, with its map, its lock and its two lookups, where          *)
(* PluginHost has one atomic step.  An execution goes through the lock     *)
(* while requests, builds, deletes and crashes go on.                      *)
(***************************************************************************)
EXTENDS CompilePipeline

CONSTANTS
    Runner,      \* goroutines of handleExecutePlugin
    NoRunner,    \* the lock has no writer
    FKEnforced   \* the database enforces the foreign key of executions

ASSUME SystemAssumption == NoRunner \notin Runner /\ FKEnforced \in BOOLEAN

VARIABLES
    modules, run, readers, parked, writer,   \* as in EngineCache
    history, submitted                       \* as in PluginHost

Engine == INSTANCE CacheRefinement
            WITH Artefact <- Source, Loadable <- Compilable, NoModule <- None

Host == INSTANCE PluginHost WITH table <- modules, call <- Engine!CallsOf

engineVars == <<modules, run, readers, parked, writer>>
systemVars == <<vars, engineVars, history, submitted>>

SystemInit ==
    /\ Init
    /\ Engine!CacheInit
    /\ history = {}
    /\ submitted = [p \in Plugin |-> {}]

-----------------------------------------------------------------------------
\* Requests, worker and deletes do not touch the engine.
ControlPlane ==
    /\ UNCHANGED engineVars
    /\ \/ \E c \in Client, p \in Plugin, s \in Source : Host!Submit(c, p, s)
       \/ \E c \in Client, p \in Plugin :
            Host!ForgetHistory(c, p) \/ Host!ForgetHistoryFails(c, p)
       \/ \E c \in Client : Host!RemoveRow(c)
       \/ Host!ControlStep

\* handleExecutePlugin up to the call of engine.Run.
Execute(r, p) ==
    /\ plugins[p].status = "compiled"
    /\ Engine!StartRun(r, p, plugins[p].wasm)
    /\ UNCHANGED <<vars, history, submitted>>

\* A lookup, or a step of the lock or of Compile.
EngineStep(r) ==
    /\ Engine!RunStep(r)
    /\ UNCHANGED <<vars, history, submitted>>

\* Run returned a result, also when there is no module: it is recorded.
SaveExecution(r) ==
    /\ Engine!FinishRun(r)
    /\ Host!Record(run[r].id)
    /\ UNCHANGED <<vars, submitted>>

\* Run has a module and returned an error, or panicked.
RunFails(r) ==
    /\ run[r].at = "got"
    /\ Engine!FinishRun(r)
    /\ UNCHANGED <<vars, history, submitted>>

\* The process dies: the engine is a new one, unlocked and empty.
Restart ==
    /\ Crash
    /\ modules' = [p \in Plugin |-> None]
    /\ run' = [r \in Runner |-> Engine!IdleRun]
    /\ readers' = {} /\ parked' = {} /\ writer' = NoRunner
    /\ UNCHANGED <<history, submitted>>

SystemNext ==
    \/ ControlPlane
    \/ \E r \in Runner, p \in Plugin : Execute(r, p)
    \/ \E r \in Runner : EngineStep(r) \/ SaveExecution(r) \/ RunFails(r)
    \/ Restart

SystemSpec == SystemInit /\ [][SystemNext]_systemVars

-----------------------------------------------------------------------------
\* Tenants are kept apart all the way through the lock and the map: a module
\* that GetModule hands to a run was built from a text submitted under the
\* plugin's own id, whoever else fills the map between the two lookups.
RunsOwnModule ==
    \A r \in Runner :
        run[r].mod # None => run[r].mod \in submitted[run[r].id]

\* For everybody but the engine itself, GetModule is one atomic step, also
\* while rows, builds, deletes and crashes of the process go on around it.
ImplementsHost == Host!HostSpec
=============================================================================
