-------------------------- MODULE CompilePipeline --------------------------
(***************************************************************************)
(* The control plane of the plugin host: the HTTP handlers of main.go that *)
(* create, update and delete plugins, the bounded compileQueue and the one *)
(* goroutine of compiler/worker.go that builds plugins, all of them over   *)
(* the plugins table.  Each statement sent to the database, each channel   *)
(* operation and each phase of a build is a step of its own.  The handlers *)
(* that only read change nothing and are not actions.                      *)
(***************************************************************************)
EXTENDS PluginStore, Sequences

CONSTANTS
    Client,       \* HTTP request goroutines
    QueueSize,    \* capacity of compileQueue (100 in main.go)
    Compilable,   \* sources that cargo can build
    Faults,       \* ways in which a database statement may go wrong
    RemovalFails, \* os.RemoveAll may fail, as where a file is held open
    MaxCrashes,   \* bound: crashes of the host process
    MaxVersion    \* bound: rows at this version receive no new update

ASSUME PipelineAssumption ==
    /\ QueueSize \in Nat \ {0}
    /\ Compilable \subseteq Source
    /\ Faults \subseteq Outcome \ {"ok"}
    /\ RemovalFails \in BOOLEAN
    /\ MaxCrashes \in Nat
    /\ MaxVersion \in Nat

VARIABLES
    plugins,    \* the plugins table
    issued,     \* ids handed out by uuid.New(), which never repeats one
    handler,    \* where each request goroutine is
    queue,      \* compileQueue
    worker,     \* the compile goroutine
    buildDirs,  \* ids with a directory .build/temp_build_<id> on disk
    crashes     \* crashes so far

vars == <<plugins, issued, handler, queue, worker, buildDirs, crashes>>

Outcomes == {"ok"} \cup Faults

HandlerAt == {"idle", "create_enqueue", "update_write", "update_enqueue",
              "update_reread", "delete_row"}

\* The handler is in QueueCompile, the channel send not done yet.
Sending == {"create_enqueue", "update_enqueue"}

Handler == [at: HandlerAt, id: Plugin \cup {None}, src: Source \cup {None}]

At(at, id, src) == [at |-> at, id |-> id, src |-> src]

IdleHandler == At("idle", None, None)

Worker == [at: {"idle", "fetch", "setup", "build", "save", "clean"},
           id: Plugin \cup {None},
           src: Source \cup {None},
           out: {"compiled", "failed", "unknown"}]

IdleWorker == [at |-> "idle", id |-> None, src |-> None, out |-> "unknown"]

Init ==
    /\ plugins = [p \in Plugin |-> Absent]
    /\ issued = {}
    /\ handler = [c \in Client |-> IdleHandler]
    /\ queue = <<>>
    /\ worker = IdleWorker
    /\ buildDirs = {}
    /\ crashes = 0

-----------------------------------------------------------------------------
\* POST /api/plugins with a valid body: the row is inserted.  On an error the
\* handler answers 500 and never enqueues, even if the insert was applied.
CreatePlugin(c, p, s) ==
    /\ handler[c].at = "idle"
    /\ p \notin issued
    /\ issued' = issued \cup {p}
    /\ \E o \in Outcomes :
         /\ plugins' = Written(plugins, o, SavePlugin(plugins, p, s))
         /\ handler' = IF o = "ok"
                       THEN [handler EXCEPT ![c] = At("create_enqueue", p, None)]
                       ELSE handler
    /\ UNCHANGED <<queue, worker, buildDirs, crashes>>

\* PUT /api/plugins/{id}: GetPlugin found the row and the body is valid.  A
\* missing row (404), a failed read or a bad body (400) changes nothing.
UpdateCheck(c, p, s) ==
    /\ handler[c].at = "idle"
    /\ Exists(plugins, p)
    /\ plugins[p].version < MaxVersion
    /\ handler' = [handler EXCEPT ![c] = At("update_write", p, s)]
    /\ UNCHANGED <<plugins, issued, queue, worker, buildDirs, crashes>>

\* Mutant: the handler answers after UpdatePluginCode and enqueues nothing
\* when the row is being built already.
UpdateWriteDedup(c) ==
    /\ handler[c].at = "update_write"
    /\ \E o \in Outcomes :
         /\ plugins' = Written(plugins, o, UpdatePluginCode(
                                 plugins, handler[c].id, handler[c].src))
         /\ handler' =
              IF o = "ok" /\ worker.id # handler[c].id
              THEN [handler EXCEPT ![c] =
                     At("update_enqueue", handler[c].id, None)]
              ELSE [handler EXCEPT ![c] = IdleHandler]
    /\ UNCHANGED <<issued, queue, worker, buildDirs, crashes>>

\* UpdatePluginCode: the row may be gone by now, which is no error.
UpdateWrite(c) ==
    /\ handler[c].at = "update_write"
    /\ \E o \in Outcomes :
         /\ plugins' = Written(plugins, o, UpdatePluginCode(
                                 plugins, handler[c].id, handler[c].src))
         /\ handler' =
              IF o = "ok"
              THEN [handler EXCEPT ![c] =
                     At("update_enqueue", handler[c].id, None)]
              ELSE [handler EXCEPT ![c] = IdleHandler]
    /\ UNCHANGED <<issued, queue, worker, buildDirs, crashes>>

\* Mutant: the ids wait in a slice that grows, not in the channel.
QueueCompileUnbounded(c) ==
    /\ handler[c].at \in Sending
    /\ queue' = Append(queue, handler[c].id)
    /\ handler' = IF handler[c].at = "create_enqueue"
                  THEN [handler EXCEPT ![c] = IdleHandler]
                  ELSE [handler EXCEPT ![c].at = "update_reread"]
    /\ UNCHANGED <<plugins, issued, worker, buildDirs, crashes>>

\* QueueCompile: the send blocks while the channel is full.  The create
\* handler then answers; the update handler reads the row back first.
QueueCompile(c) ==
    /\ handler[c].at \in Sending
    /\ Len(queue) < QueueSize
    /\ queue' = Append(queue, handler[c].id)
    /\ handler' = IF handler[c].at = "create_enqueue"
                  THEN [handler EXCEPT ![c] = IdleHandler]
                  ELSE [handler EXCEPT ![c].at = "update_reread"]
    /\ UNCHANGED <<plugins, issued, worker, buildDirs, crashes>>

\* The update handler's second GetPlugin and its answer, 200 or 500.
UpdateReread(c) ==
    /\ handler[c].at = "update_reread"
    /\ handler' = [handler EXCEPT ![c] = IdleHandler]
    /\ UNCHANGED <<plugins, issued, queue, worker, buildDirs, crashes>>

\* DELETE /api/plugins/{id} for any id: the first statement of DeletePlugin
\* removes the execution history and leaves the plugins table alone.
DeleteHistory(c, p) ==
    /\ handler[c].at = "idle"
    /\ handler' = [handler EXCEPT ![c] = At("delete_row", p, None)]
    /\ UNCHANGED <<plugins, issued, queue, worker, buildDirs, crashes>>

\* The second statement of DeletePlugin ending as o says, and the answer.
DeleteRowWith(c, o) ==
    /\ handler[c].at = "delete_row"
    /\ plugins' = Written(plugins, o, DeletePluginRow(plugins, handler[c].id))
    /\ handler' = [handler EXCEPT ![c] = IdleHandler]
    /\ UNCHANGED <<issued, queue, worker, buildDirs, crashes>>

DeleteRow(c) == \E o \in Outcomes : DeleteRowWith(c, o)

-----------------------------------------------------------------------------
\* for id := range w.compileQueue
TakeJob ==
    /\ worker.at = "idle"
    /\ queue # <<>>
    /\ worker' = [at |-> "fetch", id |-> Head(queue), src |-> None,
                   out |-> "unknown"]
    /\ queue' = Tail(queue)
    /\ UNCHANGED <<plugins, issued, handler, buildDirs, crashes>>

\* compilePlugin reads the row.
FetchPlugin ==
    /\ worker.at = "fetch"
    /\ Exists(plugins, worker.id)
    /\ worker' = [worker EXCEPT !.at = "setup",
                                !.src = plugins[worker.id].source]
    /\ UNCHANGED <<plugins, issued, handler, queue, buildDirs, crashes>>

\* The row is gone or the read failed: the job is dropped.
DropJob ==
    /\ worker.at = "fetch"
    /\ Exists(plugins, worker.id) => Faults # {}
    /\ worker' = IdleWorker
    /\ UNCHANGED <<plugins, issued, handler, queue, buildDirs, crashes>>

\* Mutant: a directory that is there already is taken for a build that is
\* under way, and the job is dropped.
SetupBuildExclusive ==
    /\ worker.at = "setup"
    /\ IF worker.id \in buildDirs
       THEN worker' = IdleWorker /\ UNCHANGED buildDirs
       ELSE /\ buildDirs' = buildDirs \cup {worker.id}
            /\ worker' = [worker EXCEPT !.at = "build"]
    /\ UNCHANGED <<plugins, issued, handler, queue, crashes>>

\* setupTempCargoProject succeeds.
SetupBuild ==
    /\ worker.at = "setup"
    /\ buildDirs' = buildDirs \cup {worker.id}
    /\ worker' = [worker EXCEPT !.at = "build"]
    /\ UNCHANGED <<plugins, issued, handler, queue, crashes>>

\* Mutant: a failed setup returns before the deferred RemoveAll is in place.
SetupFailsEarlyReturn ==
    /\ worker.at = "setup"
    /\ buildDirs' \in {buildDirs, buildDirs \cup {worker.id}}
    /\ worker' = IdleWorker
    /\ UNCHANGED <<plugins, issued, handler, queue, crashes>>

\* Mutant: the loop of Start ends with the first build it cannot set up.
SetupFailsStops ==
    /\ worker.at = "setup"
    /\ buildDirs' \in {buildDirs, buildDirs \cup {worker.id}}
    /\ worker' = [worker EXCEPT !.at = "stopped"]
    /\ UNCHANGED <<plugins, issued, handler, queue, crashes>>

\* setupTempCargoProject fails, before or after the directory was made.
SetupFails ==
    /\ worker.at = "setup"
    /\ buildDirs' \in {buildDirs, buildDirs \cup {worker.id}}
    /\ worker' = [worker EXCEPT !.at = "save", !.out = "failed"]
    /\ UNCHANGED <<plugins, issued, handler, queue, crashes>>

\* runCargoBuild and the read of the artefact; both may also fail for
\* reasons that have nothing to do with the source.
RunCargoBuild ==
    /\ worker.at = "build"
    /\ \/ /\ worker.src \in Compilable
          /\ worker' = [worker EXCEPT !.at = "save", !.out = "compiled"]
       \/ worker' = [worker EXCEPT !.at = "save", !.out = "failed"]
    /\ UNCHANGED <<plugins, issued, handler, queue, buildDirs, crashes>>

\* UpdatePluginStatus with the verdict; an error is logged or ignored.
SaveVerdict ==
    /\ worker.at = "save"
    /\ \E o \in Outcomes :
         plugins' = Written(plugins, o,
           IF worker.out = "compiled"
           THEN UpdatePluginStatus(plugins, worker.id, "compiled",
                                   worker.src, None)
           ELSE UpdatePluginStatus(plugins, worker.id, "failed",
                                   None, worker.src))
    /\ worker' = [worker EXCEPT !.at = "clean"]
    /\ UNCHANGED <<issued, handler, queue, buildDirs, crashes>>

\* The deferred RemoveAll, whose error nobody reads, then the next round of
\* the loop.  A removal that stops half way leaves the directory.
CleanBuildDir ==
    /\ worker.at = "clean"
    /\ \/ buildDirs' = buildDirs \ {worker.id}
       \/ RemovalFails /\ UNCHANGED buildDirs
    /\ worker' = IdleWorker
    /\ UNCHANGED <<plugins, issued, handler, queue, crashes>>

-----------------------------------------------------------------------------
\* The process dies and main() starts again: the table and the build
\* directories survive, the queue is a new one and nothing refills it.
Crash ==
    /\ crashes < MaxCrashes
    /\ crashes' = crashes + 1
    /\ handler' = [c \in Client |-> IdleHandler]
    /\ queue' = <<>>
    /\ worker' = IdleWorker
    /\ UNCHANGED <<plugins, issued, buildDirs>>

WorkerStep ==
    \/ TakeJob
    \/ FetchPlugin
    \/ DropJob
    \/ SetupBuild
    \/ SetupFails
    \/ RunCargoBuild
    \/ SaveVerdict
    \/ CleanBuildDir

Next ==
    \/ \E c \in Client, p \in Plugin, s \in Source :
         \/ CreatePlugin(c, p, s)
         \/ UpdateCheck(c, p, s)
    \/ \E c \in Client, p \in Plugin : DeleteHistory(c, p)
    \/ \E c \in Client :
         \/ UpdateWrite(c)
         \/ QueueCompile(c)
         \/ UpdateReread(c)
         \/ DeleteRow(c)
    \/ WorkerStep
    \/ Crash

Spec == Init /\ [][Next]_vars

\* The goroutines run and cargo terminates; clients owe the host nothing.
\* A blocked send is strongly fair: the runtime queues senders in FIFO order.
Fairness ==
    /\ WF_vars(WorkerStep)
    /\ \A c \in Client :
         /\ WF_vars(UpdateWrite(c) \/ UpdateReread(c) \/ DeleteRow(c))
         /\ SF_vars(QueueCompile(c))

FairSpec == Spec /\ Fairness

-----------------------------------------------------------------------------
\* Somebody will still read the current row of p and build it.
JobDue(p) ==
    \/ \E i \in 1..Len(queue) : queue[i] = p
    \/ \E c \in Client : handler[c].at \in Sending /\ handler[c].id = p
    \/ worker.at = "fetch" /\ worker.id = p

\* The worker has read the row of p and has not stored its verdict yet.
Building(p) == worker.at \in {"setup", "build", "save"} /\ worker.id = p

\* The row carries a verdict, and it is the verdict on its own source.
Settled(p) ==
    \/ plugins[p].status = "compiled" /\ plugins[p].wasm = plugins[p].source
    \/ plugins[p].status = "failed" /\ plugins[p].errors = plugins[p].source

Stale(p) == plugins[p].status \in {"compiled", "failed"} /\ ~Settled(p)

\* Variables hold values of their types, and the channel its capacity.
TypeOK ==
    /\ plugins \in [Plugin -> Row]
    /\ issued \subseteq Plugin
    /\ handler \in [Client -> Handler]
    /\ queue \in Seq(Plugin) /\ Len(queue) <= QueueSize
    /\ worker \in Worker
    /\ buildDirs \subseteq Plugin
    /\ crashes \in 0..MaxCrashes

\* The row awaits a decision, or carries one on an older source because an
\* update overtook the build in compilePlugin, and neither a queued id, a
\* blocked sender nor the running build will replace it.
Lost(p) ==
    /\ Exists(plugins, p) /\ ~Settled(p)
    /\ ~JobDue(p) /\ ~(Building(p) /\ worker.src = plugins[p].source)

\* As long as the database answers, a rebuild is lost only by a crash: no
\* order of requests, queue and worker takes the last build away from a row
\* that still needs one.
OnlyCrashesLoseRebuilds ==
    [][crashes' = crashes => \A p \in Plugin : Lost(p)' => Lost(p)]_vars

\* What handleExecutePlugin relies on when it tests status = "compiled":
\* whatever fails or crashes in between, such a row holds an artefact of a
\* source that compiles, and a failed row holds no artefact.
StatusMatchesArtefact ==
    \A p \in Plugin :
        /\ plugins[p].status = "compiled" => plugins[p].wasm \in Compilable
        /\ plugins[p].status = "failed" => plugins[p].wasm = None

\* The build directories of no build that is running.
LeftDirs ==
    buildDirs \ (IF worker.at \in {"build", "save", "clean"}
                 THEN {worker.id} ELSE {})

\* Without a crash a build directory is left behind only where RemoveAll was
\* called on it and failed: every path through compilePlugin that may have
\* made one, whatever fails on it, reaches the deferred call.
OnlyFailuresLeaveDirs ==
    [][crashes' = crashes =>
         \A p \in LeftDirs' \ LeftDirs :
             RemovalFails /\ worker.at = "clean" /\ worker.id = p]_vars

\* A deleted plugin stays deleted: no verdict of a build in flight and no
\* update that had already found the row brings it back.
DeletedStaysDeleted ==
    [][\A p \in issued : ~Exists(plugins, p) => ~Exists(plugins', p)]_vars

\* Every plugin that is pending leaves that status or disappears, however
\* many requests compete for the queue and the worker, unless the host dies.
PendingIsDecided ==
    \A p \in Plugin :
        (plugins[p].status = "pending" /\ crashes = 0)
        ~> (plugins[p].status # "pending" \/ crashes > 0)

\* A verdict on an older source, left by a build that an update overtook,
\* never stays in the row for good, unless the host dies.
StaleVerdictReplaced ==
    \A p \in Plugin : (Stale(p) /\ crashes = 0) ~> (~Stale(p) \/ crashes > 0)

\* Every request is answered: no handler stays blocked on the full queue.
RequestsAnswered ==
    \A c \in Client : handler[c].at # "idle" ~> handler[c].at = "idle"

\* Once crashes are over, a plugin orphaned by one is decided as soon as
\* somebody submits it again: the update reaching the queue is enough.
ResubmissionRecovers ==
    \A p \in Plugin :
        (crashes = MaxCrashes
           /\ \E c \in Client : handler[c].at \in Sending /\ handler[c].id = p)
        ~> plugins[p].status # "pending"

\* A build directory left behind, by a crash or by a RemoveAll that failed, is
\* no obstacle: the next build of its plugin runs through it and comes to
\* remove it again, unless the plugin is deleted before.
RebuildRetriesRemoval ==
    \A p \in Plugin :
        (crashes = MaxCrashes /\ p \in buildDirs /\ JobDue(p))
        ~> \/ p \notin buildDirs \/ ~Exists(plugins, p)
           \/ worker.at = "clean" /\ worker.id = p
=============================================================================
