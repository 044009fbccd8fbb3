--------------------------- MODULE PipelineProofs ---------------------------
(***************************************************************************)
(* Theorems about CompilePipeline, for every choice of its constants.      *)
(***************************************************************************)
EXTENDS PipelineRefinement, StoreLemmas

\* A request or a job in progress knows its plugin, and what it will write.
Bound ==
    /\ \A c \in Client : handler[c].at # "idle" => handler[c].id \in Plugin
    /\ \A c \in Client :
         handler[c].at = "update_write" => handler[c].src \in Source
    /\ worker.at # "idle" => worker.id \in Plugin
    /\ worker.at \in {"setup", "build", "save"} => worker.src \in Source
    /\ Sourced(plugins)

TInv == TypeOK /\ Bound

\* The initial state is typed.
LEMMA TInvInit == Init => TInv
  BY PipelineAssumption DEF Init, TInv, TypeOK, Bound, Absent, Row, Statuses,
     Handler, HandlerAt, At, IdleHandler, Worker, IdleWorker, Exists,
     Sourced

\* Every step of handlers, worker and crashes keeps the types.
LEMMA TInvNext == TInv /\ [Next]_vars => TInv'
<1> SUFFICES ASSUME TInv, [Next]_vars PROVE TInv'
  OBVIOUS
<1> USE DEF TInv, TypeOK, Bound
<1>1. ASSUME NEW c \in Client, NEW p \in Plugin, NEW s \in Source,
             CreatePlugin(c, p, s)
      PROVE  TInv'
  <2>1. plugins' \in {plugins, SavePlugin(plugins, p, s)}
    BY <1>1, WrittenEither DEF CreatePlugin
  <2>2. plugins' \in [Plugin -> Row] /\ Sourced(plugins')
    BY <2>1, SavePluginType DEF Table
  <2>3. QED
    BY <1>1, <2>2 DEF CreatePlugin, Handler, HandlerAt, At
<1>2. ASSUME NEW c \in Client, NEW p \in Plugin, NEW s \in Source,
             UpdateCheck(c, p, s)
      PROVE  TInv'
  BY <1>2 DEF UpdateCheck, Handler, HandlerAt, At
<1>3. ASSUME NEW c \in Client, NEW p \in Plugin, DeleteHistory(c, p)
      PROVE  TInv'
  BY <1>3 DEF DeleteHistory, Handler, HandlerAt, At
<1>4. ASSUME NEW c \in Client, UpdateWrite(c)
      PROVE  TInv'
  <2> DEFINE new == UpdatePluginCode(plugins, handler[c].id, handler[c].src)
  <2>1. handler[c].id \in Plugin /\ handler[c].src \in Source
    BY <1>4 DEF UpdateWrite
  <2>2. new \in [Plugin -> Row] /\ Sourced(new)
    BY <2>1, UpdateCodeType DEF Table
  <2>3. plugins' \in {plugins, new}
    BY <1>4, WrittenEither DEF UpdateWrite
  <2>4. plugins' \in [Plugin -> Row] /\ Sourced(plugins')
    BY <2>2, <2>3
  <2>5. handler' \in [Client -> Handler]
    BY <1>4 DEF UpdateWrite, Handler, HandlerAt, At, IdleHandler
  <2>6. /\ \A d \in Client : handler'[d].at # "idle" => handler'[d].id \in Plugin
        /\ \A d \in Client :
             handler'[d].at = "update_write" => handler'[d].src \in Source
    BY <1>4, <2>1 DEF UpdateWrite, IdleHandler, At
  <2>7. QED
    BY <1>4, <2>4, <2>5, <2>6 DEF UpdateWrite
<1>5. ASSUME NEW c \in Client, QueueCompile(c)
      PROVE  TInv'
  BY <1>5, PipelineAssumption DEF QueueCompile, Sending, Handler, HandlerAt, At,
     IdleHandler
<1>6. ASSUME NEW c \in Client, UpdateReread(c)
      PROVE  TInv'
  BY <1>6 DEF UpdateReread, Handler, HandlerAt, At, IdleHandler
<1>7. ASSUME NEW c \in Client, DeleteRow(c)
      PROVE  TInv'
  <2>1. handler[c].id \in Plugin
    BY <1>7 DEF DeleteRow, DeleteRowWith
  <2>2. plugins' \in {plugins, DeletePluginRow(plugins, handler[c].id)}
    BY <1>7, WrittenEither DEF DeleteRow, DeleteRowWith
  <2>3. plugins' \in [Plugin -> Row] /\ Sourced(plugins')
    BY <2>1, <2>2, DeleteRowType DEF Table
  <2>4. QED
    BY <1>7, <2>3 DEF DeleteRow, DeleteRowWith, Handler, HandlerAt, At, IdleHandler
<1>8. CASE TakeJob
  <2>1. queue # <<>> /\ queue' = Tail(queue)
    BY <1>8 DEF TakeJob
  <2>2. /\ Head(queue) \in Plugin
        /\ queue' \in Seq(Plugin) /\ Len(queue') <= QueueSize
    BY <2>1, PipelineAssumption
  <2>3. worker' = [at |-> "fetch", id |-> Head(queue), src |-> None,
                   out |-> "unknown"]
    BY <1>8 DEF TakeJob, IdleWorker
  <2>4. QED
    BY <1>8, <2>2, <2>3 DEF TakeJob, Worker
<1>9. CASE FetchPlugin
  BY <1>9 DEF FetchPlugin, Worker, Row, Sourced
<1>10. CASE DropJob
  BY <1>10 DEF DropJob, Worker, IdleWorker
<1>11. CASE SetupBuild
  BY <1>11 DEF SetupBuild, Worker
<1>12. CASE SetupFails
  BY <1>12 DEF SetupFails, Worker
<1>13. CASE RunCargoBuild
  BY <1>13 DEF RunCargoBuild, Worker
<1>14. CASE SaveVerdict
  <2> DEFINE ok == UpdatePluginStatus(plugins, worker.id, "compiled",
                                      worker.src, None)
             ko == UpdatePluginStatus(plugins, worker.id, "failed",
                                      None, worker.src)
  <2>1. worker.id \in Plugin /\ worker.src \in Source
    BY <1>14 DEF SaveVerdict
  <2>2. plugins' \in {plugins, ok, ko}
    BY <1>14, WrittenEither DEF SaveVerdict
  <2>3. /\ ok \in [Plugin -> Row] /\ Sourced(ok)
        /\ ko \in [Plugin -> Row] /\ Sourced(ko)
    <3> HIDE DEF TInv
    <3>1. plugins \in Table /\ Sourced(plugins)
      BY DEF Table, TInv
    <3>2. ok \in Table /\ Sourced(ok)
      BY <2>1, <3>1, UpdateStatusType
    <3>3. ko \in Table /\ Sourced(ko)
      BY <2>1, <3>1, UpdateStatusType
    <3>4. QED
      BY <3>2, <3>3 DEF Table
  <2>4. plugins' \in [Plugin -> Row] /\ Sourced(plugins')
    BY <2>2, <2>3
  <2>5. QED
    BY <1>14, <2>4 DEF SaveVerdict, Worker
<1>15. CASE CleanBuildDir
  BY <1>15 DEF CleanBuildDir, Worker, IdleWorker
<1>16. CASE Crash
  BY <1>16, PipelineAssumption DEF Crash, Worker, IdleWorker, Handler, HandlerAt, At,
     IdleHandler
<1>17. CASE UNCHANGED vars
  BY <1>17 DEF vars
<1>18. QED
  BY <1>1, <1>2, <1>3, <1>4, <1>5, <1>6, <1>7, <1>8, <1>9, <1>10, <1>11, <1>12,
     <1>13, <1>14, <1>15, <1>16, <1>17 DEF Next, WorkerStep

\* Type correctness, whatever fails and crashes: in particular the queue
\* never holds more ids than the channel's capacity.
THEOREM TypeCorrect == Spec => []TypeOK
<1>1. TInv => TypeOK
  BY DEF TInv
<1>2. QED
  BY TInvInit, TInvNext, <1>1, PTL DEF Spec

-----------------------------------------------------------------------------
(***************************************************************************)
(* What each action may do to the table, the only facts about the writes   *)
(* that the invariants below need.                                         *)
(***************************************************************************)
\* CreatePlugin inserts a first version under a fresh id, or nothing.
LEMMA CreateEffect ==
  ASSUME TInv, NEW c \in Client, NEW p \in Plugin, NEW s \in Source,
         CreatePlugin(c, p, s)
  PROVE  /\ p \notin issued
         /\ \A q \in Plugin \ {p} : plugins'[q] = plugins[q]
         /\ \/ plugins'[p] = plugins[p]
            \/ plugins'[p] = [status |-> "pending", source |-> s, wasm |-> None,
                              errors |-> None, version |-> 1]
<1>1. plugins \in Table
  BY DEF TInv, TypeOK, Table
<1>2. plugins' \in {plugins, SavePlugin(plugins, p, s)}
  BY WrittenEither DEF CreatePlugin
<1>3. p \notin issued
  BY DEF CreatePlugin
<1>4. QED
  BY <1>1, <1>2, <1>3, SavePluginRow

\* UpdateWrite gives an existing row a new text and makes it pending, or nothing.
LEMMA UpdateEffect ==
  ASSUME TInv, NEW c \in Client, UpdateWrite(c)
  PROVE  \E p \in Plugin, s \in Source :
           /\ p = handler[c].id /\ s = handler[c].src
           /\ \A q \in Plugin \ {p} : plugins'[q] = plugins[q]
           /\ \/ plugins'[p] = plugins[p]
              \/ /\ Exists(plugins, p)
                 /\ plugins'[p] =
                      [status |-> "pending", source |-> s,
                       wasm |-> plugins[p].wasm, errors |-> None,
                       version |-> plugins[p].version]
<1> DEFINE p == handler[c].id
           s == handler[c].src
<1>1. plugins \in Table /\ p \in Plugin /\ s \in Source
  BY DEF TInv, TypeOK, Bound, Table, UpdateWrite
<1>2. plugins' \in {plugins, UpdatePluginCode(plugins, p, s)}
  BY WrittenEither DEF UpdateWrite
<1> HIDE DEF p, s
<1>3. /\ \A q \in Plugin \ {p} : plugins'[q] = plugins[q]
      /\ \/ plugins'[p] = plugins[p]
         \/ /\ Exists(plugins, p)
            /\ plugins'[p] = [status |-> "pending", source |-> s,
                              wasm |-> plugins[p].wasm, errors |-> None,
                              version |-> plugins[p].version]
  BY <1>1, <1>2, UpdateCodeRow
<1>4. QED
  BY <1>1, <1>3 DEF p, s

\* DeleteRow removes one row, or nothing.
LEMMA DeleteEffect ==
  ASSUME TInv, NEW c \in Client, DeleteRow(c)
  PROVE  \E p \in Plugin :
           /\ p = handler[c].id
           /\ \A q \in Plugin \ {p} : plugins'[q] = plugins[q]
           /\ plugins'[p] \in {plugins[p], Absent}
<1> DEFINE p == handler[c].id
<1>1. plugins \in Table /\ p \in Plugin
  BY DEF TInv, TypeOK, Bound, Table, DeleteRow, DeleteRowWith
<1>2. plugins' \in {plugins, DeletePluginRow(plugins, p)}
  BY WrittenEither DEF DeleteRow, DeleteRowWith
<1> HIDE DEF p
<1>3. QED
  BY <1>1, <1>2, DeleteRowRow DEF p

\* SaveVerdict decides an existing row on the text that was built, or nothing.
LEMMA VerdictEffect ==
  ASSUME TInv, SaveVerdict
  PROVE  /\ worker.id \in Plugin /\ worker.src \in Source
         /\ \A q \in Plugin \ {worker.id} : plugins'[q] = plugins[q]
         /\ \/ plugins'[worker.id] = plugins[worker.id]
            \/ /\ Exists(plugins, worker.id)
               /\ worker.out = "compiled"
               /\ plugins'[worker.id] =
                    [status |-> "compiled",
                     source |-> plugins[worker.id].source,
                     wasm |-> worker.src, errors |-> None,
                     version |-> plugins[worker.id].version + 1]
            \/ /\ Exists(plugins, worker.id)
               /\ plugins'[worker.id] =
                    [status |-> "failed",
                     source |-> plugins[worker.id].source,
                     wasm |-> None, errors |-> worker.src,
                     version |-> plugins[worker.id].version + 1]
<1> DEFINE p == worker.id
           s == worker.src
<1>1. plugins \in Table /\ p \in Plugin /\ s \in Source
  BY DEF TInv, TypeOK, Bound, Table, SaveVerdict
<1>2. \/ plugins' = plugins
      \/ /\ worker.out = "compiled"
         /\ plugins' = UpdatePluginStatus(plugins, p, "compiled", s, None)
      \/ plugins' = UpdatePluginStatus(plugins, p, "failed", None, s)
  BY WrittenEither DEF SaveVerdict
<1> HIDE DEF p, s
<1>3. QED
  BY <1>1, <1>2, UpdateStatusRow DEF p, s

\* A step that is none of the four above leaves the table alone.
LEMMA OtherEffect ==
  ASSUME [Next]_vars,
         ~ \E c \in Client, p \in Plugin, s \in Source : CreatePlugin(c, p, s),
         ~ \E c \in Client : UpdateWrite(c) \/ DeleteRow(c),
         ~ SaveVerdict
  PROVE  plugins' = plugins
  BY DEF Next, vars, UpdateCheck, DeleteHistory, QueueCompile, UpdateReread,
     WorkerStep, TakeJob, FetchPlugin, DropJob, SetupBuild, SetupFails,
     RunCargoBuild, CleanBuildDir, Crash

-----------------------------------------------------------------------------
\* Only CreatePlugin makes a row, and it uses an id that was never handed out.
LEMMA GoneStaysGone ==
    ASSUME TInv, [Next]_vars, NEW q \in issued, ~Exists(plugins, q)
    PROVE  ~Exists(plugins', q)
<1>0. q \in Plugin
  BY DEF TInv, TypeOK
<1> SUFFICES plugins'[q] = plugins[q] \/ plugins'[q] = Absent
  BY DEF Exists, Absent
<1>1. CASE \E c \in Client, p \in Plugin, s \in Source : CreatePlugin(c, p, s)
  BY <1>0, <1>1, CreateEffect
<1>2. CASE \E c \in Client : UpdateWrite(c)
  BY <1>0, <1>2, UpdateEffect
<1>3. CASE \E c \in Client : DeleteRow(c)
  BY <1>0, <1>3, DeleteEffect
<1>4. CASE SaveVerdict
  BY <1>0, <1>4, VerdictEffect
<1> QED
  BY <1>1, <1>2, <1>3, <1>4, OtherEffect

\* Deleted plugins never come back, for any number of clients and plugins and
\* whatever the database does.
THEOREM NoResurrection == Spec => DeletedStaysDeleted
<1>1. ASSUME TInv, [Next]_vars
      PROVE  [\A p \in issued : ~Exists(plugins, p) => ~Exists(plugins', p)]_vars
  BY <1>1, GoneStaysGone
<1> QED
  BY TInvInit, TInvNext, <1>1, PTL DEF Spec, DeletedStaysDeleted

-----------------------------------------------------------------------------
\* cargo succeeds on sources that compile only.
VerdictSound ==
    worker.at = "save" /\ worker.out = "compiled" => worker.src \in Compilable

ArtefactInv == TInv /\ StatusMatchesArtefact /\ VerdictSound

\* The artefact invariant holds at the start: there is no row.
LEMMA ArtefactInit == Init => ArtefactInv
  BY TInvInit DEF Init, ArtefactInv, StatusMatchesArtefact, VerdictSound, Absent,
     IdleWorker

\* Handlers leave the worker alone, and a crash ends it.
LEMMA WorkerEffect ==
  ASSUME [Next]_vars, ~WorkerStep
  PROVE  worker' = worker \/ worker' = IdleWorker
  BY DEF Next, vars, CreatePlugin, UpdateCheck, UpdateWrite, DeleteHistory,
     DeleteRow, DeleteRowWith, QueueCompile, UpdateReread, Crash

\* Only a successful build lets the worker announce "compiled".
LEMMA VerdictSoundNext ==
  ASSUME TInv, VerdictSound, [Next]_vars
  PROVE  VerdictSound'
<1>0. worker \in Worker
  BY DEF TInv, TypeOK
<1>1. CASE ~WorkerStep
  BY <1>1, WorkerEffect DEF VerdictSound, IdleWorker
<1>2. CASE TakeJob \/ DropJob
  BY <1>2 DEF TakeJob, DropJob, VerdictSound, IdleWorker
<1>3. CASE FetchPlugin
  BY <1>0, <1>3 DEF FetchPlugin, VerdictSound, Worker
<1>4. CASE SetupBuild \/ SetupFails
  BY <1>0, <1>4 DEF SetupBuild, SetupFails, VerdictSound, Worker
<1>5. CASE RunCargoBuild
  BY <1>0, <1>5 DEF RunCargoBuild, VerdictSound, Worker
<1>6. CASE SaveVerdict \/ CleanBuildDir
  BY <1>0, <1>6 DEF SaveVerdict, CleanBuildDir, VerdictSound, Worker, IdleWorker
<1>7. QED
  BY <1>1, <1>2, <1>3, <1>4, <1>5, <1>6 DEF WorkerStep

\* What StatusMatchesArtefact says of one row.
Coherent(r) ==
    /\ r.status = "compiled" => r.wasm \in Compilable
    /\ r.status = "failed" => r.wasm = None

\* Each write leaves coherent rows behind.
LEMMA ArtefactNext == ArtefactInv /\ [Next]_vars => ArtefactInv'
<1> SUFFICES ASSUME ArtefactInv, [Next]_vars PROVE ArtefactInv'
  OBVIOUS
<1>1. TInv /\ VerdictSound /\ \A q \in Plugin : Coherent(plugins[q])
  BY DEF ArtefactInv, StatusMatchesArtefact, Coherent
<1>2. ASSUME NEW q \in Plugin PROVE Coherent(plugins'[q])
  <2>1. CASE \E c \in Client, p \in Plugin, s \in Source : CreatePlugin(c, p, s)
    <3>1. PICK c \in Client, p \in Plugin, s \in Source : CreatePlugin(c, p, s)
      BY <2>1
    <3>2. \/ plugins'[q] = plugins[q]
          \/ plugins'[q] = [status |-> "pending", source |-> s, wasm |-> None,
                            errors |-> None, version |-> 1]
      BY <1>1, <3>1, CreateEffect
    <3>3. QED
      BY <1>1, <3>2 DEF Coherent
  <2>2. CASE \E c \in Client : UpdateWrite(c)
    <3>1. \/ plugins'[q] = plugins[q]
          \/ \E s \in Source :
               plugins'[q] = [status |-> "pending", source |-> s,
                              wasm |-> plugins[q].wasm, errors |-> None,
                              version |-> plugins[q].version]
      BY <1>1, <2>2, UpdateEffect
    <3>2. ASSUME NEW s \in Source, NEW w, NEW v,
                 plugins'[q] = [status |-> "pending", source |-> s, wasm |-> w,
                                errors |-> None, version |-> v]
          PROVE  Coherent(plugins'[q])
      BY <3>2 DEF Coherent
    <3>3. QED
      BY <1>1, <3>1, <3>2
  <2>3. CASE \E c \in Client : DeleteRow(c)
    BY <1>1, <2>3, DeleteEffect DEF Coherent, Absent
  <2>4. CASE SaveVerdict
    <3>1. worker.out = "compiled" => worker.src \in Compilable
      BY <1>1, <2>4 DEF VerdictSound, SaveVerdict
    <3>2. QED
      BY <1>1, <2>4, <3>1, VerdictEffect DEF Coherent
  <2>5. QED
    BY <1>1, <2>1, <2>2, <2>3, <2>4, OtherEffect
<1>3. StatusMatchesArtefact'
  BY <1>2 DEF StatusMatchesArtefact, Coherent
<1>4. QED
  BY <1>1, <1>3, TInvNext, VerdictSoundNext DEF ArtefactInv

\* A row handleExecutePlugin accepts as compiled always holds an artefact of a
\* source that compiles, whatever write failed and whenever the host died.
THEOREM ArtefactCoherent == Spec => []StatusMatchesArtefact
<1>1. ArtefactInv => StatusMatchesArtefact
  BY DEF ArtefactInv
<1>2. QED
  BY ArtefactInit, ArtefactNext, <1>1, PTL DEF Spec

-----------------------------------------------------------------------------
\* An update that overtakes a build leaves another build of the row behind it.
OvertakenIsDue ==
    \A p \in Plugin :
        Exists(plugins, p) /\ Building(p) /\ worker.src # plugins[p].source
        => JobDue(p)

RebuildInv == TInv /\ OvertakenIsDue

\* Nothing is built at the start.
LEMMA RebuildInit == Init => RebuildInv
  BY TInvInit DEF Init, RebuildInv, OvertakenIsDue, Building, IdleWorker

\* A job that is due stays due until the worker reads the row: the handler
\* that announces it puts it in the queue, and the queue loses nothing.
LEMMA JobDueKept ==
  ASSUME TInv, ~Crash, [Next]_vars, NEW p \in Plugin, JobDue(p),
         FetchPlugin \/ DropJob => worker.id # p
  PROVE  JobDue(p)'
<1> USE DEF JobDue
<1>0. queue \in Seq(Plugin) /\ handler \in [Client -> Handler] /\ worker \in Worker
  BY DEF TInv, TypeOK
<1>1. ASSUME NEW c \in Client, QueueCompile(c)
      PROVE  JobDue(p)'
  <2>1. queue' = Append(queue, handler[c].id) /\ worker' = worker
    BY <1>1 DEF QueueCompile
  <2>2. handler[c].id \in Plugin
    BY <1>1 DEF QueueCompile, TInv, Bound, Sending
  <2>3. CASE \E i \in 1..Len(queue) : queue[i] = p
    BY <1>0, <2>1, <2>2, <2>3
  <2>4. CASE handler[c].id = p
    <3>1. Len(queue') = Len(queue) + 1 /\ queue'[Len(queue) + 1] = p
      BY <1>0, <2>1, <2>2, <2>4
    <3>2. Len(queue) + 1 \in 1..Len(queue')
      BY <1>0, <3>1
    <3>3. QED
      BY <3>1, <3>2
  <2>5. CASE \E d \in Client \ {c} : handler[d].at \in Sending /\ handler[d].id = p
    BY <1>0, <1>1, <2>5 DEF QueueCompile
  <2>6. CASE worker.at = "fetch" /\ worker.id = p
    BY <2>1, <2>6
  <2>7. QED
    BY <2>3, <2>4, <2>5, <2>6
<1>2. CASE TakeJob
  <2>1. queue # <<>> /\ queue' = Tail(queue) /\ handler' = handler
    BY <1>2 DEF TakeJob
  <2>2. worker'.at = "fetch" /\ worker'.id = Head(queue)
    BY <1>2 DEF TakeJob
  <2>3. ASSUME NEW i \in 1..Len(queue), queue[i] = p
        PROVE  JobDue(p)'
    <3>1. CASE i = 1
      BY <1>0, <2>1, <2>2, <2>3, <3>1
    <3>2. CASE i # 1
      <4>1. i - 1 \in 1..Len(queue') /\ queue'[i - 1] = p
        BY <1>0, <2>1, <2>3, <3>2
      <4>2. QED
        BY <4>1
    <3>3. QED
      BY <3>1, <3>2
  <2>4. QED
    BY <1>2, <2>1, <2>3 DEF TakeJob
<1>4. ASSUME handler' # handler, ~ \E c \in Client : QueueCompile(c)
      PROVE  /\ queue' = queue /\ worker' = worker
             /\ \A c \in Client : handler[c].at \in Sending => handler'[c] = handler[c]
  BY <1>0, <1>4 DEF Next, vars, CreatePlugin, UpdateCheck, UpdateWrite,
     DeleteHistory, DeleteRow, DeleteRowWith, UpdateReread, WorkerStep,
     TakeJob, FetchPlugin, DropJob, SetupBuild, SetupFails, RunCargoBuild,
     SaveVerdict, CleanBuildDir, Sending
<1>5. CASE handler' # handler
  BY <1>1, <1>4, <1>5
<1>6. ASSUME handler' = handler, ~TakeJob,
             ~ \E c \in Client : QueueCompile(c)
      PROVE  /\ queue' = queue
             /\ worker.at = "fetch" /\ worker.id = p => worker' = worker
  <2>1. CASE WorkerStep
    BY <1>6, <2>1 DEF WorkerStep, FetchPlugin, DropJob, SetupBuild, SetupFails,
       RunCargoBuild, SaveVerdict, CleanBuildDir
  <2>2. CASE ~WorkerStep
    BY <1>6, <2>2 DEF Next, vars, CreatePlugin, UpdateCheck, UpdateWrite,
       DeleteHistory, DeleteRow, DeleteRowWith, UpdateReread
  <2>3. QED
    BY <2>1, <2>2
<1>7. CASE handler' = handler /\ ~TakeJob /\ ~ \E c \in Client : QueueCompile(c)
  BY <1>6, <1>7
<1>8. QED
  BY <1>1, <1>2, <1>5, <1>7

\* A build in flight stays one, of the same text, until its verdict is stored.
LEMMA BuildingKept ==
  ASSUME TInv, ~Crash, [Next]_vars, ~FetchPlugin, ~SaveVerdict
  PROVE  /\ worker'.at \in {"setup", "build", "save"}
              <=> worker.at \in {"setup", "build", "save"}
         /\ worker.at \in {"setup", "build", "save"} =>
              worker'.id = worker.id /\ worker'.src = worker.src
<1>0. worker \in Worker
  BY DEF TInv, TypeOK
<1>1. CASE ~WorkerStep
  BY <1>0, <1>1 DEF Next, vars, CreatePlugin, UpdateCheck, UpdateWrite,
     DeleteHistory, DeleteRow, DeleteRowWith, QueueCompile, UpdateReread
<1>2. CASE TakeJob \/ DropJob \/ CleanBuildDir
  BY <1>2 DEF TakeJob, DropJob, CleanBuildDir, IdleWorker
<1>3. CASE SetupBuild \/ SetupFails
  BY <1>0, <1>3 DEF SetupBuild, SetupFails, Worker
<1>4. CASE RunCargoBuild
  BY <1>0, <1>4 DEF RunCargoBuild, Worker
<1>5. QED
  BY <1>1, <1>2, <1>3, <1>4 DEF WorkerStep

\* With a reliable database, the handlers that make a row pending announce it.
LEMMA PendingIsAnnounced ==
  ASSUME TInv, Faults = {}, NEW c \in Client, NEW p \in Plugin
  PROVE  /\ \A s \in Source : CreatePlugin(c, p, s) => JobDue(p)'
         /\ UpdateWrite(c) /\ handler[c].id = p => JobDue(p)'
<1>1. Outcomes = {"ok"} /\ handler \in [Client -> Handler]
  BY DEF Outcomes, TInv, TypeOK
<1>2. ASSUME NEW s \in Source, CreatePlugin(c, p, s)
      PROVE  JobDue(p)'
  BY <1>1, <1>2 DEF CreatePlugin, JobDue, Sending, At
<1>3. ASSUME UpdateWrite(c), handler[c].id = p
      PROVE  JobDue(p)'
  <2>1. handler'[c].at = "update_enqueue" /\ handler'[c].id = p
    BY <1>1, <1>3 DEF UpdateWrite, At
  <2>2. QED
    BY <2>1 DEF JobDue, Sending
<1>4. QED
  BY <1>2, <1>3

\* With a reliable database, a verdict on the row's own text settles the row.
LEMMA VerdictSettles ==
  ASSUME TInv, Faults = {}, SaveVerdict, NEW p \in Plugin, p = worker.id,
         Exists(plugins, p), worker.src = plugins[p].source
  PROVE  Settled(p)'
<1> DEFINE s == worker.src
<1>1. plugins \in Table /\ s \in Source /\ Outcomes = {"ok"}
  BY DEF TInv, TypeOK, Bound, Table, SaveVerdict, Outcomes
<1>2. \/ plugins' = UpdatePluginStatus(plugins, p, "compiled", s, None)
      \/ plugins' = UpdatePluginStatus(plugins, p, "failed", None, s)
  BY <1>1 DEF SaveVerdict, Written
<1> HIDE DEF s
<1>3. \/ plugins'[p] = [status |-> "compiled", source |-> s, wasm |-> s,
                        errors |-> None, version |-> plugins[p].version + 1]
      \/ plugins'[p] = [status |-> "failed", source |-> s, wasm |-> None,
                        errors |-> s, version |-> plugins[p].version + 1]
  BY <1>1, <1>2, UpdateStatusRow DEF s
<1>4. \/ plugins'[p].status = "compiled" /\ plugins'[p].wasm = plugins'[p].source
      \/ plugins'[p].status = "failed" /\ plugins'[p].errors = plugins'[p].source
  BY <1>3
<1>5. QED
  BY <1>4 DEF Settled

\* With a reliable database, whoever gives a row a text or makes a row
\* announces it.
LEMMA NewTextIsDue ==
    ASSUME Faults = {}, TInv, [Next]_vars, ~SaveVerdict, NEW q \in Plugin,
           Exists(plugins', q), plugins'[q] # plugins[q]
    PROVE  JobDue(q)'
<1>1. ASSUME NEW c \in Client, NEW p \in Plugin, NEW s \in Source,
             CreatePlugin(c, p, s)
      PROVE  JobDue(q)'
  <2>1. p = q
    BY <1>1, CreateEffect
  <2> QED
    BY <1>1, <2>1, PendingIsAnnounced
<1>2. ASSUME NEW c \in Client, UpdateWrite(c) PROVE JobDue(q)'
  <2>1. handler[c].id = q
    BY <1>2, UpdateEffect
  <2> QED
    BY <1>2, <2>1, PendingIsAnnounced
<1>3. ASSUME NEW c \in Client, DeleteRow(c) PROVE FALSE
  BY <1>3, DeleteEffect DEF Exists, Absent
<1> QED
  BY <1>1, <1>2, <1>3, OtherEffect

\* An update that overtakes a build still leaves another build behind it
\* after every step.
LEMMA OvertakenNext ==
    ASSUME Faults = {}, TInv, OvertakenIsDue, [Next]_vars
    PROVE  OvertakenIsDue'
<1> SUFFICES ASSUME NEW q \in Plugin, Exists(plugins', q), Building(q)',
                    worker'.src # plugins'[q].source
             PROVE  JobDue(q)'
  BY DEF OvertakenIsDue
<1>0. worker \in Worker
  BY DEF TInv, TypeOK
<1>1. ~Crash /\ ~SaveVerdict
  BY <1>0 DEF Crash, SaveVerdict, Building, IdleWorker, Worker
<1>2. ~FetchPlugin
  BY <1>0 DEF FetchPlugin, Building, Worker
<1>3. Building(q) /\ worker'.src = worker.src
  BY <1>1, <1>2, BuildingKept DEF Building
<1>4. CASE plugins'[q] = plugins[q]
  <2>1. JobDue(q)
    BY <1>3, <1>4 DEF OvertakenIsDue, Exists
  <2>2. ~DropJob
    BY <1>3 DEF DropJob, Building
  <2> QED
    BY <1>1, <1>2, <2>1, <2>2, JobDueKept
<1> QED
  BY <1>1, <1>4, NewTextIsDue

\* Both facts hold after every step.
LEMMA RebuildNext == Faults = {} /\ RebuildInv /\ [Next]_vars => RebuildInv'
  BY TInvNext, OvertakenNext DEF RebuildInv

\* A verdict settles the row it was made for, or another build is to come.
LEMMA VerdictLosesNothing ==
    ASSUME Faults = {}, RebuildInv, SaveVerdict, NEW q \in Plugin, ~Lost(q)
    PROVE  ~Lost(q)'
<1> SUFFICES ASSUME Exists(plugins', q), ~Settled(q)' PROVE JobDue(q)'
  BY DEF Lost
<1>0. TInv /\ worker \in Worker /\ [Next]_vars
  BY DEF RebuildInv, TInv, TypeOK, Next, WorkerStep
<1>1. ~Crash /\ ~FetchPlugin /\ ~DropJob
  BY <1>0 DEF SaveVerdict, Crash, FetchPlugin, DropJob, TInv, TypeOK
<1>2. Exists(plugins, q) /\ (worker.id # q => plugins'[q] = plugins[q])
  BY <1>0, VerdictEffect DEF Exists
<1>3. JobDue(q) => JobDue(q)'
  BY <1>0, <1>1, JobDueKept
<1>4. CASE worker.id = q /\ worker.src = plugins[q].source
  BY <1>0, <1>2, <1>4, VerdictSettles
<1>5. CASE worker.id = q /\ worker.src # plugins[q].source
  <2>1. Building(q)
    BY <1>5 DEF SaveVerdict, Building
  <2> QED
    BY <1>2, <1>3, <1>5, <2>1 DEF RebuildInv, OvertakenIsDue
<1>6. CASE worker.id # q
  <2>1. Settled(q)' <=> Settled(q)
    BY <1>2, <1>6 DEF Settled
  <2> QED
    BY <1>2, <1>3, <1>6, <2>1 DEF Lost, Building
<1> QED
  BY <1>4, <1>5, <1>6

\* No step but a crash takes the last build from a row that needs one.
LEMMA RebuildKept ==
    ASSUME Faults = {}, RebuildInv, [Next]_vars, ~Crash,
           NEW q \in Plugin, ~Lost(q)
    PROVE  ~Lost(q)'
<1> SUFFICES ASSUME Exists(plugins', q), ~Settled(q)'
             PROVE  JobDue(q)' \/ (Building(q)' /\ worker'.src = plugins'[q].source)
  BY DEF Lost
<1>0. TInv /\ worker \in Worker
  BY DEF RebuildInv, TInv, TypeOK
<1>1. CASE SaveVerdict
  BY <1>1, VerdictLosesNothing DEF Lost
<1>2. CASE ~SaveVerdict /\ plugins'[q] # plugins[q]
  BY <1>0, <1>2, NewTextIsDue
<1>3. CASE ~SaveVerdict /\ plugins'[q] = plugins[q]
  <2>1. Exists(plugins, q) /\ ~Settled(q)
    BY <1>3 DEF Exists, Settled
  <2>2. JobDue(q) \/ (Building(q) /\ worker.src = plugins[q].source)
    BY <2>1 DEF Lost
  <2>3. CASE FetchPlugin
    <3>1. CASE worker.id = q
      BY <1>0, <1>3, <2>3, <3>1 DEF FetchPlugin, Building, Worker
    <3>2. CASE worker.id # q
      BY <1>0, <2>2, <2>3, <3>2, JobDueKept DEF FetchPlugin, DropJob, Building
    <3> QED
      BY <3>1, <3>2
  <2>4. CASE ~FetchPlugin
    <3>1. JobDue(q) => JobDue(q)'
      BY <1>0, <2>1, <2>4, JobDueKept DEF DropJob
    <3>2. Building(q) => Building(q)' /\ worker'.src = worker.src
      BY <1>0, <1>3, <2>4, BuildingKept DEF Building
    <3> QED
      BY <1>3, <2>2, <3>1, <3>2
  <2> QED
    BY <2>3, <2>4
<1> QED
  BY <1>1, <1>2, <1>3

\* Only a crash can lose a rebuild, for any number of plugins and clients, any
\* queue size and any number of crashes: whenever a row turns pending, or gets
\* a verdict on a text that an update replaced during the build, the text it
\* holds then is queued, about to be queued, or being built, and stays so.
THEOREM RebuildsNotLost == Faults = {} => (Spec => OnlyCrashesLoseRebuilds)
<1> SUFFICES ASSUME Faults = {} PROVE Spec => OnlyCrashesLoseRebuilds
  OBVIOUS
<1>1. RebuildInv /\ [Next]_vars => RebuildInv'
  BY RebuildNext
<1>2. ASSUME RebuildInv, [Next]_vars
      PROVE  [crashes' = crashes =>
                \A p \in Plugin : Lost(p)' => Lost(p)]_vars
  <2> SUFFICES ASSUME crashes' = crashes, NEW p \in Plugin, ~Lost(p)
               PROVE  ~Lost(p)'
    OBVIOUS
  <2>1. ~Crash
    BY <1>2, PipelineAssumption DEF Crash, RebuildInv, TInv, TypeOK
  <2> QED
    BY <1>2, <2>1, RebuildKept
<1> QED
  BY RebuildInit, <1>1, <1>2, PTL DEF Spec, OnlyCrashesLoseRebuilds

\* So before the first crash no rebuild is ever lost.
THEOREM NoneLostBeforeCrash ==
    Faults = {} => (Spec => [](crashes = 0 => \A p \in Plugin : ~Lost(p)))
<1> SUFFICES ASSUME Faults = {}
             PROVE  Spec => [](crashes = 0 => \A p \in Plugin : ~Lost(p))
  OBVIOUS
<1> DEFINE LInv == RebuildInv /\ (crashes = 0 => \A p \in Plugin : ~Lost(p))
<1>1. Init => LInv
  BY RebuildInit DEF Init, Lost, Exists, Absent
<1>2. LInv /\ [Next]_vars => LInv'
  <2> SUFFICES ASSUME LInv, [Next]_vars PROVE LInv'
    OBVIOUS
  <2>1. RebuildInv'
    BY RebuildNext
  <2>2. CASE Crash
    BY <2>1, <2>2 DEF Crash, RebuildInv, TInv, TypeOK
  <2>3. CASE ~Crash
    <3>1. crashes' = crashes
      BY <2>3 DEF Next, vars, CreatePlugin, UpdateCheck, UpdateWrite,
                  DeleteHistory, DeleteRow, DeleteRowWith, QueueCompile,
                  UpdateReread, WorkerStep, TakeJob, FetchPlugin, DropJob,
                  SetupBuild, SetupFails, RunCargoBuild, SaveVerdict,
                  CleanBuildDir
    <3>2. ASSUME NEW p \in Plugin, ~Lost(p) PROVE ~Lost(p)'
      BY <2>3, <3>2, RebuildKept
    <3> QED
      BY <2>1, <3>1, <3>2
  <2> QED
    BY <2>2, <2>3
<1> QED
  BY <1>1, <1>2, PTL DEF Spec

-----------------------------------------------------------------------------
(* Build directories.                                                      *)

\* A build directory that was not left before is left by a crash, or by the
\* deferred RemoveAll having failed on it.
LEMMA LeftDirsNext ==
    ASSUME TInv, [Next]_vars, ~Crash, NEW p \in LeftDirs' \ LeftDirs
    PROVE  RemovalFails /\ worker.at = "clean" /\ worker.id = p
<1>0. worker \in Worker
  BY DEF TInv, TypeOK
<1>1. CASE WorkerStep
  <2>1. CASE TakeJob \/ FetchPlugin \/ DropJob
    BY <2>1, <1>0 DEF TakeJob, FetchPlugin, DropJob, IdleWorker, Worker, LeftDirs
  <2>2. CASE SetupBuild
    BY <2>2, <1>0 DEF SetupBuild, Worker, LeftDirs
  <2>3. CASE SetupFails
    BY <2>3, <1>0 DEF SetupFails, Worker, LeftDirs
  <2>4. CASE RunCargoBuild
    BY <2>4, <1>0 DEF RunCargoBuild, Worker, LeftDirs
  <2>5. CASE SaveVerdict
    BY <2>5, <1>0 DEF SaveVerdict, Worker, LeftDirs
  <2>6. CASE CleanBuildDir
    <3>1. CASE buildDirs' = buildDirs \ {worker.id}
      BY <2>6, <3>1 DEF CleanBuildDir, IdleWorker, LeftDirs
    <3>2. CASE RemovalFails /\ UNCHANGED buildDirs
      BY <2>6, <3>2 DEF CleanBuildDir, IdleWorker, LeftDirs
    <3> QED
      BY <2>6, <3>1, <3>2 DEF CleanBuildDir
  <2> QED
    BY <1>1, <2>1, <2>2, <2>3, <2>4, <2>5, <2>6 DEF WorkerStep
<1>2. CASE ~WorkerStep
  <2>1. UNCHANGED <<worker, buildDirs>>
    BY <1>2 DEF Next, vars, CreatePlugin, UpdateCheck, DeleteHistory, UpdateWrite,
                QueueCompile, UpdateReread, DeleteRow, DeleteRowWith
  <2> QED
    BY <2>1 DEF LeftDirs
<1> QED
  BY <1>1, <1>2

\* Without a crash a build directory is left behind only where RemoveAll was
\* called on it and failed: whatever fails before, the worker reaches the
\* deferred call.
THEOREM RemovalIsReached == Spec => OnlyFailuresLeaveDirs
<1>1. ASSUME TInv, [Next]_vars
      PROVE  [crashes' = crashes =>
                \A p \in LeftDirs' \ LeftDirs :
                    RemovalFails /\ worker.at = "clean" /\ worker.id = p]_vars
  <2> SUFFICES ASSUME crashes' = crashes, NEW p \in LeftDirs' \ LeftDirs
               PROVE  RemovalFails /\ worker.at = "clean" /\ worker.id = p
    OBVIOUS
  <2>1. ~Crash
    BY <1>1, PipelineAssumption DEF Crash, TInv, TypeOK
  <2> QED
    BY <1>1, <2>1, LeftDirsNext
<1> QED
  BY TInvInit, TInvNext, <1>1, PTL DEF Spec, OnlyFailuresLeaveDirs
=============================================================================
