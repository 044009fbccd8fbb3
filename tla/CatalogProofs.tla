--------------------------- MODULE CatalogProofs ---------------------------
(***************************************************************************)
(* Handlers, queue and worker implement the safety part of PluginCatalog   *)
(* as long as every statement of the database succeeds, for any number of  *)
(* plugins, requests and crashes and any size of the queue.                *)
(***************************************************************************)
EXTENDS PipelineProofs

\* Rows are of ids that were handed out, and an update that overtakes a build
\* leaves another build behind it.
CatInv ==
    /\ TInv
    /\ \A p \in Plugin : Exists(plugins, p) => p \in issued
    /\ OvertakenIsDue

Due(p) == JobDue(p) \/ Building(p)

\* The catalog starts empty.
LEMMA CatInvInit == Init => CatInv /\ Cat!Init
<1> SUFFICES ASSUME Init PROVE CatInv /\ Cat!Init
  OBVIOUS
<1>1. \A p \in Plugin : ~Exists(plugins, p)
  BY DEF Init, Exists, Absent
<1>2. CatInv
  BY <1>1, TInvInit DEF CatInv, OvertakenIsDue
<1>3. CatalogOf = [p \in Plugin |-> Cat!Unborn] /\ OwedOf = {}
  BY <1>1 DEF Init, CatalogOf, EntryOf, Cat!Unborn, OwedOf
<1> QED
  BY <1>2, <1>3 DEF Init, Cat!Init

\* Only a new text makes a build due that was not.
LEMMA DueComes ==
    ASSUME TInv, [Next]_vars, NEW q \in Plugin, Due(q)',
           \A c \in Client, s \in Source : ~CreatePlugin(c, q, s),
           \A c \in Client : UpdateWrite(c) => handler[c].id # q
    PROVE  Due(q)
<1>0. /\ queue \in Seq(Plugin) /\ handler \in [Client -> Handler]
      /\ worker \in Worker /\ Outcomes \subseteq Outcome
      /\ \A c \in Client : handler[c].at # "idle" => handler[c].id \in Plugin
  BY PipelineAssumption DEF TInv, TypeOK, Bound, Outcomes, Outcome
<1>1. ASSUME NEW c \in Client, QueueCompile(c) PROVE Due(q)
  <2>1. queue' = Append(queue, handler[c].id) /\ worker' = worker
    BY <1>1 DEF QueueCompile
  <2>2. handler[c].at \in Sending /\ handler[c].id \in Plugin
    BY <1>0, <1>1 DEF QueueCompile, Sending
  <2>3. ASSUME NEW d \in Client, handler'[d].at \in Sending
        PROVE  handler'[d] = handler[d]
    BY <1>0, <1>1, <2>3 DEF QueueCompile, Sending, At, IdleHandler
  <2>4. ASSUME NEW i \in 1..Len(queue'), queue'[i] = q
        PROVE  Due(q)
    BY <1>0, <2>1, <2>2, <2>4 DEF Due, JobDue
  <2> QED
    BY <2>1, <2>3, <2>4 DEF Due, JobDue, Building
<1>2. CASE TakeJob
  <2>1. /\ queue # <<>> /\ queue' = Tail(queue) /\ handler' = handler
        /\ worker'.at = "fetch" /\ worker'.id = Head(queue)
    BY <1>2 DEF TakeJob
  <2>2. \A i \in 1..Len(queue') : i + 1 \in 1..Len(queue) /\ queue'[i] = queue[i + 1]
    BY <1>0, <2>1
  <2>3. 1 \in 1..Len(queue) /\ Head(queue) = queue[1]
    BY <1>0, <2>1
  <2>4. ASSUME NEW i \in 1..Len(queue'), queue'[i] = q PROVE Due(q)
    BY <2>2, <2>4 DEF Due, JobDue
  <2>5. CASE Head(queue) = q
    BY <2>3, <2>5 DEF Due, JobDue
  <2>6. CASE \E c \in Client : handler[c].at \in Sending /\ handler[c].id = q
    BY <2>6 DEF Due, JobDue
  <2>7. handler' = handler /\ worker'.at = "fetch" /\ worker'.id = Head(queue)
    BY <2>1
  <2>8. \/ \E i \in 1..Len(queue') : queue'[i] = q
        \/ \E c \in Client : handler[c].at \in Sending /\ handler[c].id = q
        \/ Head(queue) = q
    BY <2>7 DEF Due, JobDue, Building
  <2> QED
    BY <2>4, <2>5, <2>6, <2>8
<1>3. CASE FetchPlugin \/ DropJob \/ SetupBuild \/ SetupFails \/ RunCargoBuild
           \/ SaveVerdict \/ CleanBuildDir
  <2>1. queue' = queue /\ handler' = handler
    BY <1>3 DEF FetchPlugin, DropJob, SetupBuild, SetupFails, RunCargoBuild,
                SaveVerdict, CleanBuildDir
  <2>2. worker'.at \in {"fetch", "setup", "build", "save"} =>
          /\ worker'.id = worker.id
          /\ worker.at \in {"fetch", "setup", "build", "save"}
    <3>1. CASE FetchPlugin
      BY <1>0, <3>1 DEF FetchPlugin, Worker
    <3>2. CASE SetupBuild \/ SaveVerdict
      BY <1>0, <3>2 DEF SetupBuild, SaveVerdict, Worker
    <3>3. CASE SetupFails
      BY <1>0, <3>3 DEF SetupFails, Worker
    <3>4. CASE RunCargoBuild
      BY <1>0, <3>4 DEF RunCargoBuild, Worker
    <3>5. CASE DropJob \/ CleanBuildDir
      BY <3>5 DEF DropJob, CleanBuildDir, IdleWorker
    <3> QED
      BY <1>3, <3>1, <3>2, <3>3, <3>4, <3>5
  <2> QED
    BY <2>1, <2>2 DEF Due, JobDue, Building
<1>4. CASE Crash
  BY <1>4 DEF Crash, Due, JobDue, Building, IdleHandler, IdleWorker, At, Sending
<1>5. ASSUME UNCHANGED <<queue, worker>>,
             \A c \in Client : handler'[c].at \in Sending /\ handler'[c].id = q
                                 => handler'[c] = handler[c]
      PROVE  Due(q)
  BY <1>5 DEF Due, JobDue, Building
<1>6. ASSUME NEW c \in Client, NEW p \in Plugin, NEW s \in Source, CreatePlugin(c, p, s)
      PROVE  Due(q)
  <2>1. p # q
    BY <1>6
  <2> QED
    BY <1>0, <1>5, <1>6, <2>1 DEF CreatePlugin, At
<1>7. ASSUME NEW c \in Client, UpdateWrite(c) PROVE Due(q)
  <2>1. handler[c].id # q
    BY <1>7
  <2> QED
    BY <1>0, <1>5, <1>7, <2>1 DEF UpdateWrite, At, IdleHandler, Sending
<1>8. ASSUME NEW c \in Client,
             \/ \E p \in Plugin, s \in Source : UpdateCheck(c, p, s)
             \/ \E p \in Plugin : DeleteHistory(c, p)
             \/ UpdateReread(c) \/ DeleteRow(c)
      PROVE  Due(q)
  BY <1>0, <1>5, <1>8 DEF UpdateCheck, DeleteHistory, UpdateReread, DeleteRow,
                          DeleteRowWith, At, IdleHandler, Sending
<1>9. CASE UNCHANGED vars
  BY <1>5, <1>9 DEF vars
<1> QED
  BY <1>1, <1>2, <1>3, <1>4, <1>6, <1>7, <1>8, <1>9 DEF Next, WorkerStep

\* A build that is due stays due until the worker decides on the row.
LEMMA DueStays ==
    ASSUME TInv, [Next]_vars, ~Crash, NEW q \in Plugin, Due(q),
           SaveVerdict => worker.id # q, DropJob => worker.id # q
    PROVE  Due(q)'
<1>0. worker \in Worker
  BY DEF TInv, TypeOK
<1>1. CASE FetchPlugin /\ worker.id = q
  BY <1>0, <1>1 DEF FetchPlugin, Worker, Due, Building
<1>2. CASE ~(FetchPlugin /\ worker.id = q) /\ JobDue(q)
  BY <1>2, JobDueKept DEF Due
<1>3. CASE ~FetchPlugin /\ Building(q)
  <2>1. ~SaveVerdict
    BY <1>3 DEF Building
  <2> QED
    BY <1>3, <2>1, BuildingKept DEF Due, Building
<1>4. CASE FetchPlugin /\ worker.id # q /\ Building(q)
  BY <1>4 DEF Building
<1> QED
  BY <1>1, <1>2, <1>3, <1>4 DEF Due

-----------------------------------------------------------------------------
(* The invariant.                                                          *)

\* Every step keeps rows to the ids handed out, and overtaken builds due.
LEMMA CatInvNext == Faults = {} /\ CatInv /\ [Next]_vars => CatInv'
<1> SUFFICES ASSUME Faults = {}, CatInv, [Next]_vars PROVE CatInv'
  OBVIOUS
<1>1. TInv' /\ OvertakenIsDue'
  BY TInvNext, OvertakenNext DEF CatInv
<1>2. ASSUME NEW q \in Plugin, Exists(plugins', q) PROVE q \in issued'
  <2>1. issued \subseteq issued'
    BY DEF Next, vars, CreatePlugin, UpdateCheck, UpdateWrite, DeleteHistory,
           DeleteRow, DeleteRowWith, QueueCompile, UpdateReread, WorkerStep,
           TakeJob, FetchPlugin, DropJob, SetupBuild, SetupFails, RunCargoBuild,
           SaveVerdict, CleanBuildDir, Crash
  <2>2. CASE Exists(plugins, q)
    BY <2>1, <2>2 DEF CatInv
  <2>3. ASSUME NEW c \in Client, NEW p \in Plugin, NEW s \in Source,
               CreatePlugin(c, p, s), ~Exists(plugins, q)
        PROVE  q \in issued'
    <3>1. p = q
      BY <1>2, <2>3, CreateEffect DEF CatInv, Exists
    <3> QED
      BY <2>3, <3>1 DEF CreatePlugin, CatInv, TInv, TypeOK
  <2>4. ASSUME NEW c \in Client, UpdateWrite(c) PROVE Exists(plugins, q)
    BY <1>2, <2>4, UpdateEffect DEF CatInv, Exists
  <2>5. ASSUME NEW c \in Client, DeleteRow(c) PROVE Exists(plugins, q)
    BY <1>2, <2>5, DeleteEffect DEF CatInv, Exists, Absent
  <2>6. CASE SaveVerdict
    BY <1>2, <2>2, <2>6, VerdictEffect DEF CatInv, Exists
  <2>7. CASE plugins' = plugins
    BY <1>2, <2>2, <2>7
  <2> QED
    BY <2>2, <2>3, <2>4, <2>5, <2>6, <2>7, OtherEffect
<1> QED
  BY <1>1, <1>2 DEF CatInv

-----------------------------------------------------------------------------
(* The steps.                                                              *)

\* What a client sees of a plugin depends on its row and its id alone.
LEMMA EntryKept ==
    ASSUME NEW q \in Plugin, plugins'[q] = plugins[q],
           q \in issued' <=> q \in issued
    PROVE  EntryOf(q)' = EntryOf(q) /\ (Exists(plugins, q)' <=> Exists(plugins, q))
  BY DEF EntryOf, Exists

\* The mapped state is the same when every plugin's is.
LEMMA MappedKept ==
    ASSUME CatInv, \A q \in Plugin : EntryOf(q)' = EntryOf(q),
           \A q \in Plugin : q \in OwedOf' <=> q \in OwedOf, crashes' = crashes
    PROVE  UNCHANGED Cat!catVars
<1>1. CatalogOf' = CatalogOf
  BY DEF CatalogOf
<1>2. OwedOf' = OwedOf
  BY DEF OwedOf
<1> QED
  BY <1>1, <1>2 DEF Cat!catVars

\* A step that is none of these is not seen in the catalog.
LEMMA HiddenStep ==
    ASSUME Faults = {}, CatInv, [Next]_vars, ~Crash, ~SaveVerdict,
           \A c \in Client, p \in Plugin, s \in Source : ~CreatePlugin(c, p, s),
           \A c \in Client : ~UpdateWrite(c) /\ ~DeleteRow(c)
    PROVE  UNCHANGED Cat!catVars
<1>1. plugins' = plugins /\ issued' = issued /\ crashes' = crashes
  <2>1. plugins' = plugins
    BY OtherEffect
  <2>2. UNCHANGED <<issued, crashes>>
    BY DEF Next, vars, UpdateCheck, DeleteHistory, QueueCompile, UpdateReread,
           WorkerStep, TakeJob, FetchPlugin, DropJob, SetupBuild, SetupFails,
           RunCargoBuild, CleanBuildDir
  <2> QED
    BY <2>1, <2>2
<1>2. ASSUME NEW q \in Plugin, Exists(plugins, q) PROVE Due(q)' <=> Due(q)
  <2>1. DropJob => worker.id # q
    BY <1>2 DEF DropJob
  <2>2. Due(q) => Due(q)'
    BY <2>1, DueStays DEF CatInv
  <2>3. Due(q)' => Due(q)
    BY DueComes DEF CatInv
  <2> QED
    BY <2>2, <2>3
<1>3. \A q \in Plugin : EntryOf(q)' = EntryOf(q)
  BY <1>1, EntryKept
<1>4. \A q \in Plugin : q \in OwedOf' <=> q \in OwedOf
  BY <1>1, <1>2 DEF OwedOf, Due, Exists
<1> QED
  BY <1>1, <1>3, <1>4, MappedKept

\* A new plugin is registered, and owed a decision.
LEMMA CreateMaps ==
    ASSUME Faults = {}, CatInv, [Next]_vars, NEW c \in Client, NEW p \in Plugin,
           NEW s \in Source, CreatePlugin(c, p, s)
    PROVE  Cat!Register(p, s)
<1> USE DEF CatInv
<1>1. Outcomes = {"ok"} /\ plugins \in Table /\ issued \subseteq Plugin
  BY DEF Outcomes, TInv, TypeOK, Table
<1>2. /\ plugins' = SavePlugin(plugins, p, s) /\ p \notin issued
      /\ issued' = issued \cup {p} /\ crashes' = crashes
  BY <1>1 DEF CreatePlugin, Written
<1>3. /\ plugins'[p] = [status |-> "pending", source |-> s, wasm |-> None,
                        errors |-> None, version |-> 1]
      /\ \A q \in Plugin \ {p} : plugins'[q] = plugins[q]
  BY <1>1, <1>2, SavePluginRow
<1>4. EntryOf(p) = Cat!Unborn /\ EntryOf(p)' = Cat!Pending(s)
  BY <1>2, <1>3 DEF EntryOf, Exists, Cat!Unborn, Cat!Pending
<1>5. \A q \in Plugin \ {p} : /\ EntryOf(q)' = EntryOf(q)
                              /\ Exists(plugins, q)' <=> Exists(plugins, q)
  BY <1>2, <1>3, EntryKept
<1>6. CatalogOf' = [CatalogOf EXCEPT ![p] = Cat!Pending(s)]
  BY <1>4, <1>5 DEF CatalogOf
<1>7. ASSUME NEW q \in Plugin, q # p PROVE Due(q)' <=> Due(q)
  <2>1. /\ \A d \in Client, t \in Source : ~CreatePlugin(d, q, t)
        /\ \A d \in Client : ~UpdateWrite(d)
        /\ ~Crash /\ ~SaveVerdict /\ ~DropJob
    BY <1>2, <1>7 DEF CreatePlugin, UpdateWrite, Crash, SaveVerdict, DropJob
  <2> QED
    BY <2>1, DueStays, DueComes
<1>8. JobDue(p)' /\ Exists(plugins, p)'
  BY <1>3, PendingIsAnnounced DEF Exists
<1>9. OwedOf' = OwedOf \cup {p}
  BY <1>5, <1>7, <1>8 DEF OwedOf, Due
<1> QED
  BY <1>2, <1>4, <1>6, <1>9 DEF Cat!Register, CatalogOf, Cat!Unborn

\* An update of a plugin that is still there resubmits it; one of a plugin
\* that is gone is not seen.
LEMMA UpdateMaps ==
    ASSUME Faults = {}, CatInv, [Next]_vars, NEW c \in Client, UpdateWrite(c)
    PROVE  \/ \E p \in Plugin, s \in Source : Cat!Resubmit(p, s)
           \/ UNCHANGED Cat!catVars
<1> USE DEF CatInv
<1>0. PICK p \in Plugin, s \in Source : p = handler[c].id /\ s = handler[c].src
  BY DEF TInv, Bound, UpdateWrite
<1>1. /\ Outcomes = {"ok"} /\ plugins \in Table
      /\ issued' = issued /\ crashes' = crashes
      /\ plugins' = UpdatePluginCode(plugins, p, s)
      /\ plugins[p].status \in Statuses
  BY <1>0 DEF Outcomes, TInv, TypeOK, Table, Row, UpdateWrite, Written
<1>2. /\ \A q \in Plugin \ {p} : plugins'[q] = plugins[q]
      /\ Exists(plugins, p) => plugins'[p] =
           [status |-> "pending", source |-> s, wasm |-> plugins[p].wasm,
            errors |-> None, version |-> plugins[p].version]
      /\ ~Exists(plugins, p) => plugins'[p] = plugins[p]
  BY <1>1 DEF UpdatePluginCode, Table, Row
<1>3. \A q \in Plugin \ {p} : /\ EntryOf(q)' = EntryOf(q)
                              /\ Exists(plugins, q)' <=> Exists(plugins, q)
  BY <1>1, <1>2, EntryKept
<1>4. ASSUME NEW q \in Plugin, q # p PROVE Due(q)' <=> Due(q)
  <2>1. handler'[c] # handler[c] /\ crashes' = crashes
    BY DEF UpdateWrite, TInv, TypeOK, At, IdleHandler
  <2>2. ~Crash /\ ~SaveVerdict /\ ~DropJob
    BY <2>1 DEF Crash, SaveVerdict, DropJob, TInv, TypeOK
  <2>3. \A d \in Client, t \in Source : ~CreatePlugin(d, q, t)
    BY <1>1 DEF CreatePlugin
  <2>4. \A d \in Client : UpdateWrite(d) => d = c
    BY <2>1 DEF UpdateWrite, TInv, TypeOK, At, IdleHandler
  <2>5. \A d \in Client : UpdateWrite(d) => handler[d].id # q
    BY <1>0, <1>4, <2>4
  <2> QED
    BY <2>2, <2>3, <2>5, DueStays, DueComes
<1>5. CASE Exists(plugins, p)
  <2>1. p \in issued /\ plugins[p].status \in Cat!Live
    BY <1>1, <1>5 DEF Statuses, Exists, Cat!Live
  <2>2. EntryOf(p).status = plugins[p].status
    BY <1>5, <2>1 DEF EntryOf
  <2>3. EntryOf(p)' = Cat!Pending(s) /\ Exists(plugins, p)'
    BY <1>1, <1>2, <1>5, <2>1 DEF EntryOf, Exists, Cat!Pending
  <2>4. JobDue(p)'
    BY <1>0, <2>3, PendingIsAnnounced DEF Exists
  <2>5. CatalogOf' = [CatalogOf EXCEPT ![p] = Cat!Pending(s)]
    BY <1>3, <2>3 DEF CatalogOf
  <2>6. OwedOf' = OwedOf \cup {p}
    BY <1>3, <1>4, <2>3, <2>4 DEF OwedOf, Due
  <2>7. Cat!Resubmit(p, s)
    BY <1>1, <2>1, <2>2, <2>5, <2>6 DEF Cat!Resubmit, CatalogOf
  <2> QED
    BY <2>7
<1>6. CASE ~Exists(plugins, p)
  <2>1. \A q \in Plugin : /\ EntryOf(q)' = EntryOf(q)
                          /\ Exists(plugins, q)' <=> Exists(plugins, q)
    BY <1>1, <1>2, <1>6, EntryKept
  <2>2. \A q \in Plugin : q \in OwedOf' <=> q \in OwedOf
    BY <1>4, <1>6, <2>1 DEF OwedOf, Due
  <2> QED
    BY <1>1, <2>1, <2>2, MappedKept
<1> QED
  BY <1>5, <1>6

\* A delete of a plugin that is still there removes it.
LEMMA DeleteMaps ==
    ASSUME Faults = {}, CatInv, [Next]_vars, NEW c \in Client, DeleteRow(c)
    PROVE  \/ \E p \in Plugin : Cat!Remove(p)
           \/ UNCHANGED Cat!catVars
<1> USE DEF CatInv
<1>0. PICK p \in Plugin : p = handler[c].id
  BY DEF TInv, Bound, DeleteRow, DeleteRowWith
<1>1. /\ Outcomes = {"ok"} /\ plugins \in Table
      /\ issued' = issued /\ crashes' = crashes
      /\ plugins' = DeletePluginRow(plugins, p)
      /\ plugins[p].status \in Statuses
  BY <1>0 DEF Outcomes, TInv, TypeOK, Table, Row, DeleteRow, DeleteRowWith, Written
<1>2. /\ \A q \in Plugin \ {p} : plugins'[q] = plugins[q]
      /\ plugins'[p] = Absent
  BY <1>1 DEF DeletePluginRow, Table
<1>3. \A q \in Plugin \ {p} : /\ EntryOf(q)' = EntryOf(q)
                              /\ Exists(plugins, q)' <=> Exists(plugins, q)
  BY <1>1, <1>2, EntryKept
<1>4. ASSUME NEW q \in Plugin PROVE Due(q)' <=> Due(q)
  <2>1. UNCHANGED <<queue, worker>>
    BY DEF DeleteRow, DeleteRowWith
  <2>2. \A d \in Client : \/ handler'[d] = handler[d]
                          \/ handler[d].at = "delete_row" /\ handler'[d].at = "idle"
    BY DEF DeleteRow, DeleteRowWith, IdleHandler, At, TInv, TypeOK
  <2> QED
    BY <2>1, <2>2 DEF Due, JobDue, Building, Sending
<1>5. ~Exists(plugins, p)'
  BY <1>2 DEF Exists, Absent
<1>6. CASE Exists(plugins, p)
  <2>1. p \in issued /\ plugins[p].status \in Cat!Live
    BY <1>1, <1>6 DEF Statuses, Exists, Cat!Live
  <2>2. EntryOf(p).status = plugins[p].status /\ EntryOf(p)' = Cat!Gone
    BY <1>1, <1>5, <1>6, <2>1 DEF EntryOf, Exists, Cat!Gone
  <2>3. CatalogOf' = [CatalogOf EXCEPT ![p] = Cat!Gone]
    BY <1>3, <2>2 DEF CatalogOf
  <2>4. OwedOf' = OwedOf \ {p}
    BY <1>3, <1>4, <1>5 DEF OwedOf, Due
  <2>5. Cat!Remove(p)
    BY <1>1, <2>1, <2>2, <2>3, <2>4 DEF Cat!Remove, CatalogOf
  <2> QED
    BY <2>5
<1>7. CASE ~Exists(plugins, p)
  <2>1. EntryOf(p)' = EntryOf(p)
    BY <1>1, <1>5, <1>7 DEF EntryOf
  <2>2. \A q \in Plugin : q \in OwedOf' <=> q \in OwedOf
    BY <1>3, <1>4, <1>5, <1>7 DEF OwedOf, Due
  <2>3. \A q \in Plugin : EntryOf(q)' = EntryOf(q)
    BY <1>3, <2>1
  <2> QED
    BY <1>1, <2>2, <2>3, MappedKept
<1> QED
  BY <1>6, <1>7

\* A verdict decides a plugin that is still there, and pays the debt unless
\* the build was overtaken; one on a plugin that is gone is not seen.
LEMMA VerdictMaps ==
    ASSUME Faults = {}, CatInv, SaveVerdict
    PROVE  \/ \E p \in Plugin : Cat!DecideSome(p)
           \/ UNCHANGED Cat!catVars
<1> USE DEF CatInv
<1>0. PICK p \in Plugin, s \in Source : p = worker.id /\ s = worker.src
  BY VerdictEffect
<1>1. /\ Outcomes = {"ok"} /\ plugins \in Table
      /\ issued' = issued /\ crashes' = crashes
      /\ Building(p) /\ \A q \in Plugin \ {p} : ~Building(q)
      /\ \A q \in Plugin : ~Building(q)'
  BY <1>0 DEF Outcomes, TInv, TypeOK, Table, Worker, SaveVerdict, Building
<1>2. \A q \in Plugin : JobDue(q)' <=> JobDue(q)
  BY DEF TInv, TypeOK, Worker, SaveVerdict, JobDue
<1>3. \A q \in Plugin \ {p} : /\ EntryOf(q)' = EntryOf(q)
                              /\ Exists(plugins, q)' <=> Exists(plugins, q)
  BY <1>0, <1>1, VerdictEffect, EntryKept
<1>4. CASE Exists(plugins, p)
  <2>1. PICK status \in {"compiled", "failed"} :
          plugins'[p] = [status |-> status, source |-> plugins[p].source,
                         wasm |-> IF status = "compiled" THEN s ELSE None,
                         errors |-> IF status = "compiled" THEN None ELSE s,
                         version |-> plugins[p].version + 1]
    <3>1. \/ plugins' = UpdatePluginStatus(plugins, p, "compiled", s, None)
          \/ plugins' = UpdatePluginStatus(plugins, p, "failed", None, s)
      BY <1>0, <1>1 DEF SaveVerdict, Written
    <3> QED
      BY <1>1, <1>4, <3>1, UpdateStatusRow
  <2>2. /\ EntryOf(p)' = [status |-> status, source |-> plugins[p].source,
                          verdict |-> s]
        /\ Exists(plugins, p)'
    BY <1>1, <1>4, <2>1 DEF EntryOf, Exists
  <2>3. EntryOf(p).source = plugins[p].source
    BY <1>4 DEF EntryOf
  <2>4. CatalogOf' = [CatalogOf EXCEPT ![p] =
                        [status |-> status, source |-> @.source, verdict |-> s]]
    BY <1>3, <2>2, <2>3 DEF CatalogOf
  <2>5. p \in OwedOf
    BY <1>1, <1>4 DEF OwedOf
  <2>6. \/ OwedOf' = OwedOf
        \/ s = CatalogOf[p].source /\ OwedOf' = OwedOf \ {p}
    <3>1. CASE JobDue(p)
      <4>1. ASSUME NEW q \in Plugin PROVE q \in OwedOf' <=> q \in OwedOf
        BY <1>1, <1>2, <1>3, <1>4, <2>2, <3>1 DEF OwedOf
      <4> QED
        BY <4>1 DEF OwedOf
    <3>2. CASE ~JobDue(p)
      <4>1. s = plugins[p].source
        BY <1>0, <1>1, <1>4, <3>2 DEF OvertakenIsDue
      <4>2. OwedOf' = OwedOf \ {p}
        BY <1>1, <1>2, <1>3, <3>2 DEF OwedOf
      <4> QED
        BY <2>3, <4>1, <4>2 DEF CatalogOf
    <3> QED
      BY <3>1, <3>2
  <2>7. Cat!Decide(p, s, status)
    BY <1>1, <2>4, <2>5, <2>6 DEF Cat!Decide
  <2> QED
    BY <2>7 DEF Cat!DecideSome
<1>5. CASE ~Exists(plugins, p)
  <2>1. plugins'[p] = plugins[p]
    BY <1>0, <1>5, VerdictEffect
  <2>2. \A q \in Plugin : /\ EntryOf(q)' = EntryOf(q)
                          /\ Exists(plugins, q)' <=> Exists(plugins, q)
    BY <1>1, <1>3, <2>1, EntryKept
  <2>3. \A q \in Plugin : q \in OwedOf' <=> q \in OwedOf
    BY <1>1, <1>2, <1>5, <2>2 DEF OwedOf
  <2> QED
    BY <1>1, <2>2, <2>3, MappedKept
<1> QED
  BY <1>4, <1>5

\* A crash forgets every debt and leaves the catalog as it is.
LEMMA CrashMaps ==
    ASSUME CatInv, Crash
    PROVE  Cat!Restart
<1>1. plugins' = plugins /\ issued' = issued /\ crashes' = crashes + 1
  BY DEF Crash
<1>2. \A q \in Plugin : EntryOf(q)' = EntryOf(q)
  BY <1>1, EntryKept
<1>3. \A q \in Plugin : ~JobDue(q)' /\ ~Building(q)'
  BY DEF Crash, JobDue, Building, IdleWorker, IdleHandler, At, Sending
<1>4. CatalogOf' = CatalogOf /\ OwedOf' = {}
  BY <1>2, <1>3 DEF CatalogOf, OwedOf
<1> QED
  BY <1>1, <1>4 DEF Cat!Restart

\* Every step of the pipeline is a step of the catalog, or hidden from it.
LEMMA CatalogStep ==
    Faults = {} /\ CatInv /\ [Next]_vars => [Cat!Next]_(Cat!catVars)
<1> SUFFICES ASSUME Faults = {}, CatInv, [Next]_vars
             PROVE  [Cat!Next]_(Cat!catVars)
  OBVIOUS
<1>1. ASSUME NEW c \in Client, NEW p \in Plugin, NEW s \in Source,
             CreatePlugin(c, p, s)
      PROVE  Cat!Next
  BY <1>1, CreateMaps DEF Cat!Next
<1>2. ASSUME NEW c \in Client, UpdateWrite(c)
      PROVE  Cat!Next \/ UNCHANGED Cat!catVars
  BY <1>2, UpdateMaps DEF Cat!Next
<1>3. ASSUME NEW c \in Client, DeleteRow(c)
      PROVE  Cat!Next \/ UNCHANGED Cat!catVars
  BY <1>3, DeleteMaps DEF Cat!Next
<1>4. CASE SaveVerdict
  BY <1>4, VerdictMaps DEF Cat!Next
<1>5. CASE Crash
  BY <1>5, CrashMaps DEF Cat!Next
<1> QED
  BY <1>1, <1>2, <1>3, <1>4, <1>5, HiddenStep

\* With a database that does not fail, and whatever the host's crashes: what
\* clients are told of their plugins is what the catalog promises.  A verdict
\* on a text that an update replaced is stored only while another build of
\* the plugin is still to come, nothing but a crash drops a build, and a
\* deleted plugin is never decided again.
THEOREM PipelineImplementsCatalog == Faults = {} => (Spec => Cat!SafeSpec)
<1> SUFFICES ASSUME Faults = {} PROVE Spec => Cat!SafeSpec
  OBVIOUS
<1>1. Init => CatInv /\ Cat!Init
  BY CatInvInit
<1>2. CatInv /\ [Next]_vars => CatInv'
  BY CatInvNext
<1>3. CatInv /\ [Next]_vars => [Cat!Next]_(Cat!catVars)
  BY CatalogStep
<1>4. QED
  BY <1>1, <1>2, <1>3, PTL DEF Spec, Cat!SafeSpec
=============================================================================
