----------------------------- MODULE HostProofs -----------------------------
(***************************************************************************)
(* Theorems about PluginHost, for every choice of its constants.  The      *)
(* control plane's lemmas are those of its own proofs: a step of the host  *)
(* is one of the pipeline, or a delete that the foreign key refuses.       *)
(***************************************************************************)
EXTENDS PluginHost, CatalogProofs

\* A delete that is refused answers the request and leaves the rows alone.
LEMMA Refused ==
    ASSUME TInv, NEW c \in Client, DeleteRowWith(c, "rejected")
    PROVE  /\ UNCHANGED <<plugins, issued, queue, worker, buildDirs, crashes>>
           /\ handler' = [handler EXCEPT ![c] = IdleHandler]
  BY DEF DeleteRowWith, Written

\* Every step of the host is one of the pipeline, or such a delete.
LEMMA HostStep ==
    ASSUME [HostNext]_hostVars
    PROVE  [Next]_vars \/ \E c \in Client : DeleteRowWith(c, "rejected")
<1>1. CASE \E c \in Client, p \in Plugin, s \in Source : Submit(c, p, s)
  BY <1>1 DEF Submit, Next
<1>2. CASE \E c \in Client, p \in Plugin :
             ForgetHistory(c, p) \/ ForgetHistoryFails(c, p)
  BY <1>2 DEF ForgetHistory, ForgetHistoryFails, Next
<1>3. CASE \E c \in Client : RemoveRow(c)
  BY <1>3 DEF RemoveRow, Next, DeleteRow
<1>4. CASE ControlStep
  BY <1>4 DEF ControlStep, Next
<1>5. CASE \/ \E r \in Runner, p \in Plugin : ExecuteBegin(r, p)
           \/ \E r \in Runner : GetModule(r) \/ SaveExecution(r) \/ RunFails(r)
  BY <1>5 DEF ExecuteBegin, GetModule, SaveExecution, RunFails
<1>6. CASE Restart
  BY <1>6 DEF Restart, Next
<1>7. CASE UNCHANGED hostVars
  BY <1>7 DEF hostVars
<1> QED
  BY <1>1, <1>2, <1>3, <1>4, <1>5, <1>6, <1>7 DEF HostNext

\* The control plane keeps its types and its artefacts inside the host too.
LEMMA HostArtefact == ArtefactInv /\ [HostNext]_hostVars => ArtefactInv'
<1> SUFFICES ASSUME ArtefactInv, [HostNext]_hostVars PROVE ArtefactInv'
  OBVIOUS
<1>1. CASE [Next]_vars
  BY <1>1, ArtefactNext
<1>2. ASSUME NEW c \in Client, DeleteRowWith(c, "rejected") PROVE ArtefactInv'
  <2>1. /\ UNCHANGED <<plugins, issued, queue, worker, buildDirs, crashes>>
        /\ handler' = [handler EXCEPT ![c] = IdleHandler]
    BY <1>2, Refused DEF ArtefactInv
  <2>2. TInv'
    <3>1. handler' \in [Client -> Handler]
      BY <2>1 DEF ArtefactInv, TInv, TypeOK, Handler, HandlerAt, IdleHandler, At
    <3>2. \A d \in Client : handler'[d] = handler[d] \/ handler'[d] = IdleHandler
      BY <2>1 DEF ArtefactInv, TInv, TypeOK
    <3> QED
      BY <2>1, <3>1, <3>2 DEF ArtefactInv, TInv, TypeOK, Bound, IdleHandler, At
  <2> QED
    BY <2>1, <2>2 DEF ArtefactInv, StatusMatchesArtefact, VerdictSound
<1> QED
  BY <1>1, <1>2, HostStep

-----------------------------------------------------------------------------
(* Types of the engine and the history.                                    *)

MaybeSource == Source \cup {None}

CallType == [at: {"idle", "called", "answered"}, id: Plugin \cup {None},
             bytes: MaybeSource, res: MaybeSource]

\* A run that waits for its module knows its plugin, and its bytes can be
\* loaded: it was begun on a compiled row.
CallBound ==
    \A r \in Runner :
        /\ call[r].at # "idle" => call[r].id \in Plugin
        /\ call[r].at = "called" => call[r].bytes \in Compilable

EngineTypes ==
    /\ table \in [Plugin -> MaybeSource]
    /\ call \in [Runner -> CallType]
    /\ CallBound
    /\ history \subseteq Plugin
    /\ submitted \in [Plugin -> SUBSET Source]

HInv == ArtefactInv /\ EngineTypes

\* The host starts with an idle engine and no history.
LEMMA HInvInit == HostInit => HInv
<1> SUFFICES ASSUME HostInit PROVE HInv
  OBVIOUS
<1>1. ArtefactInv
  BY ArtefactInit DEF HostInit
<1>2. EngineTypes
  BY DEF HostInit, Memo!Init, Memo!NoCall, EngineTypes, CallBound, CallType,
         MaybeSource
<1> QED
  BY <1>1, <1>2 DEF HInv

\* Execute begins on a compiled row, with its artefact.
LEMMA BeginEffect ==
    ASSUME HInv, NEW r \in Runner, NEW p \in Plugin, ExecuteBegin(r, p)
    PROVE  /\ plugins[p].status = "compiled" /\ plugins[p].wasm \in Compilable
           /\ UNCHANGED <<vars, table, history, submitted>>
           /\ call' = [call EXCEPT ![r] =
                        [at |-> "called", id |-> p, bytes |-> plugins[p].wasm,
                         res |-> None]]
  BY DEF ExecuteBegin, Memo!Invoke, HInv, ArtefactInv, StatusMatchesArtefact

\* GetModule answers with what the table then holds for the plugin, and adds
\* an entry where there was none.
LEMMA AnswerEffect ==
    ASSUME HInv, NEW r \in Runner, GetModule(r)
    PROVE  /\ call[r].at = "called" /\ call[r].id \in Plugin
           /\ call[r].bytes \in Compilable
           /\ UNCHANGED <<vars, history, submitted>>
           /\ table' = IF table[call[r].id] = None
                       THEN [table EXCEPT ![call[r].id] = call[r].bytes]
                       ELSE table
           /\ call' = [call EXCEPT ![r] =
                        [at |-> "answered", id |-> call[r].id,
                         bytes |-> call[r].bytes, res |-> table'[call[r].id]]]
<1>1. call[r].at = "called"
  BY DEF GetModule, Memo!Answer
<1>2. call[r].id \in Plugin /\ call[r].bytes \in Compilable
  BY <1>1 DEF HInv, EngineTypes, CallBound
<1> QED
  BY <1>1, <1>2 DEF GetModule, Memo!Answer

\* The run ends: its call is forgotten.
LEMMA EndEffect ==
    ASSUME HInv, NEW r \in Runner, SaveExecution(r) \/ RunFails(r)
    PROVE  /\ UNCHANGED <<vars, table, submitted>>
           /\ call' = [call EXCEPT ![r] = Memo!NoCall]
           /\ call[r].at = "answered" /\ call[r].id \in Plugin
           /\ \/ history' = history
              \/ history' = history \cup {call[r].id}
<1>1. call[r].at = "answered" /\ call[r].id \in Plugin
  BY DEF SaveExecution, RunFails, Memo!Return, HInv, EngineTypes, CallBound
<1> QED
  BY <1>1 DEF SaveExecution, Record, RunFails, Memo!Return, Written

\* Every other step leaves the engine alone, or restarts it.
LEMMA ControlEffect ==
    ASSUME HInv, [HostNext]_hostVars,
           ~ \E r \in Runner, p \in Plugin : ExecuteBegin(r, p),
           ~ \E r \in Runner : GetModule(r) \/ SaveExecution(r) \/ RunFails(r)
    PROVE  /\ \/ UNCHANGED <<table, call>>
              \/ /\ table' = [p \in Plugin |-> None]
                 /\ call' = [r \in Runner |-> Memo!NoCall]
           /\ \/ history' = history
              \/ \E p \in Plugin : history' = history \ {p}
           /\ \/ submitted' = submitted
              \/ \E c \in Client, p \in Plugin, s \in Source : Submit(c, p, s)
  BY DEF HostNext, hostVars, engineVars, Submit, ForgetHistory, Written,
         ForgetHistoryFails, RemoveRow, ControlStep, Restart

\* Every step keeps the types of the engine and the history.
LEMMA HInvNext == HInv /\ [HostNext]_hostVars => HInv'
<1> SUFFICES ASSUME HInv, [HostNext]_hostVars PROVE HInv'
  OBVIOUS
<1>0. ArtefactInv'
  BY HostArtefact DEF HInv
<1>1. /\ table \in [Plugin -> MaybeSource] /\ call \in [Runner -> CallType]
      /\ CallBound /\ history \subseteq Plugin
      /\ submitted \in [Plugin -> SUBSET Source] /\ Compilable \subseteq Source
  BY PipelineAssumption DEF HInv, EngineTypes
<1>2. ASSUME NEW r \in Runner, NEW p \in Plugin, ExecuteBegin(r, p)
      PROVE  EngineTypes'
  <2>1. plugins[p].wasm \in MaybeSource
    BY <1>1, <1>2, BeginEffect DEF MaybeSource
  <2>2. call' \in [Runner -> CallType] /\ CallBound'
    BY <1>1, <1>2, <2>1, BeginEffect DEF CallType, CallBound, MaybeSource
  <2> QED
    BY <1>1, <1>2, <2>2, BeginEffect DEF EngineTypes
<1>3. ASSUME NEW r \in Runner, GetModule(r) PROVE EngineTypes'
  <2>1. table' \in [Plugin -> MaybeSource]
    BY <1>1, <1>3, AnswerEffect DEF MaybeSource
  <2>2. call' \in [Runner -> CallType] /\ CallBound'
    BY <1>1, <1>3, <2>1, AnswerEffect DEF CallType, CallBound, MaybeSource
  <2> QED
    BY <1>1, <1>3, <2>1, <2>2, AnswerEffect DEF EngineTypes
<1>4. ASSUME NEW r \in Runner, SaveExecution(r) \/ RunFails(r)
      PROVE  EngineTypes'
  <2>1. call' \in [Runner -> CallType] /\ CallBound'
    BY <1>1, <1>4, EndEffect DEF CallType, CallBound, MaybeSource, Memo!NoCall
  <2>2. history' \subseteq Plugin
    BY <1>1, <1>4, EndEffect
  <2> QED
    BY <1>1, <1>4, <2>1, <2>2, EndEffect DEF EngineTypes
<1>5. CASE /\ ~ \E r \in Runner, p \in Plugin : ExecuteBegin(r, p)
           /\ ~ \E r \in Runner : GetModule(r) \/ SaveExecution(r) \/ RunFails(r)
  <2>1. table' \in [Plugin -> MaybeSource]
    BY <1>1, <1>5, ControlEffect DEF MaybeSource
  <2>2. call' \in [Runner -> CallType] /\ CallBound'
    BY <1>1, <1>5, ControlEffect DEF CallType, CallBound, MaybeSource, Memo!NoCall
  <2>3. history' \subseteq Plugin
    BY <1>1, <1>5, ControlEffect
  <2>4. submitted' \in [Plugin -> SUBSET Source]
    BY <1>1, <1>5, ControlEffect DEF Submit
  <2> QED
    BY <1>0, <2>1, <2>2, <2>3, <2>4 DEF EngineTypes, HInv
<1> QED
  BY <1>0, <1>2, <1>3, <1>4, <1>5 DEF HInv

-----------------------------------------------------------------------------
(* What the control plane promised alone it promises in the host, where a  *)
(* delete may also be refused by the foreign key.                          *)

\* A refused delete makes no build due that was not, and takes none away.
LEMMA RefusedKeepsDue ==
    ASSUME TInv, NEW c \in Client, DeleteRowWith(c, "rejected"), NEW q \in Plugin
    PROVE  /\ JobDue(q)' <=> JobDue(q)
           /\ Building(q)' <=> Building(q)
<1>1. /\ UNCHANGED <<queue, worker>> /\ handler[c].at = "delete_row"
      /\ \A d \in Client : \/ handler'[d] = handler[d]
                           \/ handler[d].at = "delete_row" /\ handler'[d].at = "idle"
  BY Refused DEF DeleteRowWith, TInv, TypeOK, IdleHandler, At
<1> QED
  BY <1>1 DEF JobDue, Building, Sending

\* Whatever execute and delete add to the control plane, a compiled plugin has
\* an artefact of a source that compiles, and a failed one has none.
THEOREM HostArtefacts == HostSpec => []StatusMatchesArtefact
<1>1. HInv => StatusMatchesArtefact
  BY DEF HInv, ArtefactInv
<1> QED
  BY <1>1, HInvInit, HInvNext, PTL DEF HostSpec

\* A plugin that was deleted has no row after any step of the host.
LEMMA HostGoneStaysGone ==
    ASSUME HInv, [HostNext]_hostVars, NEW q \in issued, ~Exists(plugins, q)
    PROVE  ~Exists(plugins', q)
<1>1. TInv
  BY DEF HInv, ArtefactInv
<1>2. CASE [Next]_vars
  BY <1>1, <1>2, GoneStaysGone
<1>3. CASE \E c \in Client : DeleteRowWith(c, "rejected")
  BY <1>1, <1>3, Refused
<1> QED
  BY <1>2, <1>3, HostStep

\* In the whole host too a deleted plugin never comes back.
THEOREM HostNoResurrection == HostSpec => DeletedStaysDeleted
<1>1. ASSUME HInv, [HostNext]_hostVars
      PROVE  [\A p \in issued : ~Exists(plugins, p) => ~Exists(plugins', p)]_vars
  BY <1>1, HostGoneStaysGone
<1> QED
  BY HInvInit, HInvNext, <1>1, PTL DEF HostSpec, DeletedStaysDeleted

\* With or without the foreign key, whatever fails and crashes: what was
\* deleted, and whose executions have ended, never runs again and gets no
\* history, though its module stays in the cache until the process dies.
THEOREM DeleteIsFinal == HostSpec => GoneForGood
<1>1. ASSUME HInv, [HostNext]_hostVars
      PROVE  [\A p \in issued : Gone(p) => Gone(p)']_hostVars
  <2> SUFFICES ASSUME NEW q \in issued, Gone(q)
               PROVE  /\ q \notin history'
                      /\ \A r \in Runner : call'[r].at # "idle" => call'[r].id # q
    BY <1>1, HostGoneStaysGone DEF Gone
  <2>0. call \in [Runner -> CallType] /\ ~Exists(plugins, q)
    BY <1>1 DEF HInv, EngineTypes, Gone
  <2>1. ASSUME NEW r \in Runner, NEW p \in Plugin, ExecuteBegin(r, p)
        PROVE  /\ q \notin history'
               /\ \A s \in Runner : call'[s].at # "idle" => call'[s].id # q
    <3>1. p # q
      BY <1>1, <2>0, <2>1, BeginEffect DEF Exists
    <3> QED
      BY <1>1, <2>0, <2>1, <3>1, BeginEffect DEF Gone
  <2>2. ASSUME NEW r \in Runner, GetModule(r)
        PROVE  /\ q \notin history'
               /\ \A s \in Runner : call'[s].at # "idle" => call'[s].id # q
    BY <1>1, <2>0, <2>2, AnswerEffect DEF Gone
  <2>3. ASSUME NEW r \in Runner, SaveExecution(r) \/ RunFails(r)
        PROVE  /\ q \notin history'
               /\ \A s \in Runner : call'[s].at # "idle" => call'[s].id # q
    BY <1>1, <2>0, <2>3, EndEffect DEF Gone, Memo!NoCall
  <2>4. CASE /\ ~ \E r \in Runner, p \in Plugin : ExecuteBegin(r, p)
             /\ ~ \E r \in Runner : GetModule(r) \/ SaveExecution(r) \/ RunFails(r)
    BY <1>1, <2>0, <2>4, ControlEffect DEF Gone, Memo!NoCall
  <2> QED
    BY <2>1, <2>2, <2>3, <2>4
<1> QED
  BY HInvInit, HInvNext, <1>1, PTL DEF HostSpec, GoneForGood

\* Neither an execution nor a refused delete loses a rebuild.
THEOREM HostRebuildsNotLost ==
    Faults = {} => (HostSpec => OnlyCrashesLoseRebuilds)
<1> SUFFICES ASSUME Faults = {} PROVE HostSpec => OnlyCrashesLoseRebuilds
  OBVIOUS
<1> DEFINE I == HInv /\ RebuildInv
<1>1. HostInit => I
  BY HInvInit, RebuildInit DEF HostInit
<1>2. I /\ [HostNext]_hostVars => I'
  <2> SUFFICES ASSUME I, [HostNext]_hostVars PROVE I'
    OBVIOUS
  <2>1. HInv' /\ TInv'
    BY HInvNext DEF HInv, ArtefactInv
  <2>2. CASE [Next]_vars
    BY <2>1, <2>2, RebuildNext
  <2>3. ASSUME NEW c \in Client, DeleteRowWith(c, "rejected")
        PROVE  OvertakenIsDue'
    <3>1. UNCHANGED <<plugins, worker>>
      BY <2>3, Refused DEF RebuildInv
    <3>2. \A q \in Plugin : (JobDue(q)' <=> JobDue(q)) /\ (Building(q)' <=> Building(q))
      BY <2>3, RefusedKeepsDue DEF RebuildInv
    <3> QED
      BY <3>1, <3>2 DEF RebuildInv, OvertakenIsDue, Exists
  <2> QED
    BY <2>1, <2>2, <2>3, HostStep DEF RebuildInv
<1>3. ASSUME I, [HostNext]_hostVars
      PROVE  [crashes' = crashes =>
                \A p \in Plugin : Lost(p)' => Lost(p)]_vars
  <2> SUFFICES ASSUME crashes' = crashes, NEW p \in Plugin, ~Lost(p)
               PROVE  ~Lost(p)'
    OBVIOUS
  <2>1. ~Crash /\ TInv
    BY <1>3, PipelineAssumption DEF Crash, RebuildInv, TInv, TypeOK
  <2>2. CASE [Next]_vars
    BY <1>3, <2>1, <2>2, RebuildKept
  <2>3. ASSUME NEW c \in Client, DeleteRowWith(c, "rejected") PROVE ~Lost(p)'
    <3>1. UNCHANGED <<plugins, worker>>
      BY <2>1, <2>3, Refused
    <3>2. (JobDue(p)' <=> JobDue(p)) /\ (Building(p)' <=> Building(p))
      BY <2>1, <2>3, RefusedKeepsDue
    <3> QED
      BY <3>1, <3>2 DEF Lost, Exists, Settled
  <2> QED
    BY <1>3, <2>2, <2>3, HostStep
<1> QED
  BY <1>1, <1>2, <1>3, PTL DEF HostSpec, OnlyCrashesLoseRebuilds

\* The catalog does not see a refused delete.
LEMMA RefusedIsHidden ==
    ASSUME CatInv, NEW c \in Client, DeleteRowWith(c, "rejected"), TInv'
    PROVE  CatInv' /\ UNCHANGED Cat!catVars
<1>1. UNCHANGED <<plugins, issued, worker, crashes>>
  BY Refused DEF CatInv
<1>2. \A q \in Plugin : (JobDue(q)' <=> JobDue(q)) /\ (Building(q)' <=> Building(q))
  BY RefusedKeepsDue DEF CatInv
<1>3. CatInv'
  BY <1>1, <1>2 DEF CatInv, OvertakenIsDue, Exists
<1>4. \A q \in Plugin : EntryOf(q)' = EntryOf(q)
  BY <1>1, EntryKept
<1>5. \A q \in Plugin : q \in OwedOf' <=> q \in OwedOf
  BY <1>1, <1>2 DEF OwedOf, Exists
<1> QED
  BY <1>1, <1>3, <1>4, <1>5, MappedKept

\* With a database that does not fail, and with or without the foreign key,
\* what the whole host tells clients of their plugins is what the catalog
\* promises: executing plugins and recording it changes nothing of that.
THEOREM HostImplementsCatalog == Faults = {} => (HostSpec => Cat!SafeSpec)
<1> SUFFICES ASSUME Faults = {} PROVE HostSpec => Cat!SafeSpec
  OBVIOUS
<1> DEFINE I == HInv /\ CatInv
<1>1. HostInit => I /\ Cat!Init
  BY HInvInit, CatInvInit DEF HostInit
<1>2. I /\ [HostNext]_hostVars => I' /\ [Cat!Next]_(Cat!catVars)
  <2> SUFFICES ASSUME I, [HostNext]_hostVars
               PROVE  I' /\ [Cat!Next]_(Cat!catVars)
    OBVIOUS
  <2>1. HInv' /\ TInv'
    BY HInvNext DEF HInv, ArtefactInv
  <2>2. CASE [Next]_vars
    BY <2>1, <2>2, CatInvNext, CatalogStep
  <2>3. CASE \E c \in Client : DeleteRowWith(c, "rejected")
    BY <2>1, <2>3, RefusedIsHidden
  <2> QED
    BY <2>2, <2>3, HostStep
<1> QED
  BY <1>1, <1>2, PTL DEF HostSpec, Cat!SafeSpec

-----------------------------------------------------------------------------
(* Who writes the rows.                                                    *)

Rest == <<engineVars, history, submitted>>

\* Only these steps of the host change the plugins table.
LEMMA RowCases ==
    ASSUME HInv, [HostNext]_hostVars
    PROVE  \/ UNCHANGED plugins
           \/ \E c \in Client, p \in Plugin, s \in Source :
                /\ CreatePlugin(c, p, s) /\ Submit(c, p, s)
                /\ UNCHANGED <<engineVars, history>>
           \/ \E c \in Client : UpdateWrite(c) /\ UNCHANGED Rest
           \/ \E c \in Client : RemoveRow(c) /\ UNCHANGED Rest
           \/ SaveVerdict /\ UNCHANGED Rest
<1>1. CASE \E c \in Client, p \in Plugin, s \in Source : Submit(c, p, s)
  BY <1>1 DEF Submit, UpdateCheck
<1>2. CASE \E c \in Client, p \in Plugin :
             ForgetHistory(c, p) \/ ForgetHistoryFails(c, p)
  BY <1>2 DEF ForgetHistory, ForgetHistoryFails, DeleteHistory, vars
<1>3. CASE \E c \in Client : RemoveRow(c)
  BY <1>3 DEF RemoveRow, Rest
<1>4. CASE ControlStep
  BY <1>4 DEF ControlStep, Rest, WorkerStep, TakeJob, FetchPlugin, DropJob,
              SetupBuild, SetupFails, RunCargoBuild, CleanBuildDir,
              QueueCompile, UpdateReread
<1>5. CASE \/ \E r \in Runner, p \in Plugin : ExecuteBegin(r, p)
           \/ \E r \in Runner : GetModule(r) \/ SaveExecution(r) \/ RunFails(r)
  BY <1>5 DEF ExecuteBegin, GetModule, SaveExecution, RunFails, vars
<1>6. CASE Restart
  BY <1>6 DEF Restart, Crash
<1>7. CASE UNCHANGED hostVars
  BY <1>7 DEF hostVars, vars
<1> QED
  BY <1>1, <1>2, <1>3, <1>4, <1>5, <1>6, <1>7 DEF HostNext

\* What a delete that goes through the host does to the rows.
LEMMA RemoveEffect ==
    ASSUME HInv, NEW c \in Client, RemoveRow(c)
    PROVE  /\ handler[c].id \in Plugin
           /\ \A q \in Plugin \ {handler[c].id} : plugins'[q] = plugins[q]
           /\ plugins'[handler[c].id] \in {plugins[handler[c].id], Absent}
<1> DEFINE p == handler[c].id
<1>1. plugins \in Table /\ p \in Plugin
  BY DEF HInv, ArtefactInv, TInv, TypeOK, Bound, Table, RemoveRow, DeleteRowWith
<1>2. plugins' \in {plugins, DeletePluginRow(plugins, p)}
  BY WrittenEither DEF RemoveRow, DeleteRowWith
<1> HIDE DEF p
<1>3. /\ \A q \in Plugin \ {p} : plugins'[q] = plugins[q]
      /\ plugins'[p] \in {plugins[p], Absent}
  BY <1>1, <1>2, DeleteRowRow
<1> QED
  BY <1>1, <1>3 DEF p

-----------------------------------------------------------------------------
(* Tenants.  A text travels from the request to the row, from the row to   *)
(* the worker and back, into the cache and into the run: at each of these  *)
(* points it is still next to the id it was submitted under.               *)

RowOwn(r, texts) ==
    /\ r.status # "absent" => r.source \in texts
    /\ r.wasm # None => r.wasm \in texts

RowsOwn == \A p \in Plugin : RowOwn(plugins[p], submitted[p])

HandlersOwn ==
    \A c \in Client : handler[c].at = "update_write" =>
        handler[c].src \in submitted[handler[c].id]

WorkerOwn ==
    worker.at \in {"setup", "build", "save"} =>
        worker.src \in submitted[worker.id]

TableOwn == \A p \in Plugin : table[p] # None => table[p] \in submitted[p]

CallsOwn ==
    \A r \in Runner :
        /\ call[r].at = "called" => call[r].bytes \in submitted[call[r].id]
        /\ call[r].res # None =>
             call[r].at = "answered" /\ call[r].res \in submitted[call[r].id]

OwnInv == RowsOwn /\ HandlersOwn /\ WorkerOwn /\ TableOwn /\ CallsOwn

\* At the start there is nothing that could be somebody else's.
LEMMA OwnInit == HostInit => OwnInv
  BY DEF HostInit, Init, Memo!Init, Memo!NoCall, OwnInv, RowsOwn, RowOwn,
         HandlersOwn, WorkerOwn, TableOwn, CallsOwn, Absent, IdleHandler, At,
         IdleWorker

\* What was submitted stays submitted.
LEMMA SubmittedGrows ==
    ASSUME HInv, [HostNext]_hostVars
    PROVE  \A p \in Plugin : submitted[p] \subseteq submitted'[p]
<1>0. submitted \in [Plugin -> SUBSET Source]
  BY DEF HInv, EngineTypes
<1>1. CASE \E c \in Client, p \in Plugin, s \in Source : Submit(c, p, s)
  BY <1>0, <1>1 DEF Submit
<1>2. CASE ~ \E c \in Client, p \in Plugin, s \in Source : Submit(c, p, s)
  <2>1. submitted' = submitted
    BY <1>2 DEF HostNext, hostVars, ForgetHistory, ForgetHistoryFails, RemoveRow,
                ControlStep, ExecuteBegin, GetModule, SaveExecution, RunFails,
                Restart
  <2> QED
    BY <2>1
<1> QED
  BY <1>1, <1>2

\* A statement writes only texts of the plugin whose row it writes.
LEMMA RowsOwnNext ==
    ASSUME HInv, OwnInv, [HostNext]_hostVars
    PROVE  RowsOwn'
<1> SUFFICES ASSUME NEW q \in Plugin
             PROVE  RowOwn(plugins'[q], submitted'[q])
  BY DEF RowsOwn
<1>0. RowOwn(plugins[q], submitted[q]) /\ submitted[q] \subseteq submitted'[q]
  BY SubmittedGrows DEF OwnInv, RowsOwn
<1>1. TInv
  BY DEF HInv, ArtefactInv
<1>2. CASE plugins'[q] = plugins[q]
  BY <1>0, <1>2 DEF RowOwn
<1>3. ASSUME NEW c \in Client, NEW p \in Plugin, NEW s \in Source,
             CreatePlugin(c, p, s), Submit(c, p, s), plugins'[q] # plugins[q]
      PROVE  RowOwn(plugins'[q], submitted'[q])
  <2>1. q = p /\ plugins'[q] = [status |-> "pending", source |-> s, wasm |-> None,
                                errors |-> None, version |-> 1]
    BY <1>1, <1>3, CreateEffect
  <2>2. s \in submitted'[q]
    BY <1>3, <2>1 DEF Submit, HInv, EngineTypes
  <2> QED
    BY <2>1, <2>2 DEF RowOwn
<1>4. ASSUME NEW c \in Client, UpdateWrite(c), plugins'[q] # plugins[q]
      PROVE  RowOwn(plugins'[q], submitted'[q])
  <2> DEFINE s == handler[c].src
             w == plugins[q].wasm
             n == plugins[q].version
  <2>1. /\ q = handler[c].id
        /\ plugins'[q] = [status |-> "pending", source |-> s, wasm |-> w,
                          errors |-> None, version |-> n]
    BY <1>1, <1>4, UpdateEffect
  <2>2. s \in submitted'[q]
    BY <1>0, <1>4, <2>1 DEF OwnInv, HandlersOwn, UpdateWrite
  <2>3. w # None => w \in submitted'[q]
    BY <1>0 DEF RowOwn
  <2> HIDE DEF s, w, n
  <2> QED
    BY <2>1, <2>2, <2>3 DEF RowOwn
<1>5. ASSUME NEW c \in Client, RemoveRow(c), plugins'[q] # plugins[q]
      PROVE  RowOwn(plugins'[q], submitted'[q])
  <2>1. plugins'[q] = Absent
    BY <1>5, RemoveEffect
  <2> QED
    BY <2>1 DEF RowOwn, Absent
<1>6. CASE SaveVerdict /\ plugins'[q] # plugins[q]
  <2> DEFINE old == plugins[q].source
             s == worker.src
             n == plugins[q].version + 1
  <2>1. /\ q = worker.id /\ Exists(plugins, q)
        /\ \/ plugins'[q] = [status |-> "compiled", source |-> old, wasm |-> s,
                             errors |-> None, version |-> n]
           \/ plugins'[q] = [status |-> "failed", source |-> old, wasm |-> None,
                             errors |-> s, version |-> n]
    BY <1>1, <1>6, VerdictEffect
  <2>2. old \in submitted'[q] /\ s \in submitted'[q]
    BY <1>0, <1>6, <2>1 DEF RowOwn, Exists, OwnInv, WorkerOwn, SaveVerdict
  <2> HIDE DEF old, s, n
  <2> QED
    BY <2>1, <2>2 DEF RowOwn
<1> QED
  BY <1>2, <1>3, <1>4, <1>5, <1>6, RowCases

\* A request keeps its text next to its id.
LEMMA HandlersOwnNext ==
    ASSUME HInv, OwnInv, [HostNext]_hostVars
    PROVE  HandlersOwn'
<1>0. /\ handler \in [Client -> Handler]
      /\ \A c \in Client : handler[c].at # "idle" => handler[c].id \in Plugin
      /\ \A p \in Plugin : submitted[p] \subseteq submitted'[p]
      /\ HandlersOwn
  BY SubmittedGrows DEF HInv, ArtefactInv, TInv, TypeOK, Bound, OwnInv
<1> SUFFICES ASSUME NEW d \in Client, handler'[d].at = "update_write"
             PROVE  handler'[d].src \in submitted'[handler'[d].id]
  BY DEF HandlersOwn
<1>1. CASE handler'[d] = handler[d]
  BY <1>0, <1>1 DEF HandlersOwn
<1>2. CASE handler'[d] # handler[d]
  <2>1. PICK c \in Client, p \in Plugin, s \in Source :
             Submit(c, p, s) /\ UpdateCheck(c, p, s)
    <3>1. CASE \E c \in Client, p \in Plugin, s \in Source : Submit(c, p, s)
      <4>1. PICK c \in Client, p \in Plugin, s \in Source : Submit(c, p, s)
        BY <3>1
      <4>2. ASSUME CreatePlugin(c, p, s) PROVE FALSE
        <5>1. \/ handler' = handler
              \/ handler' = [handler EXCEPT ![c] = At("create_enqueue", p, None)]
          BY <4>2 DEF CreatePlugin
        <5> QED
          BY <1>0, <1>2, <5>1 DEF At
      <4> QED
        BY <4>1, <4>2 DEF Submit
    <3>2. CASE \E c \in Client, p \in Plugin :
                 ForgetHistory(c, p) \/ ForgetHistoryFails(c, p)
      BY <1>0, <1>2, <3>2 DEF ForgetHistory, DeleteHistory, ForgetHistoryFails,
                              At, vars
    <3>3. CASE \E c \in Client : RemoveRow(c)
      BY <1>0, <1>2, <3>3 DEF RemoveRow, DeleteRowWith, IdleHandler, At
    <3>4. CASE ControlStep
      <4>1. CASE WorkerStep
        BY <1>2, <4>1 DEF WorkerStep, TakeJob, FetchPlugin, DropJob, SetupBuild,
                          SetupFails, RunCargoBuild, SaveVerdict, CleanBuildDir
      <4>2. ASSUME NEW c \in Client,
                   UpdateWrite(c) \/ QueueCompile(c) \/ UpdateReread(c)
            PROVE  FALSE
        BY <1>0, <1>2, <4>2 DEF UpdateWrite, QueueCompile, UpdateReread, At,
                                IdleHandler, Sending, Handler
      <4> QED
        BY <3>4, <4>1, <4>2 DEF ControlStep
    <3>5. CASE Restart
      BY <3>5 DEF Restart, Crash, IdleHandler, At
    <3>6. CASE \/ \E r \in Runner, p \in Plugin : ExecuteBegin(r, p)
               \/ \E r \in Runner : GetModule(r) \/ SaveExecution(r) \/ RunFails(r)
               \/ UNCHANGED hostVars
      BY <1>2, <3>6 DEF ExecuteBegin, GetModule, SaveExecution, RunFails, vars,
                        hostVars
    <3> QED
      BY <3>1, <3>2, <3>3, <3>4, <3>5, <3>6 DEF HostNext
  <2>2. handler'[d].id = p /\ handler'[d].src = s
    BY <1>0, <1>2, <2>1 DEF UpdateCheck, At
  <2>3. s \in submitted'[p]
    BY <2>1 DEF Submit, HInv, EngineTypes
  <2> QED
    BY <2>2, <2>3
<1> QED
  BY <1>1, <1>2

\* The worker builds the text of the row it has fetched.
LEMMA WorkerOwnNext ==
    ASSUME HInv, OwnInv, [HostNext]_hostVars
    PROVE  WorkerOwn'
<1>0. /\ worker \in Worker /\ WorkerOwn /\ RowsOwn
      /\ worker.at # "idle" => worker.id \in Plugin
      /\ \A p \in Plugin : submitted[p] \subseteq submitted'[p]
  BY SubmittedGrows DEF HInv, ArtefactInv, TInv, TypeOK, Bound, OwnInv
<1>1. CASE worker' = worker
  BY <1>0, <1>1 DEF WorkerOwn
<1>2. CASE worker'.at \notin {"setup", "build", "save"}
  BY <1>2 DEF WorkerOwn
<1>3. CASE FetchPlugin
  <2>1. /\ Exists(plugins, worker.id) /\ worker.id \in Plugin
        /\ worker'.id = worker.id /\ worker'.src = plugins[worker.id].source
    BY <1>0, <1>3 DEF FetchPlugin, Worker
  <2> QED
    BY <1>0, <2>1 DEF WorkerOwn, RowsOwn, RowOwn, Exists
<1>4. CASE SetupBuild \/ SetupFails \/ RunCargoBuild
  <2>1. /\ worker.at \in {"setup", "build"}
        /\ worker'.id = worker.id /\ worker'.src = worker.src
    BY <1>0, <1>4 DEF SetupBuild, SetupFails, RunCargoBuild, Worker
  <2> QED
    BY <1>0, <2>1 DEF WorkerOwn
<1>5. CASE TakeJob \/ DropJob \/ SaveVerdict \/ CleanBuildDir
  <2>1. worker'.at \notin {"setup", "build", "save"}
    BY <1>0, <1>5 DEF TakeJob, DropJob, SaveVerdict, CleanBuildDir, IdleWorker,
                      Worker
  <2> QED
    BY <1>2, <2>1
<1>6. CASE ~WorkerStep
  <2>1. worker' = worker \/ worker' = IdleWorker
    <3>1. CASE [Next]_vars
      BY <1>6, <3>1, WorkerEffect
    <3>2. CASE \E c \in Client : DeleteRowWith(c, "rejected")
      BY <3>2 DEF DeleteRowWith
    <3> QED
      BY <3>1, <3>2, HostStep
  <2> QED
    BY <1>1, <1>2, <2>1 DEF IdleWorker
<1> QED
  BY <1>3, <1>4, <1>5, <1>6 DEF WorkerStep

\* The cache and the runs keep texts next to their ids.
LEMMA EngineOwnNext ==
    ASSUME HInv, OwnInv, [HostNext]_hostVars
    PROVE  TableOwn' /\ CallsOwn'
<1>0. /\ \A p \in Plugin : submitted[p] \subseteq submitted'[p]
      /\ TableOwn /\ CallsOwn /\ RowsOwn
      /\ table \in [Plugin -> MaybeSource] /\ call \in [Runner -> CallType]
      /\ \A r \in Runner : call[r].at # "idle" => call[r].id \in Plugin
  BY SubmittedGrows DEF HInv, EngineTypes, CallBound, OwnInv
<1>1. ASSUME NEW r \in Runner, NEW p \in Plugin, ExecuteBegin(r, p)
      PROVE  TableOwn' /\ CallsOwn'
  <2> DEFINE b == plugins[p].wasm
  <2>1. b \in submitted'[p]
    <3>1. b \in Compilable /\ Compilable \subseteq Source /\ None \notin Source
      BY <1>1, BeginEffect, PipelineAssumption, NoneIsNoSource
    <3> QED
      BY <1>0, <3>1 DEF RowsOwn, RowOwn
  <2>2. /\ UNCHANGED <<table, submitted>>
        /\ call' = [call EXCEPT ![r] = [at |-> "called", id |-> p, bytes |-> b,
                                        res |-> None]]
    BY <1>1, BeginEffect
  <2> HIDE DEF b
  <2>3. CallsOwn'
    BY <1>0, <2>1, <2>2 DEF CallsOwn
  <2> QED
    BY <1>0, <2>2, <2>3 DEF TableOwn
<1>2. ASSUME NEW r \in Runner, GetModule(r) PROVE TableOwn' /\ CallsOwn'
  <2> DEFINE p == call[r].id
             b == call[r].bytes
  <2>1. p \in Plugin /\ b \in submitted[p] /\ submitted' = submitted
    BY <1>0, <1>2, AnswerEffect DEF CallsOwn
  <2>2. /\ table' = IF table[p] = None THEN [table EXCEPT ![p] = b] ELSE table
        /\ call' = [call EXCEPT ![r] = [at |-> "answered", id |-> p, bytes |-> b,
                                        res |-> table'[p]]]
    BY <1>2, AnswerEffect
  <2> HIDE DEF p, b
  <2>3. TableOwn'
    BY <1>0, <2>1, <2>2 DEF TableOwn
  <2>4. CallsOwn'
    BY <1>0, <2>1, <2>2, <2>3 DEF CallsOwn, TableOwn
  <2> QED
    BY <2>3, <2>4
<1>3. ASSUME NEW r \in Runner, SaveExecution(r) \/ RunFails(r)
      PROVE  TableOwn' /\ CallsOwn'
  BY <1>0, <1>3, EndEffect DEF TableOwn, CallsOwn, Memo!NoCall
<1>4. CASE /\ ~ \E r \in Runner, p \in Plugin : ExecuteBegin(r, p)
           /\ ~ \E r \in Runner : GetModule(r) \/ SaveExecution(r) \/ RunFails(r)
  <2>1. CASE UNCHANGED <<table, call>>
    BY <1>0, <2>1 DEF TableOwn, CallsOwn
  <2>2. CASE /\ table' = [p \in Plugin |-> None]
             /\ call' = [r \in Runner |-> Memo!NoCall]
    BY <2>2 DEF TableOwn, CallsOwn, Memo!NoCall
  <2> QED
    BY <1>4, <2>1, <2>2, ControlEffect
<1> QED
  BY <1>1, <1>2, <1>3, <1>4

\* Every step keeps every text with its plugin.
LEMMA OwnNext == HInv /\ OwnInv /\ [HostNext]_hostVars => OwnInv'
  BY RowsOwnNext, HandlersOwnNext, WorkerOwnNext, EngineOwnNext DEF OwnInv

\* Tenants are kept apart: whatever runs for a plugin was submitted under its
\* id, for any number of plugins, requests, runs, faults and crashes.
THEOREM TenantsApart == HostSpec => []RunsOwnCode
<1>1. OwnInv => RunsOwnCode
  BY DEF OwnInv, CallsOwn, RunsOwnCode
<1> QED
  BY <1>1, HInvInit, HInvNext, OwnInit, OwnNext, PTL DEF HostSpec

-----------------------------------------------------------------------------
(* The first verdict.  Until a row has its second version nothing of the   *)
(* plugin is in the engine, and until it has its third the engine has      *)
(* nothing but the artefact of the row.                                    *)

Fresh(p) ==
    /\ table[p] = None
    /\ \A r \in Runner : call[r].at = "called" => call[r].id # p

Serves(p, w) ==
    /\ table[p] \in {None, w}
    /\ \A r \in Runner :
         call[r].at = "called" /\ call[r].id = p => call[r].bytes = w

FirstOf(p) ==
    /\ p \notin issued => ~Exists(plugins, p) /\ Fresh(p)
    /\ Exists(plugins, p) => plugins[p].version >= 1
    /\ Exists(plugins, p) /\ plugins[p].version = 1 =>
         plugins[p].status = "pending" /\ Fresh(p)
    /\ Exists(plugins, p) /\ plugins[p].version = 2 => Serves(p, plugins[p].wasm)

FirstInv == \A p \in Plugin : FirstOf(p)

\* At the start no id is issued and the engine is empty.
LEMMA FirstInit == HostInit => FirstInv
<1> SUFFICES ASSUME HostInit, NEW p \in Plugin PROVE FirstOf(p)
  BY DEF FirstInv
<1>1. ~Exists(plugins, p)
  BY DEF HostInit, Init, Exists, Absent
<1>2. Fresh(p)
  BY DEF HostInit, Memo!Init, Memo!NoCall, Fresh
<1> QED
  BY <1>1, <1>2 DEF FirstOf

\* An id that was handed out stays handed out.
LEMMA IssuedGrows ==
    ASSUME HInv, [HostNext]_hostVars
    PROVE  issued \subseteq issued'
<1>1. CASE [Next]_vars
  BY <1>1 DEF Next, vars, CreatePlugin, UpdateCheck, UpdateWrite, DeleteHistory,
              DeleteRow, DeleteRowWith, QueueCompile, UpdateReread, WorkerStep,
              TakeJob, FetchPlugin, DropJob, SetupBuild, SetupFails,
              RunCargoBuild, SaveVerdict, CleanBuildDir, Crash
<1>2. CASE \E c \in Client : DeleteRowWith(c, "rejected")
  BY <1>2 DEF DeleteRowWith
<1> QED
  BY <1>1, <1>2, HostStep

\* A step of the control plane leaves the engine alone, or empties it.
LEMMA EngineKept ==
    ASSUME HInv, [HostNext]_hostVars,
           ~ \E r \in Runner, p \in Plugin : ExecuteBegin(r, p),
           ~ \E r \in Runner : GetModule(r) \/ SaveExecution(r) \/ RunFails(r),
           NEW q \in Plugin
    PROVE  /\ Fresh(q) => Fresh(q)'
           /\ \A w : Serves(q, w) => Serves(q, w)'
           /\ Fresh(q) => \A w : Serves(q, w)'
<1>1. CASE UNCHANGED <<table, call>>
  BY <1>1 DEF Fresh, Serves
<1>2. CASE /\ table' = [p \in Plugin |-> None]
           /\ call' = [r \in Runner |-> Memo!NoCall]
  BY <1>2 DEF Fresh, Serves, Memo!NoCall
<1> QED
  BY <1>1, <1>2, ControlEffect

\* The control plane: a row gets its second version before anybody runs it.
LEMMA FirstControl ==
    ASSUME HInv, FirstInv, [HostNext]_hostVars,
           ~ \E r \in Runner, p \in Plugin : ExecuteBegin(r, p),
           ~ \E r \in Runner : GetModule(r) \/ SaveExecution(r) \/ RunFails(r)
    PROVE  FirstInv'
<1> SUFFICES ASSUME NEW q \in Plugin PROVE FirstOf(q)'
  BY DEF FirstInv
<1>0. FirstOf(q) /\ TInv /\ (q \in issued => q \in issued')
  BY IssuedGrows DEF FirstInv, HInv, ArtefactInv
<1>1. /\ Fresh(q) => Fresh(q)'
      /\ \A w : Serves(q, w) => Serves(q, w)'
      /\ Fresh(q) => \A w : Serves(q, w)'
  BY EngineKept
<1>2. CASE plugins'[q] = plugins[q]
  BY <1>0, <1>1, <1>2 DEF FirstOf, Exists
<1>3. ASSUME NEW c \in Client, NEW p \in Plugin, NEW s \in Source,
             CreatePlugin(c, p, s), plugins'[q] # plugins[q]
      PROVE  FirstOf(q)'
  <2>1. /\ q = p /\ q \notin issued
        /\ plugins'[q] = [status |-> "pending", source |-> s, wasm |-> None,
                          errors |-> None, version |-> 1]
    BY <1>0, <1>3, CreateEffect
  <2>2. q \in issued'
    BY <1>3, <2>1 DEF CreatePlugin, HInv, ArtefactInv, TInv, TypeOK
  <2>3. Fresh(q)'
    BY <1>0, <1>1, <2>1 DEF FirstOf
  <2>4. plugins'[q].version = 1 /\ plugins'[q].status = "pending"
    BY <2>1
  <2> QED
    BY <2>2, <2>3, <2>4 DEF FirstOf, Exists
<1>4. ASSUME NEW c \in Client, UpdateWrite(c), plugins'[q] # plugins[q]
      PROVE  FirstOf(q)'
  <2> DEFINE w == plugins[q].wasm
             n == plugins[q].version
  <2>1. /\ Exists(plugins, q)
        /\ \E s : plugins'[q] = [status |-> "pending", source |-> s, wasm |-> w,
                                 errors |-> None, version |-> n]
    BY <1>0, <1>4, UpdateEffect
  <2>2. /\ q \in issued /\ n >= 1 /\ (n = 1 => Fresh(q)) /\ (n = 2 => Serves(q, w))
    BY <1>0, <2>1 DEF FirstOf
  <2> HIDE DEF w, n
  <2>3. plugins'[q].status = "pending" /\ plugins'[q].wasm = w
        /\ plugins'[q].version = n
    BY <2>1
  <2> QED
    BY <1>0, <1>1, <2>2, <2>3 DEF FirstOf, Exists
<1>5. ASSUME NEW c \in Client, RemoveRow(c), plugins'[q] # plugins[q]
      PROVE  FirstOf(q)'
  <2>1. plugins'[q] = Absent
    BY <1>5, RemoveEffect
  <2> QED
    BY <1>0, <1>1, <2>1 DEF FirstOf, Exists, Absent
<1>6. CASE SaveVerdict /\ plugins'[q] # plugins[q]
  <2> DEFINE n == plugins[q].version
  <2>1. Exists(plugins, q) /\ plugins'[q].version = n + 1
    BY <1>0, <1>6, VerdictEffect
  <2>2. n \in Nat
    BY <1>0 DEF TInv, TypeOK, Table, Row
  <2>3. n >= 1 /\ (n = 1 => Fresh(q)) /\ q \in issued
    BY <1>0, <2>1 DEF FirstOf
  <2>4. n + 1 = 2 => Serves(q, plugins[q].wasm)'
    BY <1>1, <2>2, <2>3
  <2> HIDE DEF n
  <2> QED
    BY <1>0, <2>1, <2>2, <2>3, <2>4 DEF FirstOf
<1> QED
  BY <1>2, <1>3, <1>4, <1>5, <1>6, RowCases

\* The engine: runs begin on rows of the second version with their artefact.
LEMMA FirstEngine ==
    ASSUME HInv, FirstInv, NEW r \in Runner,
           \/ \E p \in Plugin : ExecuteBegin(r, p)
           \/ GetModule(r) \/ SaveExecution(r) \/ RunFails(r)
    PROVE  FirstInv'
<1> SUFFICES ASSUME NEW q \in Plugin PROVE FirstOf(q)'
  BY DEF FirstInv
<1>0. /\ FirstOf(q) /\ call \in [Runner -> CallType]
      /\ table \in [Plugin -> MaybeSource]
  BY DEF FirstInv, HInv, EngineTypes
<1>1. ASSUME NEW p \in Plugin, ExecuteBegin(r, p) PROVE FirstOf(q)'
  <2> PICK b : b = plugins[p].wasm
    OBVIOUS
  <2>1. /\ plugins[p].status = "compiled" /\ plugins'[p].wasm = b
        /\ UNCHANGED <<plugins, issued, table>>
        /\ call' = [call EXCEPT ![r] = [at |-> "called", id |-> p, bytes |-> b,
                                        res |-> None]]
    BY <1>1, BeginEffect DEF vars
  <2>2. CASE p # q
    <3>1. (Fresh(q) => Fresh(q)') /\ \A w : Serves(q, w) => Serves(q, w)'
      BY <1>0, <2>1, <2>2 DEF Fresh, Serves
    <3> QED
      BY <1>0, <2>1, <3>1 DEF FirstOf
  <2>3. CASE p = q
    <3>1. /\ Exists(plugins, q) /\ plugins[q].version # 1 /\ q \in issued
          /\ plugins[q].version >= 1
          /\ plugins[q].version = 2 => Serves(q, b)
      BY <1>0, <2>1, <2>3 DEF FirstOf, Exists
    <3>2. Serves(q, b) => Serves(q, b)'
      <4> SUFFICES ASSUME Serves(q, b), NEW x \in Runner,
                          call'[x].at = "called", call'[x].id = q
                   PROVE  call'[x].bytes = b
        BY <2>1 DEF Serves
      <4>1. x = r \/ call'[x] = call[x]
        BY <1>0, <2>1
      <4> QED
        BY <1>0, <2>1, <4>1 DEF Serves
    <3>3. Serves(q, b)' => Serves(q, plugins[q].wasm)'
      BY <2>1, <2>3 DEF Serves
    <3>4. plugins'[q] = plugins[q] /\ issued' = issued
      BY <2>1
    <3> QED
      BY <3>1, <3>2, <3>3, <3>4 DEF FirstOf, Exists
  <2> QED
    BY <2>2, <2>3
<1>2. CASE GetModule(r)
  <2> DEFINE p == call[r].id
             b == call[r].bytes
  <2>1. /\ call[r].at = "called" /\ p \in Plugin
        /\ UNCHANGED <<plugins, issued>>
        /\ table' = IF table[p] = None THEN [table EXCEPT ![p] = b] ELSE table
        /\ call' = [call EXCEPT ![r] = [at |-> "answered", id |-> p, bytes |-> b,
                                        res |-> table'[p]]]
    BY <1>2, AnswerEffect DEF vars
  <2>2. Fresh(q) => Fresh(q)'
    BY <1>0, <2>1 DEF Fresh
  <2>3. ASSUME NEW w, Serves(q, w) PROVE Serves(q, w)'
    <3>1. p = q => b = w
      BY <2>1, <2>3 DEF Serves
    <3> HIDE DEF p, b
    <3>2. table'[q] \in {None, w}
      BY <1>0, <2>1, <2>3, <3>1 DEF Serves
    <3> QED
      BY <1>0, <2>1, <2>3, <3>2 DEF Serves
  <2> QED
    BY <1>0, <2>1, <2>2, <2>3 DEF FirstOf
<1>3. CASE SaveExecution(r) \/ RunFails(r)
  <2>1. /\ UNCHANGED <<plugins, issued, table>>
        /\ call' = [call EXCEPT ![r] = Memo!NoCall]
    BY <1>3, EndEffect DEF vars
  <2>2. Fresh(q) => Fresh(q)'
    BY <1>0, <2>1 DEF Fresh, Memo!NoCall
  <2>3. \A w : Serves(q, w) => Serves(q, w)'
    BY <1>0, <2>1 DEF Serves, Memo!NoCall
  <2> QED
    BY <1>0, <2>1, <2>2, <2>3 DEF FirstOf
<1> QED
  BY <1>1, <1>2, <1>3

\* Every step keeps the artefact of a second version the only one served.
LEMMA FirstNext == HInv /\ FirstInv /\ [HostNext]_hostVars => FirstInv'
  BY FirstControl, FirstEngine

\* A plugin whose only verdict is its first is served from the artefact in its
\* row, however requests, builds, runs and crashes interleave: the stale cache
\* needs a second verdict.
THEOREM FirstIsServed == HostSpec => []FirstVersionServed
<1>1. FirstInv => FirstVersionServed
  BY DEF FirstInv, FirstOf, Serves, FirstVersionServed, Exists
<1> QED
  BY <1>1, HInvInit, HInvNext, FirstInit, FirstNext, PTL DEF HostSpec
=============================================================================
