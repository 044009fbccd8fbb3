---------------------------- MODULE SystemProofs ----------------------------
(***************************************************************************)
(* HostSystem implements PluginHost: whatever was proved of the host with  *)
(* the atomic memo table holds of the host with the real module cache, for *)
(* every choice of the constants.  The proofs are put together from those  *)
(* of the parts: HostProofs under the refinement mapping, and CacheProofs. *)
(***************************************************************************)
EXTENDS HostSystem, TLAPS

Mapped == INSTANCE HostProofs WITH table <- modules, call <- Engine!CallsOf

Cache == INSTANCE CacheProofs
           WITH Artefact <- Source, Loadable <- Compilable, NoModule <- None

\* What is assumed of the whole is what the parts assume.
LEMMA PartsAssumed ==
    /\ Mapped!NoneIsNoSource /\ Mapped!PipelineAssumption
    /\ Mapped!HostAssumption /\ Cache!CacheAssumption
  BY SystemAssumption, PipelineAssumption, NoneIsNoSource
     DEF Mapped!NoneIsNoSource, Mapped!PipelineAssumption, Mapped!Outcome,
         Outcome, Mapped!HostAssumption, Cache!CacheAssumption

-----------------------------------------------------------------------------
(* The instances that the model has of its parts are those of the proofs.  *)

\* The mapped host is the one HostProofs is about.
LEMMA SameHost ==
    /\ Mapped!HostInit <=> Host!HostInit
    /\ Mapped!HostNext <=> Host!HostNext
    /\ UNCHANGED Mapped!hostVars <=> UNCHANGED Host!hostVars
<1>1. Mapped!HostInit <=> Host!HostInit
  BY DEF Mapped!HostInit, Mapped!Init, Mapped!Absent, Mapped!IdleHandler,
         Mapped!At, Mapped!IdleWorker, Mapped!Memo!Init, Mapped!Memo!NoCall,
         Host!HostInit, Host!Init, Host!Absent, Host!IdleHandler, Host!At,
         Host!IdleWorker, Host!Memo!Init, Host!Memo!NoCall
<1>2. Mapped!HostNext <=> Host!HostNext
  <2>1. ASSUME NEW c \in Client, NEW p \in Plugin, NEW s \in Source
        PROVE  Mapped!Submit(c, p, s) <=> Host!Submit(c, p, s)
    BY DEF Mapped!Submit, Host!Submit, Mapped!CreatePlugin, Host!CreatePlugin,
             Mapped!UpdateCheck, Host!UpdateCheck, Mapped!SavePlugin,
             Host!SavePlugin, Mapped!Written, Host!Written, Mapped!Outcomes,
             Host!Outcomes, Mapped!Exists, Host!Exists, Mapped!At, Host!At,
             Mapped!engineVars, Host!engineVars
  <2>2. ASSUME NEW c \in Client, NEW p \in Plugin
        PROVE  Mapped!ForgetHistory(c, p) <=> Host!ForgetHistory(c, p)
    BY DEF Mapped!ForgetHistory, Host!ForgetHistory, Mapped!DeleteHistory,
             Host!DeleteHistory, Mapped!At, Host!At, Mapped!engineVars,
             Host!engineVars
  <2>3. ASSUME NEW c \in Client, NEW p \in Plugin
        PROVE  Mapped!ForgetHistoryFails(c, p) <=> Host!ForgetHistoryFails(c, p)
    BY DEF Mapped!ForgetHistoryFails, Host!ForgetHistoryFails, Mapped!Written,
             Host!Written, Mapped!vars, Host!vars, Mapped!engineVars,
             Host!engineVars
  <2>4. ASSUME NEW c \in Client
        PROVE  Mapped!RemoveRow(c) <=> Host!RemoveRow(c)
    BY DEF Mapped!RemoveRow, Host!RemoveRow, Mapped!DeleteRowWith,
             Host!DeleteRowWith, Mapped!DeletePluginRow, Host!DeletePluginRow,
             Mapped!Absent, Host!Absent, Mapped!Written, Host!Written,
             Mapped!Outcomes, Host!Outcomes, Mapped!IdleHandler,
             Host!IdleHandler, Mapped!At, Host!At, Mapped!engineVars,
             Host!engineVars
  <2>5. Mapped!ControlStep <=> Host!ControlStep
    <3>1. Mapped!WorkerStep <=> Host!WorkerStep
      BY DEF Mapped!WorkerStep, Host!WorkerStep, Mapped!TakeJob, Host!TakeJob,
               Mapped!FetchPlugin, Host!FetchPlugin, Mapped!DropJob, Host!DropJob,
               Mapped!SetupBuild, Host!SetupBuild, Mapped!SetupFails,
               Host!SetupFails, Mapped!RunCargoBuild, Host!RunCargoBuild,
               Mapped!SaveVerdict, Host!SaveVerdict, Mapped!CleanBuildDir,
               Host!CleanBuildDir, Mapped!UpdatePluginStatus,
               Host!UpdatePluginStatus, Mapped!Written, Host!Written,
               Mapped!Outcomes, Host!Outcomes, Mapped!Exists, Host!Exists,
               Mapped!IdleWorker, Host!IdleWorker
    <3>2. ASSUME NEW c \in Client
          PROVE  Mapped!UpdateWrite(c) <=> Host!UpdateWrite(c)
      BY DEF Mapped!UpdateWrite, Host!UpdateWrite, Mapped!UpdatePluginCode,
               Host!UpdatePluginCode, Mapped!Written, Host!Written,
               Mapped!Outcomes, Host!Outcomes, Mapped!Exists, Host!Exists,
               Mapped!IdleHandler, Host!IdleHandler, Mapped!At, Host!At
    <3>3. ASSUME NEW c \in Client
          PROVE  Mapped!QueueCompile(c) <=> Host!QueueCompile(c)
      BY DEF Mapped!QueueCompile, Host!QueueCompile, Mapped!Sending,
               Host!Sending, Mapped!IdleHandler, Host!IdleHandler, Mapped!At,
               Host!At
    <3>4. ASSUME NEW c \in Client
          PROVE  Mapped!UpdateReread(c) <=> Host!UpdateReread(c)
      BY DEF Mapped!UpdateReread, Host!UpdateReread, Mapped!IdleHandler,
               Host!IdleHandler, Mapped!At, Host!At
    <3> QED
      BY <3>1, <3>2, <3>3, <3>4
         DEF Mapped!ControlStep, Host!ControlStep, Mapped!engineVars,
             Host!engineVars
  <2>6. ASSUME NEW r \in Runner, NEW p \in Plugin
        PROVE  Mapped!ExecuteBegin(r, p) <=> Host!ExecuteBegin(r, p)
    BY DEF Mapped!ExecuteBegin, Host!ExecuteBegin, Mapped!Memo!Invoke,
             Host!Memo!Invoke, Mapped!vars, Host!vars
  <2>7. ASSUME NEW r \in Runner
        PROVE  Mapped!GetModule(r) <=> Host!GetModule(r)
    BY DEF Mapped!GetModule, Host!GetModule, Mapped!Memo!Answer,
             Host!Memo!Answer, Mapped!vars, Host!vars
  <2>8. ASSUME NEW r \in Runner
        PROVE  Mapped!SaveExecution(r) <=> Host!SaveExecution(r)
    BY DEF Mapped!SaveExecution, Host!SaveExecution, Mapped!Memo!Return,
             Host!Memo!Return, Mapped!Memo!NoCall, Host!Memo!NoCall,
             Mapped!Record, Host!Record, Mapped!Written, Host!Written,
             Mapped!Outcomes, Host!Outcomes, Mapped!Exists, Host!Exists,
             Mapped!vars, Host!vars
  <2>9. ASSUME NEW r \in Runner
        PROVE  Mapped!RunFails(r) <=> Host!RunFails(r)
    BY DEF Mapped!RunFails, Host!RunFails, Mapped!Memo!Return,
             Host!Memo!Return, Mapped!Memo!NoCall, Host!Memo!NoCall, Mapped!vars,
             Host!vars
  <2>10. Mapped!Restart <=> Host!Restart
    BY DEF Mapped!Restart, Host!Restart, Mapped!Crash, Host!Crash,
             Mapped!IdleHandler, Host!IdleHandler, Mapped!IdleWorker,
             Host!IdleWorker, Mapped!At, Host!At, Mapped!Memo!NoCall,
             Host!Memo!NoCall
  <2> QED
    BY <2>1, <2>2, <2>3, <2>4, <2>5, <2>6, <2>7, <2>8, <2>9, <2>10
       DEF Mapped!HostNext, Host!HostNext
<1>3. UNCHANGED Mapped!hostVars <=> UNCHANGED Host!hostVars
  BY DEF Mapped!hostVars, Mapped!vars, Mapped!engineVars, Host!hostVars,
         Host!vars, Host!engineVars
<1> QED
  BY <1>1, <1>2, <1>3

\* So is the engine.
LEMMA SameEngine ==
    /\ Engine!CacheInit <=> Cache!CacheInit
    /\ \A r \in Runner : Engine!RunStep(r) <=> Cache!RunStep(r)
    /\ \A r \in Runner : Engine!FinishRun(r) <=> Cache!FinishRun(r)
    /\ \A r \in Runner, p \in Plugin, b \in Source :
         Engine!StartRun(r, p, b) <=> Cache!StartRun(r, p, b)
    /\ Engine!CallsOf = Cache!CallsOf /\ Engine!CallsOf' = Cache!CallsOf'
<1>1. Engine!CacheInit <=> Cache!CacheInit
  BY DEF Engine!CacheInit, Engine!IdleRun, Cache!CacheInit, Cache!IdleRun
<1>2. ASSUME NEW r \in Runner PROVE Engine!RunStep(r) <=> Cache!RunStep(r)
  BY DEF Engine!RunStep, Engine!EnterRead, Engine!RLock, Engine!Lookup,
         Engine!RUnlock, Engine!BeginCompile, Engine!AnnounceWriter,
         Engine!EnterCompile, Engine!LockUnchanged, Engine!Compile,
         Engine!Unlock, Engine!Relookup,
         Cache!RunStep, Cache!EnterRead, Cache!RLock, Cache!Lookup,
         Cache!RUnlock, Cache!BeginCompile, Cache!AnnounceWriter,
         Cache!EnterCompile, Cache!LockUnchanged, Cache!Compile,
         Cache!Unlock, Cache!Relookup
<1>3. ASSUME NEW r \in Runner PROVE Engine!FinishRun(r) <=> Cache!FinishRun(r)
  BY DEF Engine!FinishRun, Engine!IdleRun, Engine!LockUnchanged,
         Cache!FinishRun, Cache!IdleRun, Cache!LockUnchanged
<1>4. ASSUME NEW r \in Runner, NEW p \in Plugin, NEW b \in Source
      PROVE  Engine!StartRun(r, p, b) <=> Cache!StartRun(r, p, b)
  BY DEF Engine!StartRun, Engine!LockUnchanged, Cache!StartRun,
         Cache!LockUnchanged
<1>5. Engine!CallsOf = Cache!CallsOf /\ Engine!CallsOf' = Cache!CallsOf'
  BY DEF Engine!CallsOf, Engine!CallOf, Cache!CallsOf, Cache!CallOf
<1> QED
  BY <1>1, <1>2, <1>3, <1>4, <1>5

-----------------------------------------------------------------------------
(* The invariant is that of the mapped host and that of the cache.         *)

SystemInv == Mapped!HInv /\ Cache!CacheInv

\* The system starts as a host, and with an empty cache.
LEMMA SystemStarts == SystemInit => Mapped!HostInit /\ Cache!CacheInit
<1> SUFFICES ASSUME SystemInit PROVE Mapped!HostInit /\ Cache!CacheInit
  OBVIOUS
<1>1. Cache!CacheInit
  BY SameEngine DEF SystemInit
<1>2. Mapped!Memo!Init
  BY <1>1, SameEngine
     DEF Cache!CacheInit, Cache!IdleRun, Cache!CallsOf, Cache!CallOf,
         Mapped!Memo!Init, Mapped!Memo!NoCall
<1>3. Mapped!Init
  BY DEF SystemInit, Init, Absent, IdleHandler, At, IdleWorker, Mapped!Init,
         Mapped!Absent, Mapped!IdleHandler, Mapped!At, Mapped!IdleWorker
<1> QED
  BY <1>1, <1>2, <1>3 DEF SystemInit, Mapped!HostInit

\* The control plane's steps are the mapped host's own.
LEMMA ControlPlaneMaps ==
    ASSUME ControlPlane
    PROVE  Mapped!HostNext /\ UNCHANGED Cache!cacheVars
<1>1. Host!HostNext
  BY DEF ControlPlane, Host!HostNext
<1>2. UNCHANGED Cache!cacheVars
  BY DEF ControlPlane, engineVars, Cache!cacheVars
<1> QED
  BY <1>1, <1>2, SameHost

\* An execution begins on a compiled row, whose artefact can be loaded.
LEMMA ExecuteMaps ==
    ASSUME SystemInv, NEW r \in Runner, NEW p \in Plugin, Execute(r, p)
    PROVE  Mapped!HostNext /\ Cache!CacheNext
<1> PICK b : b = plugins[p].wasm
  OBVIOUS
<1>1. plugins[p].status = "compiled" /\ b \in Source
  BY PipelineAssumption DEF Execute, SystemInv, Mapped!HInv, Mapped!ArtefactInv,
                            Mapped!StatusMatchesArtefact
<1>2. Cache!StartRun(r, p, b)
  BY <1>1, SameEngine DEF Execute
<1>3. Cache!CacheNext
  BY <1>1, <1>2 DEF Cache!CacheNext
<1>4. Cache!Memo!Invoke(r, p, b)
  BY <1>1, <1>2, <1>3, PartsAssumed, Cache!StartMaps
     DEF SystemInv
<1>5. Mapped!Memo!Invoke(r, p, b)
  BY <1>4, SameEngine DEF Cache!Memo!Invoke, Mapped!Memo!Invoke
<1>6. Mapped!ExecuteBegin(r, p)
  BY <1>1, <1>5 DEF Execute, Mapped!ExecuteBegin, vars, Mapped!vars
<1> QED
  BY <1>3, <1>6 DEF Mapped!HostNext

\* What a call does by itself is the answer of GetModule, or nothing.
LEMMA EngineStepMaps ==
    ASSUME SystemInv, NEW r \in Runner, EngineStep(r)
    PROVE  [Mapped!HostNext]_(Mapped!hostVars) /\ Cache!CacheNext
<1>1. Cache!RunStep(r) /\ UNCHANGED <<vars, history, submitted>>
  BY SameEngine DEF EngineStep
<1>2. Cache!CacheNext
  BY <1>1 DEF Cache!CacheNext
<1>3. Cache!Memo!Answer(r) \/ UNCHANGED Cache!Memo!memoVars
  BY <1>1, <1>2, PartsAssumed, Cache!RunStepMaps
     DEF SystemInv
<1>4. CASE Cache!Memo!Answer(r)
  <2>1. Mapped!Memo!Answer(r)
    BY <1>4, SameEngine DEF Cache!Memo!Answer, Mapped!Memo!Answer
  <2>2. Mapped!GetModule(r)
    BY <1>1, <2>1 DEF Mapped!GetModule, vars, Mapped!vars
  <2> QED
    BY <1>2, <2>2 DEF Mapped!HostNext
<1>5. CASE UNCHANGED Cache!Memo!memoVars
  <2>1. UNCHANGED Mapped!hostVars
    BY <1>1, <1>5, SameEngine
       DEF Cache!Memo!memoVars, Mapped!hostVars, Mapped!engineVars, vars,
           Mapped!vars
  <2> QED
    BY <1>2, <2>1
<1> QED
  BY <1>3, <1>4, <1>5

\* The end of a run is the end of its call.
LEMMA EndMaps ==
    ASSUME SystemInv, NEW r \in Runner, SaveExecution(r) \/ RunFails(r)
    PROVE  Mapped!HostNext /\ Cache!CacheNext
<1>1. Cache!FinishRun(r) /\ UNCHANGED <<vars, submitted>>
  BY SameEngine DEF SaveExecution, RunFails
<1>2. Cache!CacheNext
  BY <1>1 DEF Cache!CacheNext
<1>3. Cache!Memo!Return(r)
  BY <1>1, <1>2, PartsAssumed, Cache!FinishMaps
     DEF SystemInv
<1>4. Mapped!Memo!Return(r)
  BY <1>3, SameEngine DEF Cache!Memo!Return, Cache!Memo!NoCall,
                          Mapped!Memo!Return, Mapped!Memo!NoCall
<1>5. /\ Engine!CallsOf[r].id = run[r].id
      /\ run[r].at = "got" => Engine!CallsOf[r].res = run[r].mod
  BY <1>1 DEF Cache!FinishRun, Engine!CallsOf, Engine!CallOf
<1>6. CASE SaveExecution(r)
  <2>1. Mapped!Record(Engine!CallsOf[r].id)
    BY <1>5, <1>6 DEF SaveExecution, Host!Record, Host!Written, Host!Outcomes,
                      Host!Exists, Mapped!Record, Mapped!Written,
                      Mapped!Outcomes, Mapped!Exists
  <2>2. Mapped!SaveExecution(r)
    BY <1>1, <1>4, <2>1 DEF Mapped!SaveExecution, vars, Mapped!vars
  <2> QED
    BY <1>2, <2>2 DEF Mapped!HostNext
<1>7. CASE RunFails(r)
  <2>1. Engine!CallsOf[r].res # None
    BY <1>5, <1>7 DEF RunFails, SystemInv, Cache!CacheInv, Cache!NeverNilModule
  <2>2. Mapped!RunFails(r)
    BY <1>1, <1>4, <1>7, <2>1 DEF RunFails, Mapped!RunFails, vars, Mapped!vars
  <2> QED
    BY <1>2, <2>2 DEF Mapped!HostNext
<1> QED
  BY <1>6, <1>7

\* A restart empties map and calls, and leaves nobody in the lock.
LEMMA RestartMaps ==
    ASSUME Restart
    PROVE  Mapped!HostNext /\ Cache!CacheInit'
<1>1. Cache!CacheInit'
  BY DEF Restart, Cache!CacheInit, Engine!IdleRun, Cache!IdleRun
<1>2. Engine!CallsOf' = [r \in Runner |-> Mapped!Memo!NoCall]
  BY DEF Restart, Engine!CallsOf, Engine!CallOf, Engine!IdleRun,
         Mapped!Memo!NoCall
<1>3. Mapped!Crash
  BY DEF Restart, Crash, IdleHandler, At, IdleWorker, Mapped!Crash,
         Mapped!IdleHandler, Mapped!At, Mapped!IdleWorker
<1>4. Mapped!Restart
  BY <1>2, <1>3 DEF Restart, Mapped!Restart
<1> QED
  BY <1>1, <1>4 DEF Mapped!HostNext

\* Every step of the system is one of the mapped host, or not seen there; the
\* cache takes a step of its own, or starts again.
LEMMA SystemStep ==
    ASSUME SystemInv, [SystemNext]_systemVars
    PROVE  /\ [Mapped!HostNext]_(Mapped!hostVars)
           /\ [Cache!CacheNext]_(Cache!cacheVars) \/ Cache!CacheInit'
<1>1. CASE ControlPlane
  BY <1>1, ControlPlaneMaps
<1>2. CASE \E r \in Runner, p \in Plugin : Execute(r, p)
  BY <1>2, ExecuteMaps
<1>3. CASE \E r \in Runner : EngineStep(r)
  BY <1>3, EngineStepMaps
<1>4. CASE \E r \in Runner : SaveExecution(r) \/ RunFails(r)
  BY <1>4, EndMaps
<1>5. CASE Restart
  BY <1>5, RestartMaps
<1>6. CASE UNCHANGED systemVars
  BY <1>6 DEF systemVars, engineVars, Mapped!hostVars, Mapped!engineVars, vars,
              Mapped!vars, Engine!CallsOf, Engine!CallOf, Cache!cacheVars
<1> QED
  BY <1>1, <1>2, <1>3, <1>4, <1>5, <1>6 DEF SystemNext

\* An engine that starts anew has the cache's invariant.
LEMMA CacheStartsAnew == Cache!CacheInit' => Cache!CacheInv'
<1>1. Cache!CacheInit => Cache!CacheInv
  BY PartsAssumed, Cache!CacheInvInit
<1> QED
  BY <1>1, PTL

\* The invariant holds at the start and is kept.
LEMMA SystemInvHolds == SystemSpec => []SystemInv
<1>1. SystemInit => SystemInv
  BY PartsAssumed, SystemStarts, Mapped!HInvInit, Cache!CacheInvInit DEF SystemInv
<1>2. SystemInv /\ [SystemNext]_systemVars => SystemInv'
  <2> SUFFICES ASSUME SystemInv, [SystemNext]_systemVars PROVE SystemInv'
    OBVIOUS
  <2>1. Mapped!HInv'
    BY PartsAssumed, SystemStep, Mapped!HInvNext DEF SystemInv
  <2>2. Cache!CacheInv'
    BY CacheStartsAnew, PartsAssumed, SystemStep, Cache!CacheInvNext DEF SystemInv
  <2> QED
    BY <2>1, <2>2 DEF SystemInv
<1> QED
  BY <1>1, <1>2, PTL DEF SystemSpec

\* So the system behaves as the host does.
LEMMA SystemIsHost == SystemSpec => Mapped!HostSpec
<1>1. SystemInit => Mapped!HostInit
  BY SystemStarts
<1>2. SystemInv /\ [SystemNext]_systemVars => [Mapped!HostNext]_(Mapped!hostVars)
  BY SystemStep
<1> QED
  BY <1>1, <1>2, SystemInvHolds, PTL DEF SystemSpec, Mapped!HostSpec

\* The host with the real module cache, its lock and its lookups behaves as
\* the host in which GetModule is one step, for any number of plugins,
\* requests, executions, faults and crashes.
THEOREM SystemImplementsHost == SystemSpec => ImplementsHost
<1>1. Mapped!HostInit => Host!HostInit
  BY SameHost
<1>2. [Mapped!HostNext]_(Mapped!hostVars) => [Host!HostNext]_(Host!hostVars)
  BY SameHost
<1> QED
  BY <1>1, <1>2, SystemIsHost, PTL
     DEF Mapped!HostSpec, Host!HostSpec, ImplementsHost

\* A module that comes out of the lookups and the lock was built from a text
\* submitted under the id of the plugin it runs for.
THEOREM TenantsStayApart == SystemSpec => []RunsOwnModule
<1>1. Mapped!HostSpec => []Mapped!RunsOwnCode
  BY PartsAssumed, Mapped!TenantsApart
<1>2. SystemInv /\ Mapped!RunsOwnCode => RunsOwnModule
  <2> SUFFICES ASSUME SystemInv, Mapped!RunsOwnCode, NEW r \in Runner,
                      run[r].mod # None
               PROVE  run[r].mod \in submitted[run[r].id]
    BY DEF RunsOwnModule
  <2>1. run[r].at = "got"
    BY DEF SystemInv, Cache!CacheInv, Cache!CallBound
  <2>2. Engine!CallsOf[r].res = run[r].mod /\ Engine!CallsOf[r].id = run[r].id
    BY <2>1 DEF Engine!CallsOf, Engine!CallOf
  <2> QED
    BY <2>2 DEF Mapped!RunsOwnCode
<1> QED
  BY <1>1, <1>2, SystemIsHost, SystemInvHolds, PTL

\* The other promises hold of the system as well.  Through the lock and the
\* cache: a plugin whose only verdict is its first is served from its row,
\* a delete is final once the executions it met have ended, deleted plugins
\* stay deleted, and what clients are told is what the catalog
\* promises where no statement fails.
THEOREM SystemKeepsPromises ==
    SystemSpec => /\ []Mapped!FirstVersionServed
                  /\ Mapped!GoneForGood
                  /\ Mapped!DeletedStaysDeleted
                  /\ Faults = {} => Mapped!Cat!SafeSpec
<1>1. Mapped!HostSpec => []Mapped!FirstVersionServed
  BY PartsAssumed, Mapped!FirstIsServed
<1>2. Mapped!HostSpec => Mapped!GoneForGood
  BY PartsAssumed, Mapped!DeleteIsFinal
<1>3. Mapped!HostSpec => Mapped!DeletedStaysDeleted
  BY PartsAssumed, Mapped!HostNoResurrection
<1>4. Faults = {} => (Mapped!HostSpec => Mapped!Cat!SafeSpec)
  BY PartsAssumed, Mapped!HostImplementsCatalog
<1> QED
  BY <1>1, <1>2, <1>3, <1>4, SystemIsHost, PTL
=============================================================================
