# Verification of the plugin sandbox

TLA+ models of the plugin host in `src/`: a Go service that takes Rust plugins
over HTTP, compiles them to WebAssembly in the background and runs them in a
metered wasmtime sandbox. TLC model-checks the models on small instances and
TLAPS proves the main results for every value of the constants.

Everything is translated from the code. Where a model needs something the code
only uses (wasmtime, `sync.RWMutex`, `database/sql`, cargo, the Rust runtime in
the guest) it is modelled from that use and marked external in `PROJECT.json`.

## 1. Inventory

| Component | State | Operations | Talks to |
|---|---|---|---|
| Control plane, `main.go` | one goroutine per request | create, update, delete, execute, and reads (list, get, metrics) | repository, queue, engine |
| Repository, `db/` | tables `plugins`, `executions` | SavePlugin, UpdatePluginCode, UpdatePluginStatus, DeletePlugin (two statements), SaveExecution, reads | SQLite, Postgres or Mongo |
| Compile queue and worker, `compiler/worker.go` | channel `compileQueue` of 100 ids, directories `.build/temp_build_<id>` | QueueCompile, Start, compilePlugin | repository, cargo, disk |
| Engine module cache, `sandbox/engine.go` 13-72 | `modules` map, `sync.RWMutex` | GetModule, Compile | wasmtime |
| Sandboxed run, `sandbox/engine.go` 74-254 | temporary files, store, instance, metrics | Run, handleExecutionError | guest, wasmtime, disk |
| Guest SDK, `compiler/worker.go` 12-43, `compiler/template/` | guest heap | allocate, process, deallocate | Engine.Run |
| Dashboard, `frontend/src/App.tsx` | list, selected plugin, editor text, flags, polling intervals and their registrations, requests in flight | mount, select, create, save, delete, execute, load template, refresh, list interval, poll interval | HTTP API |
| Mongo repository, toolchain scripts, image, tests | | | |

How they interact. A create or update writes the row as `pending` and then
sends the id through the bounded channel, blocking while it is full. One worker
goroutine takes ids out, reads the row *then* (not when the id was queued),
builds in a directory named after the id, and writes its verdict for the id
without looking at the row again. Execution reads the row, requires
`compiled`, hands the artefact to `Engine.Run`, which prefers whatever module
the cache already has for the id, and saves an execution record when the run is
over. Delete removes the history and then the row, in two statements and
without telling queue, worker or engine. Nothing on this path holds a lock or a
transaction across two statements.

What is hard here:

* **Races of handlers with the worker.** An update overtakes a build, a delete
  overtakes an update or a build, two updates overtake each other.
* **Late effects.** The artefact a run was given and the verdict of a build are
  both about a row read some time ago.
* **The lock protocol of GetModule**, which gives the read lock up, takes the
  write lock, and looks again, with a Go map in the middle.
* **Failure.** Any statement may fail, or be applied without being
  acknowledged; setup and cargo may fail; temporary files may not be created,
  and neither they nor build directories removed, which nobody is told;
  the process may die, and its queue with it, while rows and directories stay.
* **Progress.** One worker serves all, senders block on a full channel, guest
  code runs inside the request.
* **Classification of traps** by searching words in texts the guest can shape.
* **Closures of the dashboard** that remember the plugin selected earlier:
  every answer is stored when it arrives, by a handler that may be several
  selections old, and intervals are unregistered by whichever poll ends first.
* **32-bit words at the guest boundary**: pointers come back signed from one
  call and packed into an `int64` from the other, and their sums wrap.

What makes each component correct:

* control plane and worker: no rebuild is lost, stale verdicts are replaced,
  pending plugins are decided, requests get through, deleted plugins stay
  deleted, a `compiled` row has an artefact that really compiled, every
  build comes to remove its directory;
* cache: no map race, a module or an error and never a nil module, no entry
  replaced, nobody blocked for ever; as a whole, linearizable;
* the host as a whole: a plugin runs only what was submitted for it, the
  compiled version is the one served, a delete is final and history does not
  outlive its plugin (the second and the last are violated: section 4);
* run: bounded by fuel and pages, its cause of death reported correctly, its
  memory metric no older than its last call, its descriptors closed and its
  temporary files removed however it ends, and nothing copied from or to
  the guest but whole buffers inside its memory;
* dashboard: a registered interval is a live one of that plugin, "Compiling
  cargo..." always ends, the page settles on what the host decided and
  reconnects by itself, one run awaited at a time and a second one on the host
  only after a loss, a save sends the plugin's own text (the last one is
  violated: section 4).

`PROJECT.json` lists each hazard with its line and the properties about it.

## 2. Modules

```
PluginStore                 rows and statements of the plugins table
  CompilePipeline           handlers + queue + worker over it
    PipelineRefinement      ... implements PluginCatalog (abstract)
      PipelineProofs        ... theorems   (StoreLemmas: lemmas of PluginStore)
        CatalogProofs       ... the refinement's theorem
    PluginHost              ... + MemoTable + execution history
      HostProofs            ... theorems, over CatalogProofs
    HostSystem              ... + EngineCache + execution history
      SystemProofs          ... implements PluginHost: theorems, over
                                HostProofs and CacheProofs as instances
EngineCache                 GetModule and the RWMutex
  CacheRefinement           ... implements MemoTable (abstract)
    CacheProofs             ... theorems
GuestRun                    Engine.Run once it has a module
  GuestProofs               ... theorems
Dashboard                   the page over PluginCatalog (INSTANCE as Host)
  DashboardProofs           ... theorems
MC*                         instances for TLC
```

**PluginStore.** A row has `status`, `source`, `wasm`, `errors`, `version`;
`absent` is "no such row". An artefact is represented by the source it was
built from and `errors` by the source whose build failed, so that "this verdict
belongs to that text" can be said. `UpdatePluginStatus` replaces artefact and
errors and increments the version; `UpdatePluginCode` keeps artefact and
version; both do nothing, without an error, when the row is gone. `Written`
gives a statement its three outcomes: applied, rejected, applied but not
acknowledged.

**CompilePipeline.** One action per statement sent to the database, per channel
operation and per phase of a build; `handler[c].at` and `worker.at` say between
which statements a goroutine is.

| Code | Actions |
|---|---|
| `handleCreatePlugin` | `CreatePlugin`, `QueueCompile` |
| `handleUpdatePlugin` | `UpdateCheck`, `UpdateWrite`, `QueueCompile`, `UpdateReread` |
| `handleDeletePlugin` | `DeleteHistory`, `DeleteRow` |
| `Start`, `compilePlugin` | `TakeJob`, `FetchPlugin`/`DropJob`, `SetupBuild`/`SetupFails`, `RunCargoBuild`, `SaveVerdict`, `CleanBuildDir` |
| the process dies, `main` runs again | `Crash` |

The 4xx answers and failed reads of the handlers change nothing and are not
actions. `Faults` is the set of bad outcomes a statement may have and is empty in
the runs about a healthy database. `RemovalFails` says whether `os.RemoveAll` may
fail: `compilePlugin` ignores its error, and a directory that could not be
removed then stays, which `CleanBuildDir` does. `MaxVersion` (no new update to a row at that
version) and `MaxCrashes` are bounds of the model; the theorems hold for every
value of both.

**PluginCatalog** is what a client may rely on: `Register`, `Resubmit`,
`Remove`, and `Decide`. The host owes a decision to each plugin until it decides
on the text the plugin has *now*; a decision on an older text is allowed but
does not pay the debt. `Restart` forgets the debts. In **PipelineRefinement** the debt is a queued id, a
blocked sender, a job whose row was not read yet, or a build in flight.

**EngineCache.** `run[r].at` is the statement of `GetModule` or `Compile` a
goroutine is at. The lock is Go's: a writer announces itself and waits for the
readers that are inside, readers that come later park behind it and are let in
when it unlocks. **MemoTable** is one atomic step per call; **CacheRefinement**
maps a call to its answer at the first lookup if that hits, and at `Compile`
otherwise.

**PluginHost** composes the control plane with the abstract `MemoTable`
(justified by theorems `CacheImplementsMemo` and `SystemImplementsHost`), with the
execute handler and with the history, where `FKEnforced` tells Postgres from SQLite: `sqlite.go:54`
declares a foreign key, but the connection never turns enforcement on. The
history is the set of ids that have records; the records' contents are left out.
With `FKEnforced` the guards of `Record` and `RemoveRow` are the foreign key itself, so
that no history outlives its plugin there is the database's doing and not stated as a
property of the host. `submitted` is a ghost variable: the texts submitted under each id.

**HostSystem** puts the real cache there instead: the variables of `EngineCache`
beside those of the control plane, an execution that goes through lock, map and
both lookups one step at a time, and a `Restart` that drops the map and unlocks
the lock. It adds no handler of its own: `ControlPlane` is what `PluginHost` does
outside the engine, `EngineStep` is a step of `GetModule`, and `Execute`,
`SaveExecution` and `RunFails` join the two. `Host` is the instance of `PluginHost` it implements, with the
map for `table` and, for `call`, what `CacheRefinement` makes of the goroutines.

**GuestRun.** The guest is arbitrary: at every step it may use fuel, grow its
memory up to the limit and print anything. Error texts and logs are reduced to
the classes of words that `handleExecutionError` searches for, and `NameWords`
says which of them may appear in the backtrace because the guest's functions are
named so. `trapped` is a ghost variable with the true cause. Runs have their own
store, instance and files, so one run is the whole story.

`Run` registers a `Close` and a `Remove` after each temporary file it creates
(`Defers`). However it is left, by a return (`Return`, `Finish`) or by a panic
(`Panics`, and `Instantiate`, where a module without a memory makes the code
dereference nil before it tests for it), the calls registered so far run one by one, the last
first (`RunDeferred`), and then it is over (`Leave`). An `os.Remove` may fail
without anybody noticing, and the file stays; `unremoved` is a ghost variable that
remembers it. The guest may grow its memory in every call, `deallocate` included: the
plugin's source may bring an allocator of its own. `grown` is a ghost variable: by how much the
current call has.

What crosses the boundary are a pointer and a length, each any 32-bit word:
`AllocateReturns` reads the pointer as Go's `int32` and adds the input's length
with `int32` arithmetic; `ProcessReturns` packs pointer and length the way the
SDK does, takes them apart the way `Run` does, and adds them as `uint32`.
`CanSlice` is the check Go makes of a slice expression; when it fails `Run`
panics, and `net/http` recovers once the deferred calls have run. `handed` and `copied`
are ghost variables: the buffers the guest meant, and the slices the host made.

**Dashboard.** The page is one thread, so an action is one event with everything
React does because of it: the effect on the selected id is folded into the step
that moves the selection (`Shows`). A request in flight (`wire`) carries the
selection in the closure of the handler that sent it, and the answer is stored
by an action of its own, however much later.

| Code (`App.tsx`) | Actions |
|---|---|
| mount effect and its 10 s interval, Refresh | `Init` (`Mounted`), `ListTick`, `ClickRefresh`, `ListArrives`, `ListFails` |
| `handleSelectPlugin`, effect on the selected id | `ClickPlugin`, and part of every step that selects |
| create form, `handleCreatePlugin` | `OpenCreate`, `CancelCreate`, `SubmitCreate`, `CreateArrives`, `AlertsFailure` |
| `handleSaveAndCompile` | `handleSaveAndCompile`, `SaveArrives`, `SaveFails` |
| `handleDeletePlugin` | `ClickDelete`, `DeleteArrives`, `AlertsFailure` |
| `handleRunExecution` | `handleRunExecution`, `RunArrives` |
| `handleLoadTemplate`, `fetchMetrics` | `handleLoadTemplate`, `MetricsArrive` |
| `startPolling` | `startPolling`, `PollTick`, `PollArrives`, `PollFails` |

The host it talks to is **PluginCatalog**, which the pipeline is proved to
implement, with one action per request of the API (`HandleCreate` ...
`HandleRead`), two for a run, which takes its time (`BeginRun`, `EndRun`), decisions that come at any time (`HostDecides`), and other
clients (`OtherClient`). `NetworkFails` loses a request or its answer, before,
during or after its effect. `engine.Run` has no context, so a run whose connection is lost
goes on: `abandonedRuns` counts those, and `EndAbandonedRun` ends one. All texts are one (`Text`): what matters of the text in the
editor is whose it is, and the name in the form goes with it. `SelectsFirst`
leaves open which plugin is the newest. The host's `Restart` is left to the
pipeline's runs.

Each module defines, next to an action, the mutants of it ("Mutant: ..."):
plausible bugs that the properties must, and do, detect.

## 3. What the runs check

| Run | Properties | Instance |
|---|---|---|
| `pipeline_safety` | `TypeOK`, `OnlyCrashesLoseRebuilds`, `OnlyFailuresLeaveDirs` | 2 plugins, 2 clients, queue of 1, a good and a bad source, versions to 2, no faults of the database, removals that may fail, one crash |
| `pipeline_faults` | `StatusMatchesArtefact`, `DeletedStaysDeleted` | the same with both faults of the database, and removals that do not fail |
| `pipeline_progress` | `PendingIsDecided`, `StaleVerdictReplaced`, `RequestsAnswered`, `ResubmissionRecovers`, `RebuildRetriesRemoval`, `ImplementsCatalog` | 1 plugin, 2 clients, queue of 1, versions to 3, removals that may fail, one crash, with fairness |
| `engine_cache` | `CacheTypeOK`, `MapRaceFree`, `NeverNilModule`, `NobodyStuck`, `LoadedOnce`, `CallsAdvance`, `RunsReturn`, `ImplementsMemo` | 3 goroutines, 1 plugin, 2 loadable artefacts and a broken one, with fairness |
| `host_isolation` | `RunsOwnModule`, `ImplementsHost` | `HostSystem`: 2 plugins, 2 sources, 1 client, 2 executions, versions to 2, foreign key enforced, no faults, one crash |
| `host_history` | `FirstVersionServed`, `GoneForGood` | 1 plugin, 2 sources, 2 clients, 2 executions, versions to 3, no foreign key, both faults, one crash |
| `host_stale` | `DeployedCodeIsServed`, violated | 1 plugin, 2 sources, versions to 3 |
| `host_orphans` | `NoOrphanHistory`, violated | no foreign key |
| `guest_run` | `TypeOK`, `FuelIsReported`, `LimitIsReported`, `FilesRemoved`, `MemoryReported`, `CopiesInside`, `PanicJustified`, `RunAdvances`, `RunEnds` | 3 units of fuel, 3 pages, words of 8 values, an input of length 1, functions named after memory and allocation, with fairness |
| `dashboard_polling` | `CompilingCanEnd`, `RegisteredIsLive`, `CompilingEnds`, `PageSettles`, `ReconnectsAlone` | 2 plugins, 1 request in flight, 3 intervals, one loss; select, save, refresh, load template; with fairness |
| `dashboard_console` | `DashTypeOK`, `OnlyLossesDoubleRuns` | 1 plugin that the user registers, 2 requests in flight, 4 intervals, one loss; select, create, delete, run, and another client |
| `dashboard_overwrite` | `SavesOwnText`, violated | 2 plugins, 2 requests in flight, 4 intervals; select and save, under StrictMode |

Why the bounds are enough. A queue of one is full as soon as one request is
ahead of another, so blocked senders, the case of a full queue of 100, are
common. Two clients and one worker make every pair of racing actors (update and
update, update and delete, either and a build); a second plugin adds
interference through the shared queue and worker (one plugin is enough for the
progress of requests that compete for it). Version 3 leaves room for a
build, an update that overtakes it, and the build that repairs the verdict. Version
2 still has the update that overtakes the first build, or that passed its check
before the verdict and writes after it; the safety runs of the pipeline stop there, so that the
crash and the second plugin fit. `host_isolation` has the real lock and two
executions on top of the pipeline, and pays for them with the constraint
`UpdatesToOneOnly`: it is the union of two instances, two plugins that race through queue and
map, and one that is updated, so that executions bring different artefacts
of one plugin to the same lookup. Theorem `SystemImplementsHost` knows no such bound. In
the cache three goroutines are a reader inside, a writer that waits for it and
a third that parks behind the writer; entries of different plugins meet only in
the lock, and the theorems are about any number of plugins; three artefacts make racing first runs
bring different bytes, one of which cannot be loaded. Three units of fuel reach
every guest call with fuel left or not. `HalfWord = 4` makes words of three bits,
and with three pages every sum of a pointer and a length that can wrap does:
pointers with the sign bit set, sums past the word, buffers that end at the last
page and one behind it. The safety theorems of section 5 do not depend on these
bounds.

The dashboard's bounds. `MaxInFlight` is the number of requests in flight
(metrics have `MaxAsked` of their own, and one too many counts as failed);
`MaxTimers` the intervals that live or have polls in flight, and `Room` keeps the
user from what could need another one; `MaxFaults` the losses; `Outcome` the
decisions the host takes (what the page does is the same for `failed`, apart from
the Execute button); `MountFetches` is 2 where StrictMode mounts the page twice.
One list of the 10 s interval is in flight at a time. The polling run needs two
plugins, because its hazard is moving away from one that is being polled: one
request in flight is enough for a poll or a save to be overtaken by clicks. The
console run is about requests that overtake each other, for which one plugin
and two slots suffice: two runs, a delete and a run, a create and a poll. Its one
loss is enough for a second run on the host beside one that nobody waits for; saves are left to the
polling run. Together they fire every action. The overwrite needs two plugins and two slots.

Symmetry is used for goroutines and ids in runs whose properties are safety
properties, never in the others. `CHECK_DEADLOCK FALSE` is set only for
`GuestRun`, whose system stops when `Run` has returned; in the other runs
a deadlock would be an error.

`NobodyStuck` and `CallsAdvance` are the safety side of `RunsReturn`: as long as a
call is in flight some goroutine in one can step, and every step brings a call
closer to its end. TLC's deadlock check cannot say the first, because an idle
goroutine can always start another call. `RunAdvances` is the same for `RunEnds`.
They are stated because they are what can be proved; what `RunsReturn` adds is that
each call gets its turn.

`OnlyCrashesLoseRebuilds` and `OnlyFailuresLeaveDirs` are action properties: no step but
`Crash` makes a rebuild lost, and none but `Crash` and a `RemoveAll` that was called
and failed leaves a directory without a build. As invariants
they would be about hosts that never crash; this way they also hold of a host
that has crashed, of everything submitted since. `RebuildRetriesRemoval` says what
then becomes of such a directory: the next build runs through it and tries again,
which is all the code does.

`GoneForGood` is about a plugin with no row, no history and no execution
under way: it stays so, although updates that had found the row, queued jobs, builds
and the cached module are still there. While an execution is under way the plugin's
history can come back, which is `host_orphans`.

`MemoryReported` says how old the metric may be: it leaves out what the guest grew by in
the call it was cut in, or in `deallocate`, after the size was read, and nothing else.
`FuelIsReported` has both directions; `LimitIsReported` has one, since a guest that
prints the right word is reported as `out_of_memory` whatever it died of.

`OnlyLossesDoubleRuns` says of the page that it awaits one run at most, and of the
host that it is busy with at most one run of the page more than answers were lost: a
lost answer resets `isRunning` while the run goes on, and with the one loss of
`dashboard_console` two runs do happen.

### Fairness

* `WF(WorkerStep)`: the worker goroutine is scheduled, and *cargo terminates*.
  The code puts no timeout on cargo, so this is an assumption about cargo.
* `WF` of the statements of a started request: handlers run. Clients owe the
  host nothing: no fairness on starting a request.
* `SF(QueueCompile(c))`: the Go runtime keeps blocked senders of a channel in
  FIFO order, so a sender is not overtaken for ever.
* `WF` of the steps of a run in `EngineCache`, and `SF(BeginCompile(r))`: the
  mutex inside `RWMutex.Lock` switches to FIFO hand-over once a waiter has waited
  for a millisecond. Run starts are free.
* `Dashboard`: `WF` of the host's handlers and of the arrival of each answer
  (the browser delivers what comes back, or an error), `WF(HostDecides)` (which
  `Cat!Spec` gives), and `SF` of `ListTick` and of each `PollTick`, because a full
  table of slots disables an interval that in the browser would fire. None for
  the user or other clients, and none for losses.
* `WF(Next)` in `GuestRun`: guest code executes. Host calls of the guest, a WASI
  sleep for instance, use no fuel and are assumed to return.

## 4. What the runs found

* **The engine serves old code** (`host_stale`). `modules` is keyed by the id
  alone and nothing replaces an entry: after an update is compiled, executions
  still run the previous version until the process restarts, while the dashboard
  says "Engine preloaded module cached safely. Ready to run!". `FirstVersionServed`
  is what does hold: until there is a second verdict, the cache agrees with the
  row.
* **History of deleted plugins** (`host_orphans`). A run that ends after its
  plugin was deleted saves its record, and SQLite does not enforce the foreign
  key, although the dashboard promises to delete "this plugin and all its
  execution history". With Postgres the same interleaving loses the record
  instead. `GoneForGood` is what does hold in SQLite: once those runs have ended and
  the history is deleted, nothing comes back.

* **Deploy sends one plugin's text to another** (`dashboard_overwrite`). The
  answer of a poll selects its plugin again if it was selected when *polling
  started*, and does not touch the editor. A user who has moved on to another
  plugin is moved back, with the second plugin's name and text in the editor, and
  Deploy then overwrites the first plugin's source with it. The page otherwise
  warns before it replaces a text. The late answers of a save and of Refresh open
  the same gap.

Not disagreements but worth knowing: plugins that were pending when the process
died stay pending until somebody submits them again (what progress there is
after a crash is `ResubmissionRecovers`; before one, `PendingIsDecided`), a crash, or a removal
that fails, leaves a build directory at least until the
same id is built again (`RebuildRetriesRemoval`), a run that fails in `process` reports the memory it had *before*
it and none reports what grew in `deallocate` (`MemoryReported`), a module without an exported memory
makes `Run` panic instead of returning the `runtime_error` the code has for it, and the interval that `handleCreatePlugin` starts closes over the
selection before the new plugin: if the 10 s list showed that plugin and the user
selected it before the answer came, "Compiling cargo..." stays until another
selection (`CompilingCanEnd` holds where nothing is created).

`PROJECT.json` also lists hazards without a property. Cargo has no timeout, so
progress is an assumption about it. A verdict whose statement fails, a row that was
inserted but not acknowledged, and a delete whose second statement fails leave what they leave: the
models have these steps, but nothing in the code retries them, and no property
covers them beyond the coherence of the rows. On the page: the interval of a created plugin,
polling of one that was deleted, the second fetch under StrictMode, answers of metrics, runs and
deletes, two saves in flight and a doubly submitted form, where the model
keeps the code's behaviour and nothing in the code promises another.

## 5. What is proved

For all values of the constants, from the named `ASSUME`s of the modules:
capacity and budgets are naturals, `Compilable` is a set of sources, `None` is not
one of them.

| Theorem | Says | Inductive invariant |
|---|---|---|
| `TypeCorrect` | `[]TypeOK` | `TInv`: adds that goroutines that hold an id hold a real one, and that a row that exists has a source |
| `NoResurrection` | `DeletedStaysDeleted` | follows from `TInv` step by step; only `CreatePlugin` makes a row, for an id never issued |
| `ArtefactCoherent` | `[]StatusMatchesArtefact` | `ArtefactInv`: adds that a `compiled` verdict on its way is about a source that compiles |
| `RebuildsNotLost` | `OnlyCrashesLoseRebuilds`, if `Faults = {}`, crashes included | `RebuildInv`: `TInv` and `OvertakenIsDue` |
| `NoneLostBeforeCrash` | no rebuild is lost in a state before the first crash, if `Faults = {}` | `RebuildInv` and the property itself |
| `CacheTypeCorrect`, `NoMapRace`, `ModuleOrError` | `[]CacheTypeOK`, `[]MapRaceFree`, `[]NeverNilModule` | `CacheInv` |
| `ModulesStay` | `LoadedOnce` | `CacheInv` |
| `NobodyIsStuck` | `[]NobodyStuck` | `CacheInv`, for its part `ParkedBehindWriter` |
| `CallsGoForward` | `CallsAdvance` | `CacheInv` |
| `CacheImplementsMemo` | `CacheSpec => Memo!SafeSpec` | `CacheInv` |
| `RemovalIsReached` | `OnlyFailuresLeaveDirs` | `TInv` |
| `PipelineImplementsCatalog` | `Spec => Cat!SafeSpec`, if `Faults = {}`, crashes included | `CatInv`: `TInv`, `OvertakenIsDue`, and rows have issued ids |
| `RunTypeCorrect`, `RunCleansUp`, `FuelCutsReported`, `LimitCutsReported` | `[]TypeOK`, `[]FilesRemoved`, `[]FuelIsReported`, `[]LimitIsReported` | `GuestInv` |
| `RunsAreBounded` | `RunAdvances` | `GuestInv` |
| `MetricsLagOneCall` | `[]MemoryReported` | `MemoryInv`: in a guest call `memoryUsed` and what that call has grown make up the guest's memory, and there is no result before `Run` returns |
| `CopiesStayInside`, `PanicsAreJustified` | `[]CopiesInside`, `[]PanicJustified` | `BufferInv`, over lemmas on the words |
| `DeleteIsFinal` | `GoneForGood` | `HInv`: `ArtefactInv` and the types of the engine's side (`EngineTypes`) |
| `TenantsApart` | `[]RunsOwnCode`, the form `RunsOwnModule` takes with the atomic table | `OwnInv`: every text anywhere (row, handler, worker, execution, cache entry) was submitted under the id it is with |
| `FirstIsServed` | `[]FirstVersionServed` | `FirstInv` |
| `HostArtefacts`, `HostNoResurrection` | `[]StatusMatchesArtefact`, `DeletedStaysDeleted`, of `HostSpec` | `HInv` |
| `HostRebuildsNotLost`, `HostImplementsCatalog` | `OnlyCrashesLoseRebuilds`, `Cat!SafeSpec`, of `HostSpec`, if `Faults = {}` | `RebuildInv`, `CatInv`, kept by the host's steps |
| `SystemImplementsHost` | `SystemSpec => Host!HostSpec` | `SystemInv`: `CacheInv`, and `HInv` under the mapping |
| `TenantsStayApart` | `[]RunsOwnModule` | `OwnInv` under the mapping |
| `SystemKeepsPromises` | `HostSystem` has what is proved of `PluginHost` | none: from `SystemImplementsHost` |
| `DashTypeCorrect`, `NoDeadRegistration` | `[]DashTypeOK`, `[]RegisteredIsLive` | `DInv` |
| `RunsDoubleByLoss` | `[]OnlyLossesDoubleRuns` | `DInv`, `OneAwaited`, and that each abandoned run has cost a fault |
| `CompilingIsWaiting` | `[]CompilingCanEnd`, if `"create"` is not in `Act` | `DInv` and the property |

That no rebuild is lost is not inductive: it says nothing of a settled row whose
build is in flight, and when that build stores a verdict on an old text the row
turns stale with no reason why another build should be due. `OvertakenIsDue` is
the reason: whenever the worker is building a text that is no longer the row's,
another job of that id is already queued or about to be. The proof then rests on
one fact about the queue (`JobDueKept`): a job that is due stays due until the
worker reads the row. None of this mentions crashes: a crash empties the worker's
hands, so `OvertakenIsDue` holds after it for want of a build, and the steps after it
are like those before. What a crash has lost stays `Lost` until somebody submits
the plugin again, and `OnlyCrashesLoseRebuilds` is about what becomes lost.

`CacheInv` adds to the types that a goroutine in the body of `Compile` is alone
(`LoadsAlone`), and that a goroutine on its way to the second lookup has an entry
there (`EntryThere`), which is what makes the untested result of that lookup
safe: entries are filled and never removed. `ParkedBehindWriter` says that readers
are parked only while a writer has announced itself, and is what
`NobodyStuck` needs: who is parked waits for a writer, who has announced itself waits
for the readers inside, and they wait for nobody. A writer that unlocks must therefore
let everybody in.

`GuestInv` says that a cause is recorded only together with the result made from it
(`CauseReported`), and that every open descriptor and every file whose removal has
not failed still has its deferred call, of which none is left when `Run` is over
(`DiskInv`).
`BufferInv` rests on facts about words of any size: taking a packed word apart
returns the pointer and the length that were packed, through the signed 64-bit
value; an `int32` pointer is the guest's, or negative, and then the slice is
refused; and a sum that wrapped is smaller than where it started, so that
`CanSlice` refuses it. `RunAssumption` says what this needs: the memory limit is
below half a word, and the input shorter than that.

`CatInv` needs nothing about crashes either: a crash forgets every debt at once. The
proof has a lemma per action that the catalog sees (`CreateMaps`, `UpdateMaps`,
`DeleteMaps`, `VerdictMaps`, `CrashMaps`) and one, `HiddenStep`, for those it does
not: with a row in place, a build is due before such a step if and only if it is
due after it (`DueStays`, `DueComes`).

`RunsOwnCode` speaks of modules that run, and `OwnInv` follows the text back to
the request that brought it, through the row, the build, the artefact and the
cache; each of these carries an id, and no step pairs a text with another id.
`FirstInv` counts versions: a row at version 1 is pending, so the engine has
nothing of the plugin (`Fresh`); at version 2, whether compiled or pending again
after an update, the cache entry and the executions in flight hold the row's
artefact or nothing (`Serves`), because an update leaves the artefact in place.

The host's control plane is not quite the pipeline: an enforced foreign key may
refuse the second statement of a delete with `Faults = {}`, a step the pipeline
then does not have. `HostProofs` shows that this is all (`RefusedKeepsDue`,
`RefusedIsHidden`: a refused delete neither drops a job nor changes a row) and takes every
other step from the pipeline's lemmas, so that the pipeline's promises,
the catalog included, hold of the host.

`SystemImplementsHost` is put together from parts that are proved already.
`SystemProofs` takes `HostProofs` and `CacheProofs` as instances, shows that the host it
maps to is the one of `HostProofs` (`SameHost`) and the engine the one of `CacheProofs`
(`SameEngine`), and that each step of the system is one of the mapped host: a
step of the lock stutters, a hit or the body of `Compile` is `GetModule`
(`CacheProofs`), and a crash starts the cache anew (`CacheStartsAnew`). The types
of the mapped variables come from the invariants of the two parts
(`SystemInv`). The assumptions the parts make are proved from the system's
(`PartsAssumed`). `TenantsStayApart` and `SystemKeepsPromises` then need no induction:
they are the host's theorems under the mapping.

`DInv` adds to the types that a request names the plugin its kind needs
(`RequestOK`), that a poll's interval is its own or dead (`Matches`), and that
registrations are live. The last is inductive only with the second: the poll
that ends polling clears *its* interval and deletes *whatever* registration the
plugin has, so it must not be that the interval it clears stays registered for
another plugin. The proof factors the 24 or so actions through two
effect lemmas: what a step may do to the wire (`WireStep`) and to what is shown
and polled (`ShownStep`).

**Only model-checked.** Everything about fairness: the liveness properties
(`PendingIsDecided` to `RebuildRetriesRemoval`, `RunsReturn`, `RunEnds`, `CompilingEnds`,
`PageSettles`, `ReconnectsAlone`), and the fairness parts of `Cat!Spec` and
`Memo!Spec`. Liveness and `ENABLED` are out of reach of the provers; of `RunsReturn`
and `RunEnds` the parts that are safety are proved (`NobodyStuck`,
`CallsAdvance`, `RunAdvances`). Every invariant and every action property of a
passing run is proved, and so is the safety part of every refinement. No recursive
operator is used.

## 6. What is not modelled

* **Dashboard**: the tab shown, the input payload, typing (the editor's text is
  the user's for the plugin it was loaded for), the drawing of logs and charts,
  and the cleanup of the page when it is closed.
* **Bytes across the guest boundary**: what is in a buffer, the UTF-8 check of
  `process`, the JSON inside, and inputs of 2 GB or more, whose length does not
  fit the `int32` it is converted to. The guest's heap is the guest's
  business: the host reads only the words it is handed.
* **Mongo**: never created by `main`; effects as SQLite without a foreign key.
* **Execution records**: their contents, order and the averages made of them.
* **Reads** (list, get, metrics) as actions of the host, CORS, JSON validation,
  formatting and wording: no state, or not told apart by a property. The
  dashboard's model has the reads it makes.
* **Toolchain scripts, image, tests**: no state of their own. The tests and
  `test_plugins/` were read for what the engine is expected to answer.

## 7. Plan

1. Control plane: `PluginStore`, `CompilePipeline`, `PluginCatalog` and the
   refinement. *Done.*
2. Module cache: `EngineCache`, `MemoTable` and the refinement. *Done.*
3. Composition: `PluginHost`. *Done.*
4. Dashboard: `Dashboard`, over `PluginCatalog`, and its theorems. *Done.*
5. Sandboxed run: `GuestRun`. *Done.*
6. Guest boundary: pointers, lengths and their 32-bit arithmetic, in `GuestRun`.
   *Done.*
7. Proofs of every safety property of a passing run, and of the refinements
   (safety part). *Done.*
8. The whole host with the real cache, `HostSystem`, and its proof from the
   theorems of its parts. *Done.*
9. Open: the page over the proved host (that `Dashboard`'s host steps are the
   catalog's, as a theorem); a bound on the age of the data in the dashboard (which
   needs a clock); the contents of the execution history (order of the records
   shown, averages).
