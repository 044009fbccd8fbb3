---------------------------- MODULE EngineCache ----------------------------
(***************************************************************************)
(* sandbox/engine.go up to the point where Run has its module: the map     *)
(* from plugin ids to wasmtime modules that GetModule fills on demand, and *)
(* the RWMutex that guards it.  The lock is Go's: a writer announces       *)
(* itself and waits for the readers inside to leave, readers that come     *)
(* later wait for it, and it lets all of them in when it unlocks.  A       *)
(* module is represented by the wasm bytes it was loaded from.             *)
(***************************************************************************)
EXTENDS Naturals

CONSTANTS
    Runner,     \* goroutines in Engine.Run
    Plugin,     \* plugin ids
    Artefact,   \* wasm bytes a caller may bring
    Loadable,   \* the bytes wasmtime.NewModule accepts
    NoModule,   \* nil, or no bytes
    NoRunner    \* the lock has no writer

ASSUME CacheAssumption ==
    /\ Loadable \subseteq Artefact
    /\ NoModule \notin Artefact
    /\ NoRunner \notin Runner

VARIABLES
    modules,   \* Engine.modules
    run,       \* where each call is, with its arguments and its module
    readers,   \* holders of the read lock
    parked,    \* readers that wait for the writer to unlock
    writer     \* the writer that announced itself, NoRunner if none

cacheVars == <<modules, run, readers, parked, writer>>

\* "read" and "reread": before the two lookups, inside the read lock once the
\* goroutine is among readers.  "miss": Compile is called.  "locking": it waits
\* for readers to leave.  "load": it holds the lock.  "got" and "error":
\* GetModule returned.
RunAt == {"idle", "read", "miss", "locking", "load", "reread", "got", "error"}

Call == [at: RunAt, id: Plugin \cup {NoModule},
         bytes: Artefact \cup {NoModule}, mod: Artefact \cup {NoModule}]

IdleRun == [at |-> "idle", id |-> NoModule, bytes |-> NoModule, mod |-> NoModule]

CacheInit ==
    /\ modules = [p \in Plugin |-> NoModule]
    /\ run = [r \in Runner |-> IdleRun]
    /\ readers = {}
    /\ parked = {}
    /\ writer = NoRunner

-----------------------------------------------------------------------------
\* sync.RWMutex.  A reader goes in unless a writer has announced itself.
RLock(r) ==
    /\ IF writer = NoRunner
       THEN readers' = readers \cup {r} /\ UNCHANGED parked
       ELSE parked' = parked \cup {r} /\ UNCHANGED readers
    /\ UNCHANGED writer

RUnlock(r) == readers' = readers \ {r} /\ UNCHANGED <<parked, writer>>

\* Lock gets past the inner mutex, then past the readers inside.
AnnounceWriter(r) == writer = NoRunner /\ writer' = r /\ UNCHANGED <<readers, parked>>

Unlock == writer' = NoRunner /\ readers' = readers \cup parked /\ parked' = {}

LockUnchanged == UNCHANGED <<readers, parked, writer>>

-----------------------------------------------------------------------------
\* Engine.Run(p, b) is called.
StartRun(r, p, b) ==
    /\ run[r].at = "idle"
    /\ run' = [run EXCEPT ![r] = [at |-> "read", id |-> p, bytes |-> b,
                                  mod |-> NoModule]]
    /\ UNCHANGED modules /\ LockUnchanged

\* GetModule's RLock, before the first lookup and again after Compile.
EnterRead(r) ==
    /\ run[r].at \in {"read", "reread"}
    /\ r \notin readers \cup parked
    /\ RLock(r)
    /\ UNCHANGED <<modules, run>>

\* Mutant: the map is keyed by a name that plugins may share.
LookupByName(r) ==
    LET hit == {modules[q] : q \in Plugin} \ {NoModule}
    IN  /\ run[r].at = "read" /\ r \in readers
        /\ run' = IF hit # {}
                  THEN [run EXCEPT ![r].at = "got", ![r].mod = CHOOSE m \in hit : TRUE]
                  ELSE [run EXCEPT ![r].at = "miss"]
        /\ RUnlock(r)
        /\ UNCHANGED modules

\* The first lookup, RUnlock, and on a hit the module is returned.
Lookup(r) ==
    /\ run[r].at = "read" /\ r \in readers
    /\ run' = IF modules[run[r].id] # NoModule
              THEN [run EXCEPT ![r].at = "got", ![r].mod = modules[run[r].id]]
              ELSE [run EXCEPT ![r].at = "miss"]
    /\ RUnlock(r)
    /\ UNCHANGED modules

\* Mutant: Compile locks for reading only, and loads run side by side.
BeginCompileShared(r) ==
    /\ run[r].at = "miss"
    /\ writer = NoRunner
    /\ readers' = readers \cup {r}
    /\ run' = [run EXCEPT ![r].at = "load"]
    /\ UNCHANGED <<modules, parked, writer>>

\* Compile calls Lock.
BeginCompile(r) ==
    /\ run[r].at = "miss"
    /\ AnnounceWriter(r)
    /\ run' = [run EXCEPT ![r].at = "locking"]
    /\ UNCHANGED modules

\* The last reader has left, Lock returns.
EnterCompile(r) ==
    /\ run[r].at = "locking"
    /\ readers = {}
    /\ run' = [run EXCEPT ![r].at = "load"]
    /\ UNCHANGED modules /\ LockUnchanged

\* Mutant: the map is not looked at again under the write lock.
CompileNoRecheck(r) ==
    /\ run[r].at = "load"
    /\ IF run[r].bytes \in Loadable
       THEN /\ modules' = [modules EXCEPT ![run[r].id] = run[r].bytes]
            /\ run' = [run EXCEPT ![r].at = "reread"]
       ELSE /\ run' = [run EXCEPT ![r].at = "error"]
            /\ UNCHANGED modules
    /\ Unlock

\* Mutant: without the deferred Unlock, a hit returns with the lock held.
CompileKeepsLock(r) ==
    /\ run[r].at = "load"
    /\ IF modules[run[r].id] # NoModule
       THEN /\ run' = [run EXCEPT ![r].at = "reread"]
            /\ UNCHANGED modules /\ LockUnchanged
       ELSE /\ IF run[r].bytes \in Loadable
               THEN /\ modules' = [modules EXCEPT ![run[r].id] = run[r].bytes]
                    /\ run' = [run EXCEPT ![r].at = "reread"]
               ELSE /\ run' = [run EXCEPT ![r].at = "error"]
                    /\ UNCHANGED modules
            /\ Unlock

\* Mutant: GetModule goes on although Compile returned an error.
CompileErrorIgnored(r) ==
    /\ run[r].at = "load"
    /\ IF modules[run[r].id] = NoModule /\ run[r].bytes \in Loadable
       THEN modules' = [modules EXCEPT ![run[r].id] = run[r].bytes]
       ELSE UNCHANGED modules
    /\ run' = [run EXCEPT ![r].at = "reread"]
    /\ Unlock

\* Mutant: GetModule tries again when the bytes cannot be loaded.
CompileRetries(r) ==
    /\ run[r].at = "load"
    /\ IF modules[run[r].id] = NoModule /\ run[r].bytes \in Loadable
       THEN modules' = [modules EXCEPT ![run[r].id] = run[r].bytes]
       ELSE UNCHANGED modules
    /\ run' = [run EXCEPT ![r].at =
                 IF modules'[run[r].id] # NoModule THEN "reread" ELSE "read"]
    /\ Unlock

\* The body of Compile under the write lock: another Run may have filled the
\* entry since the lookup; otherwise NewModule accepts the bytes or not.
Compile(r) ==
    /\ run[r].at = "load"
    /\ IF modules[run[r].id] = NoModule /\ run[r].bytes \in Loadable
       THEN modules' = [modules EXCEPT ![run[r].id] = run[r].bytes]
       ELSE UNCHANGED modules
    /\ run' = [run EXCEPT ![r].at =
                 IF modules'[run[r].id] # NoModule THEN "reread" ELSE "error"]
    /\ Unlock

\* The second lookup returns whatever the entry holds now.
Relookup(r) ==
    /\ run[r].at = "reread" /\ r \in readers
    /\ run' = [run EXCEPT ![r].at = "got", ![r].mod = modules[run[r].id]]
    /\ RUnlock(r)
    /\ UNCHANGED modules

\* The rest of Run, with the module or with the error, and its return.
FinishRun(r) ==
    /\ run[r].at \in {"got", "error"}
    /\ run' = [run EXCEPT ![r] = IdleRun]
    /\ UNCHANGED modules /\ LockUnchanged

\* What a call does by itself once it is started.
RunStep(r) ==
    \/ EnterRead(r)
    \/ Lookup(r)
    \/ BeginCompile(r)
    \/ EnterCompile(r)
    \/ Compile(r)
    \/ Relookup(r)

CacheNext ==
    \E r \in Runner :
        \/ \E p \in Plugin, b \in Artefact : StartRun(r, p, b)
        \/ RunStep(r)
        \/ FinishRun(r)

CacheSpec == CacheInit /\ [][CacheNext]_cacheVars

\* Goroutines run.  The mutex inside Lock hands over in FIFO order once a
\* goroutine has waited for a millisecond, so no writer waits for ever.
RunFairness ==
    \A r \in Runner :
        /\ WF_cacheVars(RunStep(r) \/ FinishRun(r))
        /\ SF_cacheVars(BeginCompile(r))

FairCacheSpec == CacheSpec /\ RunFairness

-----------------------------------------------------------------------------
\* Variables hold values of their types, and the lock is with the goroutines
\* that are between a call that locks and the one that unlocks.
CacheTypeOK ==
    /\ modules \in [Plugin -> Artefact \cup {NoModule}]
    /\ run \in [Runner -> Call]
    /\ writer \in Runner \cup {NoRunner}
    /\ \A r \in Runner : writer = r <=> run[r].at \in {"locking", "load"}
    /\ readers \cap parked = {}
    /\ readers \cup parked \subseteq
         {r \in Runner : run[r].at \in {"read", "reread"}}

\* A goroutine that is inside one of GetModule's two lookups.
Reading(r) == run[r].at \in {"read", "reread"} /\ r \in readers

\* Go's runtime aborts the process when a map is written while it is read or
\* written: whoever is in the body of Compile is there alone.
MapRaceFree ==
    \A r, s \in Runner :
        r # s /\ run[r].at = "load" => ~Reading(s) /\ run[s].at # "load"

\* GetModule never hands out nil without an error: the second lookup, after
\* the lock was given up and taken again, still finds the entry.
NeverNilModule == \A r \in Runner : run[r].at = "got" => run[r].mod # NoModule

\* A module is loaded at most once: however many first Runs of a plugin race,
\* no entry is replaced while others may be instantiating the module.
LoadedOnce ==
    [][\A p \in Plugin : modules[p] # NoModule => modules'[p] = modules[p]]_cacheVars

\* The guard of what r would do next holds.
CanStep(r) ==
    \/ run[r].at \in {"read", "reread"} /\ r \notin parked
    \/ run[r].at = "miss" /\ writer = NoRunner
    \/ run[r].at = "locking" /\ readers = {}
    \/ run[r].at \in {"load", "got", "error"}

\* Readers that wait for a writer, writers that wait for readers and for each
\* other never wait in a circle: while any Run is under way one of them can
\* go on, without the help of a new call.
NobodyStuck ==
    (\E r \in Runner : run[r].at # "idle") => \E r \in Runner : CanStep(r)

\* Steps to the end of a lookup, being parked counted as one.
LookupSteps(r) == IF r \in readers THEN 1 ELSE IF r \in parked THEN 2 ELSE 3

\* Steps to the return of a call that is at this place, w of them in the
\* lookup that begins there.
StepsFrom(at, w) ==
    CASE at = "idle" -> 0
      [] at \in {"got", "error"} -> 1
      [] at = "reread" -> 1 + w
      [] at = "load" -> 5
      [] at = "locking" -> 6
      [] at = "miss" -> 7
      [] at = "read" -> 7 + w

StepsLeft(r) == StepsFrom(run[r].at, LookupSteps(r))

\* GetModule has no way back, whatever the other goroutines do to the map and
\* the lock: a step that begins no call brings one call closer to its return,
\* and no step takes any call further from it.
CallsAdvance ==
    [][/\ \A r \in Runner : run[r].at # "idle" => StepsLeft(r)' <= StepsLeft(r)
       /\ \/ \E r \in Runner : StepsLeft(r)' < StepsLeft(r)
          \/ \E r \in Runner : run[r].at = "idle" /\ run'[r].at = "read"]_cacheVars

\* Every Run gets past GetModule and returns, also when writers keep coming.
RunsReturn == \A r \in Runner : run[r].at # "idle" ~> run[r].at = "idle"
=============================================================================
