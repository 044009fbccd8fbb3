---------------------------- MODULE CacheProofs ----------------------------
(***************************************************************************)
(* Theorems about EngineCache, for any number of goroutines and plugins.   *)
(***************************************************************************)
EXTENDS CacheRefinement, TLAPS

\* A call in progress knows its plugin and its bytes, and has no module yet.
CallBound ==
    \A r \in Runner :
        /\ run[r].at # "idle" => run[r].id \in Plugin /\ run[r].bytes \in Artefact
        /\ run[r].at # "got" => run[r].mod = NoModule

\* Whoever is in the body of Compile has waited for the readers to leave.
LoadsAlone == \A r \in Runner : run[r].at = "load" => readers = {}

\* Between Compile and the second lookup the entry is there.
EntryThere ==
    \A r \in Runner : run[r].at = "reread" => modules[run[r].id] # NoModule

\* Readers are parked only behind a writer.
ParkedBehindWriter == parked # {} => writer # NoRunner

CacheInv ==
    /\ CacheTypeOK
    /\ CallBound
    /\ LoadsAlone
    /\ EntryThere
    /\ NeverNilModule
    /\ ParkedBehindWriter

\* The invariant holds when the engine is created.
LEMMA CacheInvInit == CacheInit => CacheInv
  BY CacheAssumption DEF CacheInit, CacheInv, CacheTypeOK, CallBound, LoadsAlone,
     EntryThere, NeverNilModule, ParkedBehindWriter, IdleRun, Call, RunAt

\* Entries are filled and never replaced or removed.
LEMMA EntriesStay ==
  ASSUME CacheInv, [CacheNext]_cacheVars, NEW p \in Plugin,
         modules[p] # NoModule
  PROVE  modules'[p] = modules[p]
<1>1. CASE \E r \in Runner : Compile(r)
  BY <1>1 DEF Compile, CacheInv, CacheTypeOK
<1>2. CASE ~ \E r \in Runner : Compile(r)
  BY <1>2 DEF CacheNext, RunStep, cacheVars, StartRun, EnterRead, Lookup,
     BeginCompile, EnterCompile, Relookup, FinishRun
<1>3. QED
  BY <1>1, <1>2

\* Every step keeps the invariant.
LEMMA CacheInvNext == CacheInv /\ [CacheNext]_cacheVars => CacheInv'
<1> SUFFICES ASSUME CacheInv, [CacheNext]_cacheVars PROVE CacheInv'
  OBVIOUS
<1> USE DEF CacheInv, CacheTypeOK, CallBound, LoadsAlone, EntryThere,
            NeverNilModule, ParkedBehindWriter, LockUnchanged
<1>1. ASSUME NEW r \in Runner, NEW p \in Plugin, NEW b \in Artefact,
             StartRun(r, p, b)
      PROVE  CacheInv'
  BY <1>1 DEF StartRun, Call, RunAt
<1>2. ASSUME NEW r \in Runner, EnterRead(r)
      PROVE  CacheInv'
  BY <1>2, CacheAssumption DEF EnterRead, RLock
<1>3. ASSUME NEW r \in Runner, Lookup(r)
      PROVE  CacheInv'
  <2>1. run[r].id \in Plugin /\ modules' = modules /\ writer' = writer
    BY <1>3 DEF Lookup, RUnlock
  <2>2. \/ /\ modules[run[r].id] # NoModule
           /\ run' = [run EXCEPT ![r].at = "got", ![r].mod = modules[run[r].id]]
        \/ run' = [run EXCEPT ![r].at = "miss"]
    BY <1>3 DEF Lookup
  <2>3. run' \in [Runner -> Call]
    BY <2>1, <2>2 DEF Call, RunAt
  <2>4. /\ \A s \in Runner \ {r} : run'[s] = run[s]
        /\ run'[r].at \in {"got", "miss"} /\ run'[r].id = run[r].id
        /\ run'[r].bytes = run[r].bytes
        /\ run'[r].at = "got" => run'[r].mod # NoModule
    BY <2>2 DEF Call
  <2>5. readers' = readers \ {r} /\ parked' = parked /\ r \notin parked'
    BY <1>3 DEF Lookup, RUnlock
  <2>6. QED
    BY <1>3, <2>1, <2>3, <2>4, <2>5 DEF Lookup
<1>4. ASSUME NEW r \in Runner, BeginCompile(r)
      PROVE  CacheInv'
  BY <1>4, CacheAssumption DEF BeginCompile, AnnounceWriter, Call, RunAt
<1>5. ASSUME NEW r \in Runner, EnterCompile(r)
      PROVE  CacheInv'
  BY <1>5 DEF EnterCompile, Call, RunAt
<1>6. ASSUME NEW r \in Runner, Compile(r)
      PROVE  CacheInv'
  BY <1>6, CacheAssumption DEF Compile, Unlock, Call, RunAt
<1>7. ASSUME NEW r \in Runner, Relookup(r)
      PROVE  CacheInv'
  <2>1. /\ run[r].id \in Plugin /\ modules[run[r].id] # NoModule
        /\ modules' = modules /\ writer' = writer
    BY <1>7 DEF Relookup, RUnlock
  <2>2. run' = [run EXCEPT ![r].at = "got", ![r].mod = modules[run[r].id]]
    BY <1>7 DEF Relookup
  <2>3. run' \in [Runner -> Call]
    <3>1. modules[run[r].id] \in Artefact \cup {NoModule}
      BY <2>1
    <3>2. run[r] \in Call
      OBVIOUS
    <3> DEFINE m == modules[run[r].id]
    <3>3. [run[r] EXCEPT !.at = "got", !.mod = m] \in Call
      BY <3>1, <3>2 DEF Call, RunAt
    <3>4. run' = [run EXCEPT ![r] = [run[r] EXCEPT !.at = "got", !.mod = m]]
      BY <2>2, <3>2 DEF Call
    <3>5. QED
      BY <3>3, <3>4
  <2>4. /\ \A s \in Runner \ {r} : run'[s] = run[s]
        /\ run'[r].at = "got" /\ run'[r].id = run[r].id
        /\ run'[r].bytes = run[r].bytes /\ run'[r].mod # NoModule
    BY <2>1, <2>2 DEF Call
  <2>5. readers' = readers \ {r} /\ parked' = parked /\ r \notin parked'
    BY <1>7 DEF Relookup, RUnlock
  <2>6. QED
    BY <1>7, <2>1, <2>3, <2>4, <2>5 DEF Relookup
<1>8. ASSUME NEW r \in Runner, FinishRun(r)
      PROVE  CacheInv'
  BY <1>8 DEF FinishRun, IdleRun, Call, RunAt
<1>9. CASE UNCHANGED cacheVars
  BY <1>9 DEF cacheVars
<1>10. QED
  BY <1>1, <1>2, <1>3, <1>4, <1>5, <1>6, <1>7, <1>8, <1>9 DEF CacheNext, RunStep

\* Types, and the lock is held by exactly the goroutines that think so.
THEOREM CacheTypeCorrect == CacheSpec => []CacheTypeOK
<1>1. CacheInv => CacheTypeOK
  BY DEF CacheInv
<1>2. QED
  BY CacheInvInit, CacheInvNext, <1>1, PTL DEF CacheSpec

\* The map is never written while another goroutine reads or writes it.
THEOREM NoMapRace == CacheSpec => []MapRaceFree
<1>1. CacheInv => MapRaceFree
  <2> SUFFICES ASSUME CacheInv, NEW r \in Runner, NEW s \in Runner, r # s,
                      run[r].at = "load"
               PROVE  ~Reading(s) /\ run[s].at # "load"
    BY DEF MapRaceFree
  <2>1. readers = {} /\ writer = r
    BY DEF CacheInv, CacheTypeOK, LoadsAlone
  <2>2. QED
    BY <2>1 DEF CacheInv, CacheTypeOK, Reading
<1>2. QED
  BY CacheInvInit, CacheInvNext, <1>1, PTL DEF CacheSpec

\* GetModule returns a module or an error, never neither.
THEOREM ModuleOrError == CacheSpec => []NeverNilModule
<1>1. CacheInv => NeverNilModule
  BY DEF CacheInv
<1>2. QED
  BY CacheInvInit, CacheInvNext, <1>1, PTL DEF CacheSpec

\* No entry of the module map is ever replaced or removed.
THEOREM ModulesStay == CacheSpec => LoadedOnce
<1>1. ASSUME CacheInv, [CacheNext]_cacheVars
      PROVE  [\A p \in Plugin : modules[p] # NoModule
                => modules'[p] = modules[p]]_cacheVars
  BY <1>1, EntriesStay
<1>2. QED
  BY CacheInvInit, CacheInvNext, <1>1, PTL DEF CacheSpec, LoadedOnce

\* Whoever is under way, somebody can go on: a writer that has the lock, a
\* reader that keeps a writer waiting, or else anybody, for without a writer
\* nobody is parked.
THEOREM NobodyIsStuck == CacheSpec => []NobodyStuck
<1>1. CacheInv => NobodyStuck
  <2> SUFFICES ASSUME CacheInv, NEW r \in Runner, run[r].at # "idle"
               PROVE  \E s \in Runner : CanStep(s)
    BY DEF NobodyStuck
  <2> USE DEF CacheInv, CacheTypeOK
  <2>1. CASE writer = NoRunner
    <3>1. parked = {} /\ run[r].at \notin {"locking", "load"}
      BY <2>1, CacheAssumption DEF ParkedBehindWriter
    <3>2. run[r].at \in RunAt
      BY DEF Call
    <3> QED
      BY <2>1, <3>1, <3>2 DEF CanStep, RunAt
  <2>2. CASE writer # NoRunner
    <3>1. writer \in Runner /\ run[writer].at \in {"locking", "load"}
      BY <2>2
    <3>2. CASE run[writer].at = "load" \/ readers = {}
      BY <3>1, <3>2 DEF CanStep
    <3>3. ASSUME NEW s \in readers PROVE CanStep(s) /\ s \in Runner
      BY <3>3 DEF CanStep
    <3> QED
      BY <3>1, <3>2, <3>3
  <2> QED
    BY <2>1, <2>2
<1>2. QED
  BY CacheInvInit, CacheInvNext, <1>1, PTL DEF CacheSpec

-----------------------------------------------------------------------------
(* Every call gets nearer to its return.                                   *)

\* The steps from each place.
LEMMA StepsPerPlace ==
  ASSUME NEW w \in 1..3
  PROVE  /\ StepsFrom("idle", w) = 0
         /\ StepsFrom("got", w) = 1 /\ StepsFrom("error", w) = 1
         /\ StepsFrom("reread", w) = 1 + w
         /\ StepsFrom("load", w) = 5
         /\ StepsFrom("locking", w) = 6
         /\ StepsFrom("miss", w) = 7
         /\ StepsFrom("read", w) = 7 + w
BY DEF StepsFrom

\* A shorter lookup is no longer way to the return.
LEMMA StepsMonotone ==
  ASSUME NEW at \in RunAt, NEW v \in 1..3, NEW w \in 1..3, v <= w
  PROVE  StepsFrom(at, v) <= StepsFrom(at, w)
BY StepsPerPlace DEF RunAt

\* A goroutine that the lock lets in, and does not turn out, gets no further
\* from its return.
LEMMA LockIsKind ==
  ASSUME CacheInv, NEW s \in Runner, run'[s] = run[s],
         s \in readers => s \in readers',
         s \in parked => s \in readers' \cup parked'
  PROVE  StepsLeft(s)' <= StepsLeft(s)
<1>1. run[s].at \in RunAt
  BY DEF CacheInv, CacheTypeOK, Call
<1>2. /\ LookupSteps(s) \in 1..3 /\ LookupSteps(s)' \in 1..3
      /\ LookupSteps(s)' <= LookupSteps(s)
  BY DEF LookupSteps
<1> QED
  BY <1>1, <1>2, StepsMonotone DEF StepsLeft

\* A step of r that begins no call brings r nearer to its return.
LEMMA OwnStepAdvances ==
  ASSUME CacheInv, NEW r \in Runner, RunStep(r) \/ FinishRun(r)
  PROVE  StepsLeft(r)' < StepsLeft(r) /\ StepsLeft(r)' <= StepsLeft(r)
<1> DEFINE v == LookupSteps(r)'
           w == LookupSteps(r)
<1>0. /\ run \in [Runner -> Call] /\ readers \cap parked = {}
      /\ v \in 1..3 /\ w \in 1..3
      /\ StepsLeft(r) = StepsFrom(run[r].at, w)
      /\ StepsLeft(r)' = StepsFrom(run'[r].at, v)
  BY DEF CacheInv, CacheTypeOK, LookupSteps, StepsLeft
<1>1. CASE EnterRead(r)
  <2>1. run[r].at \in {"read", "reread"} /\ run'[r] = run[r] /\ w = 3 /\ v < 3
    BY <1>0, <1>1 DEF EnterRead, RLock, LookupSteps
  <2> HIDE DEF v, w
  <2> QED
    BY <1>0, <2>1, StepsPerPlace
<1>2. CASE Lookup(r) \/ Relookup(r)
  <2>1. \/ run[r].at = "read" /\ run'[r].at \in {"got", "miss"}
        \/ run[r].at = "reread" /\ run'[r].at = "got"
    BY <1>0, <1>2 DEF Lookup, Relookup, Call
  <2> HIDE DEF v, w
  <2> QED
    BY <1>0, <2>1, StepsPerPlace
<1>3. CASE BeginCompile(r) \/ EnterCompile(r)
  <2>1. \/ run[r].at = "miss" /\ run'[r].at = "locking"
        \/ run[r].at = "locking" /\ run'[r].at = "load"
    BY <1>0, <1>3 DEF BeginCompile, EnterCompile, Call
  <2> HIDE DEF v, w
  <2> QED
    BY <1>0, <2>1, StepsPerPlace
<1>4. CASE Compile(r)
  <2>1. run[r].at = "load" /\ run'[r].at \in {"reread", "error"}
    BY <1>0, <1>4 DEF Compile, Call
  <2> HIDE DEF v, w
  <2> QED
    BY <1>0, <2>1, StepsPerPlace
<1>5. CASE FinishRun(r)
  <2>1. run[r].at \in {"got", "error"} /\ run'[r].at = "idle"
    BY <1>0, <1>5 DEF FinishRun, IdleRun
  <2> HIDE DEF v, w
  <2> QED
    BY <1>0, <2>1, StepsPerPlace
<1> QED
  BY <1>1, <1>2, <1>3, <1>4, <1>5 DEF RunStep

\* And no other goroutine further from its own.
LEMMA OthersNoFurther ==
  ASSUME CacheInv, NEW r \in Runner,
         \/ RunStep(r) \/ FinishRun(r)
         \/ \E p \in Plugin, b \in Artefact : StartRun(r, p, b),
         NEW s \in Runner, s # r
  PROVE  StepsLeft(s)' <= StepsLeft(s)
<1>0. run \in [Runner -> Call]
  BY DEF CacheInv, CacheTypeOK
<1>1. run'[s] = run[s]
  BY <1>0 DEF RunStep, StartRun, EnterRead, Lookup, BeginCompile, EnterCompile,
              Compile, Relookup, FinishRun
<1>2. /\ s \in readers => s \in readers'
      /\ s \in parked => s \in readers' \cup parked'
  BY DEF RunStep, StartRun, EnterRead, RLock, Lookup, BeginCompile, EnterCompile,
         AnnounceWriter, Compile, Unlock, Relookup, RUnlock, FinishRun,
         LockUnchanged
<1> QED
  BY <1>1, <1>2, LockIsKind

\* GetModule has no way back: what keeps a Run from returning can only be that
\* it is not let in or not scheduled, for any number of goroutines.
THEOREM CallsGoForward == CacheSpec => CallsAdvance
<1>1. ASSUME CacheInv, [CacheNext]_cacheVars
      PROVE  [/\ \A r \in Runner :
                   run[r].at # "idle" => StepsLeft(r)' <= StepsLeft(r)
              /\ \/ \E r \in Runner : StepsLeft(r)' < StepsLeft(r)
                 \/ \E r \in Runner :
                      run[r].at = "idle" /\ run'[r].at = "read"]_cacheVars
  <2> SUFFICES ASSUME CacheNext
               PROVE  /\ \A r \in Runner :
                           run[r].at # "idle" => StepsLeft(r)' <= StepsLeft(r)
                      /\ \/ \E r \in Runner : StepsLeft(r)' < StepsLeft(r)
                         \/ \E r \in Runner :
                              run[r].at = "idle" /\ run'[r].at = "read"
    BY <1>1
  <2>1. PICK r \in Runner : \/ RunStep(r) \/ FinishRun(r)
                            \/ \E p \in Plugin, b \in Artefact : StartRun(r, p, b)
    BY DEF CacheNext
  <2>2. \A s \in Runner \ {r} : StepsLeft(s)' <= StepsLeft(s)
    BY <1>1, <2>1, OthersNoFurther
  <2>3. CASE RunStep(r) \/ FinishRun(r)
    BY <1>1, <2>2, <2>3, OwnStepAdvances
  <2>4. CASE \E p \in Plugin, b \in Artefact : StartRun(r, p, b)
    <3>1. run[r].at = "idle" /\ run'[r].at = "read"
      BY <1>1, <2>4 DEF StartRun, CacheInv, CacheTypeOK
    <3> QED
      BY <2>2, <3>1
  <2> QED
    BY <2>1, <2>3, <2>4
<1>2. QED
  BY CacheInvInit, CacheInvNext, <1>1, PTL DEF CacheSpec, CallsAdvance

-----------------------------------------------------------------------------
\* The abstract call of a goroutine that does not move does not move either:
\* a call already answered keeps its answer because entries stay.
LEMMA OthersKeepTheirCalls ==
  ASSUME CacheInv, [CacheNext]_cacheVars, NEW s \in Runner, run'[s] = run[s]
  PROVE  CallOf(s)' = CallOf(s)
<1>1. run[s].at = "reread" => modules'[run[s].id] = modules[run[s].id]
  BY EntriesStay DEF CacheInv, EntryThere, CallBound
<1>2. QED
  BY <1>1 DEF CallOf

\* So a step of r moves the abstract call of r alone.
LEMMA OneCallMoves ==
  ASSUME CacheInv, [CacheNext]_cacheVars, NEW r \in Runner,
         \A s \in Runner \ {r} : run'[s] = run[s],
         NEW c, CallOf(r)' = c
  PROVE  CallsOf' = [CallsOf EXCEPT ![r] = c]
<1>1. \A s \in Runner \ {r} : CallOf(s)' = CallOf(s)
  BY OthersKeepTheirCalls
<1>2. QED
  BY <1>1 DEF CallsOf

\* A call begins.
LEMMA StartMaps ==
  ASSUME CacheInv, [CacheNext]_cacheVars,
         NEW r \in Runner, NEW p \in Plugin, NEW b \in Artefact, StartRun(r, p, b)
  PROVE  Memo!Invoke(r, p, b)
<1>0. run \in [Runner -> Call]
  BY DEF CacheInv, CacheTypeOK
<1> DEFINE c == [at |-> "called", id |-> p, bytes |-> b, res |-> NoModule]
<1>1. CallsOf[r].at = "idle" /\ modules' = modules
  BY DEF StartRun, CallsOf, CallOf
<1>2. CallOf(r)' = c /\ \A s \in Runner \ {r} : run'[s] = run[s]
  BY <1>0 DEF StartRun, CallOf
<1>3. CallsOf' = [CallsOf EXCEPT ![r] = c]
  <2> HIDE DEF c
  <2>1. QED
    BY <1>2, OneCallMoves
<1>4. QED
  BY <1>1, <1>3 DEF Memo!Invoke

\* A call takes effect when it learns what the entry is, or fills it.
LEMMA AnswerMaps ==
  ASSUME CacheInv, [CacheNext]_cacheVars,
         NEW r \in Runner, run[r].at \in {"read", "miss", "locking", "load"},
         \/ modules' = modules /\ modules[run[r].id] # NoModule
         \/ modules' = modules /\ run[r].bytes \notin Loadable
         \/ /\ modules[run[r].id] = NoModule /\ run[r].bytes \in Loadable
            /\ modules' = [modules EXCEPT ![run[r].id] = run[r].bytes],
         \A s \in Runner \ {r} : run'[s] = run[s],
         CallOf(r)' = [at |-> "answered", id |-> run[r].id,
                       bytes |-> run[r].bytes, res |-> modules'[run[r].id]]
  PROVE  Memo!Answer(r)
<1> DEFINE p == run[r].id
           b == run[r].bytes
           c == [at |-> "answered", id |-> p, bytes |-> b, res |-> modules'[p]]
<1>1. CallsOf[r] = [at |-> "called", id |-> p, bytes |-> b, res |-> NoModule]
  BY DEF CallsOf, CallOf
<1>2. modules' = IF modules[p] = NoModule /\ b \in Loadable
                 THEN [modules EXCEPT ![p] = b] ELSE modules
  OBVIOUS
<1>3. CallsOf' = [CallsOf EXCEPT ![r] = c]
  <2>1. CallOf(r)' = c
    OBVIOUS
  <2> HIDE DEF c
  <2>2. QED
    BY <2>1, OneCallMoves
<1>4. CallsOf[r].at = "called" /\ CallsOf[r].id = p /\ CallsOf[r].bytes = b
  BY <1>1
<1> HIDE DEF p, b
<1>5. QED
  BY <1>2, <1>3, <1>4 DEF Memo!Answer

\* A call returns.
LEMMA FinishMaps ==
  ASSUME CacheInv, [CacheNext]_cacheVars,
         NEW r \in Runner, FinishRun(r)
  PROVE  Memo!Return(r)
<1>0. run \in [Runner -> Call]
  BY DEF CacheInv, CacheTypeOK
<1> DEFINE c == [at |-> "idle", id |-> NoModule, bytes |-> NoModule,
                 res |-> NoModule]
<1>1. CallsOf[r].at = "answered" /\ modules' = modules
  BY DEF FinishRun, CallsOf, CallOf
<1>2. CallOf(r)' = c /\ \A s \in Runner \ {r} : run'[s] = run[s]
  BY <1>0 DEF FinishRun, CallOf, IdleRun
<1>3. CallsOf' = [CallsOf EXCEPT ![r] = c]
  <2> HIDE DEF c
  <2>1. QED
    BY <1>2, OneCallMoves
<1>4. QED
  BY <1>1, <1>3 DEF Memo!Return, Memo!NoCall

\* A step is hidden when neither the map nor any call is seen to move.
LEMMA HiddenMaps ==
  ASSUME modules' = modules, \A s \in Runner : CallOf(s)' = CallOf(s)
  PROVE  UNCHANGED Memo!memoVars
BY DEF Memo!memoVars, CallsOf

\* The first lookup answers when it hits.
LEMMA LookupMaps ==
  ASSUME CacheInv, [CacheNext]_cacheVars,
         NEW r \in Runner, Lookup(r)
  PROVE  Memo!Answer(r) \/ UNCHANGED Memo!memoVars
<1>0. run \in [Runner -> Call]
  BY DEF CacheInv, CacheTypeOK
<1>1. /\ run[r].at = "read" /\ modules' = modules
      /\ \A s \in Runner \ {r} : run'[s] = run[s]
  BY <1>0 DEF Lookup
<1>2. CASE modules[run[r].id] # NoModule
  <2>1. run'[r] = [at |-> "got", id |-> run[r].id, bytes |-> run[r].bytes,
                   mod |-> modules[run[r].id]]
    BY <1>0, <1>2 DEF Lookup, Call
  <2>2. CallOf(r)' = [at |-> "answered", id |-> run[r].id,
                      bytes |-> run[r].bytes, res |-> modules'[run[r].id]]
    BY <1>1, <2>1 DEF CallOf
  <2>3. QED
    BY AnswerMaps, <1>1, <1>2, <2>2
<1>3. CASE modules[run[r].id] = NoModule
  <2>1. /\ run'[r].at = "miss" /\ run'[r].id = run[r].id
        /\ run'[r].bytes = run[r].bytes
    BY <1>0, <1>3 DEF Lookup, Call
  <2>2. CallOf(r)' = CallOf(r)
    BY <1>1, <2>1 DEF CallOf
  <2>3. QED
    BY HiddenMaps, <1>1, <2>2, OthersKeepTheirCalls
<1>4. QED
  BY <1>2, <1>3

\* Compile answers, with the entry that is there now or with the error.
LEMMA CompileMaps ==
  ASSUME CacheInv, [CacheNext]_cacheVars,
         NEW r \in Runner, Compile(r)
  PROVE  Memo!Answer(r)
<1>0. run \in [Runner -> Call]
  BY DEF CacheInv, CacheTypeOK
<1>1. /\ run[r].at = "load" /\ run[r].mod = NoModule /\ run[r].id \in Plugin
      /\ \A s \in Runner \ {r} : run'[s] = run[s]
  BY <1>0 DEF Compile, CacheInv, CallBound
<1>2. \/ modules' = modules /\ modules[run[r].id] # NoModule
      \/ modules' = modules /\ run[r].bytes \notin Loadable
      \/ /\ modules[run[r].id] = NoModule /\ run[r].bytes \in Loadable
         /\ modules' = [modules EXCEPT ![run[r].id] = run[r].bytes]
  BY DEF Compile
<1>3. \/ run'[r].at = "reread" /\ modules'[run[r].id] # NoModule
      \/ run'[r].at = "error" /\ modules'[run[r].id] = NoModule
  BY <1>0 DEF Compile, Call
<1>4. /\ run'[r].id = run[r].id /\ run'[r].bytes = run[r].bytes
      /\ run'[r].mod = run[r].mod
  BY <1>0 DEF Compile, Call
<1>5. CallOf(r)' = [at |-> "answered", id |-> run[r].id,
                    bytes |-> run[r].bytes, res |-> modules'[run[r].id]]
  BY <1>1, <1>3, <1>4 DEF CallOf
<1>6. QED
  BY AnswerMaps, <1>1, <1>2, <1>5

\* Waiting for the lock is not seen.
LEMMA WaitMaps ==
  ASSUME CacheInv, [CacheNext]_cacheVars,
         NEW r \in Runner, EnterRead(r) \/ BeginCompile(r) \/ EnterCompile(r)
  PROVE  UNCHANGED Memo!memoVars
<1>0. run \in [Runner -> Call]
  BY DEF CacheInv, CacheTypeOK
<1>1. modules' = modules /\ \A s \in Runner \ {r} : run'[s] = run[s]
  BY <1>0 DEF EnterRead, BeginCompile, EnterCompile
<1>2. CallOf(r)' = CallOf(r)
  <2>1. CASE EnterRead(r)
    BY <2>1, OthersKeepTheirCalls DEF EnterRead
  <2>2. CASE BeginCompile(r) \/ EnterCompile(r)
    <3>1. /\ run[r].at \in {"miss", "locking"}
          /\ run'[r].at \in {"locking", "load"}
          /\ run'[r].id = run[r].id /\ run'[r].bytes = run[r].bytes
      BY <1>0, <2>2 DEF BeginCompile, EnterCompile, Call
    <3>2. QED
      BY <3>1 DEF CallOf
  <2>3. QED
    BY <2>1, <2>2
<1>3. QED
  BY HiddenMaps, <1>1, <1>2, OthersKeepTheirCalls

\* Nor is the second lookup, which finds what was answered.
LEMMA RelookupMaps ==
  ASSUME CacheInv, [CacheNext]_cacheVars,
         NEW r \in Runner, Relookup(r)
  PROVE  UNCHANGED Memo!memoVars
<1>0. run \in [Runner -> Call]
  BY DEF CacheInv, CacheTypeOK
<1>1. /\ run[r].at = "reread" /\ modules' = modules
      /\ \A s \in Runner \ {r} : run'[s] = run[s]
  BY <1>0 DEF Relookup
<1>2. run'[r] = [at |-> "got", id |-> run[r].id, bytes |-> run[r].bytes,
                 mod |-> modules[run[r].id]]
  BY <1>0 DEF Relookup, Call
<1>3. CallOf(r)' = CallOf(r)
  BY <1>1, <1>2 DEF CallOf
<1>4. QED
  BY HiddenMaps, <1>1, <1>3, OthersKeepTheirCalls

\* So what a call does by itself is its answer, or hidden.
LEMMA RunStepMaps ==
  ASSUME CacheInv, [CacheNext]_cacheVars, NEW r \in Runner, RunStep(r)
  PROVE  Memo!Answer(r) \/ UNCHANGED Memo!memoVars
BY LookupMaps, CompileMaps, WaitMaps, RelookupMaps DEF RunStep

\* Every step of the engine is one of the atomic object, or none.
LEMMA CacheStepRefines ==
  CacheInv /\ [CacheNext]_cacheVars => [Memo!Next]_(Memo!memoVars)
<1> SUFFICES ASSUME CacheInv, [CacheNext]_cacheVars
             PROVE  Memo!Next \/ UNCHANGED Memo!memoVars
  OBVIOUS
<1>1. CASE \E r \in Runner, p \in Plugin, b \in Artefact : StartRun(r, p, b)
  BY <1>1, StartMaps DEF Memo!Next
<1>2. CASE \E r \in Runner : RunStep(r)
  BY <1>2, RunStepMaps DEF Memo!Next
<1>3. CASE \E r \in Runner : FinishRun(r)
  BY <1>3, FinishMaps DEF Memo!Next
<1>4. CASE UNCHANGED cacheVars
  BY <1>4, HiddenMaps, OthersKeepTheirCalls DEF cacheVars
<1>5. QED
  BY <1>1, <1>2, <1>3, <1>4 DEF CacheNext, Memo!Next

\* GetModule is linearizable: its two lookups, the lock and the loads of other
\* goroutines in between amount to one atomic step of the memo table.
THEOREM CacheImplementsMemo == CacheSpec => Memo!SafeSpec
<1>1. CacheInit => Memo!Init
  BY DEF CacheInit, Memo!Init, CallsOf, CallOf, IdleRun, Memo!NoCall
<1>2. QED
  BY CacheInvInit, CacheInvNext, CacheStepRefines, <1>1, PTL
     DEF CacheSpec, Memo!SafeSpec
=============================================================================
