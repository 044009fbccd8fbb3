----------------------------- MODULE GuestProofs -----------------------------
(***************************************************************************)
(* Theorems about GuestRun, for every budget and memory limit.             *)
(***************************************************************************)
EXTENDS GuestRun, TLAPS

\* The points of Run at which its result has been made.
Reported == {"returning", "returned"}

\* A trap ends Run at once, so a cause is only ever recorded with the result
\* made from it: the inductive form of FuelIsReported and LimitIsReported.
CauseReported ==
    /\ trapped = "fuel" => at \in Reported /\ result.status = "out_of_fuel"
    /\ trapped = "limit" /\ "fuel" \notin NameWords =>
           at \in Reported /\ result.status = "out_of_memory"
    /\ result.status = "out_of_fuel" /\ "fuel" \notin NameWords =>
           trapped = "fuel"

\* Metrics are made once, as Run returns.
NoEarlyResult == at \notin Reported => trapped = "none"

\* A call that Run has deferred.
IsDeferred(c, f) ==
    \E i \in 1..Len(deferred) : deferred[i] = [call |-> c, file |-> f]

\* Every descriptor and every file, except those whose removal has failed, has
\* its deferred call, and Run is left when none remain.
DiskInv ==
    /\ \A f \in open : IsDeferred("close", f)
    /\ \A f \in files \ unremoved : IsDeferred("remove", f)
    /\ at \in Ended => deferred = <<>>

\* The points of Run before it has an instance.
Setup == {"stdout", "stderr", "instance"}

\* Before there is an instance there is no memory; and the calls that have been
\* deferred before each CreateTemp.
SetupInv ==
    /\ at \in Setup => pages = 0
    /\ at = "stdout" => Len(deferred) = 0
    /\ at = "stderr" => Len(deferred) = 2

GuestInv == TypeOK /\ NoEarlyResult /\ CauseReported /\ DiskInv /\ SetupInv

\* Every text and every log get one of the statuses a run can have.
LEMMA StatusOfType ==
    \A text, logs : StatusOf(text, logs) \in Status
  BY DEF StatusOf, Status

\* Every run starts with a full budget and nothing on disk.
LEMMA GuestInit == Init => GuestInv
<1> SUFFICES ASSUME Init PROVE GuestInv
  OBVIOUS
<1>1. 0 \in 0..MaxFuel /\ MaxFuel \in 0..MaxFuel /\ 0 \in 0..MaxPages
  BY RunAssumption
<1>2. NoResult \in [status: Status, memory: 0..MaxPages, fuel: 0..MaxFuel]
  BY <1>1 DEF NoResult, Status
<1>3. deferred \in Seq(DeferredCall) /\ Len(deferred) = 0
  BY DEF Init
<1>4. TypeOK
  BY <1>1, <1>2, <1>3 DEF Init, TypeOK, Cause
<1> QED
  BY <1>3, <1>4 DEF Init, GuestInv, NoEarlyResult, CauseReported, NoResult,
                    DiskInv, SetupInv, Ended, Reported

-----------------------------------------------------------------------------
(* Temporary files.                                                        *)

\* A step that leaves the disk alone and is not the last one of Run.
LEMMA DiskQuiet ==
    ASSUME DiskInv, UNCHANGED disk, at' \notin Setup \cup Ended
    PROVE  DiskInv' /\ SetupInv'
  BY DEF DiskInv, SetupInv, Setup, IsDeferred, disk

\* A file that is created gets its two deferred calls; all others keep theirs.
LEMMA DiskCreate ==
    ASSUME TypeOK, DiskInv, NEW f \in Stream, Len(deferred) <= 2,
           files' = files \cup {f}, open' = open \cup {f}, Defers(f),
           UNCHANGED unremoved, at' \notin Ended
    PROVE  /\ DiskInv'
           /\ deferred' \in Seq(DeferredCall)
           /\ Len(deferred') = Len(deferred) + 2
<1> DEFINE calls == <<[call |-> "close", file |-> f], [call |-> "remove", file |-> f]>>
<1>1. calls \in Seq(DeferredCall) /\ deferred \in Seq(DeferredCall)
  BY DEF DeferredCall, TypeOK
<1>2. deferred' = calls \o deferred
  BY DEF Defers
<1>3. /\ deferred' \in Seq(DeferredCall)
      /\ Len(deferred') = Len(deferred) + 2
      /\ deferred'[1] = [call |-> "close", file |-> f]
      /\ deferred'[2] = [call |-> "remove", file |-> f]
      /\ \A i \in 1..Len(deferred) : deferred'[i + 2] = deferred[i]
  BY <1>1, <1>2
<1>4. Len(deferred) \in Nat
  BY <1>1
<1>5. ASSUME NEW c, NEW g, IsDeferred(c, g) PROVE IsDeferred(c, g)'
  <2>1. PICK i \in 1..Len(deferred) : deferred[i] = [call |-> c, file |-> g]
    BY <1>5 DEF IsDeferred
  <2>2. i + 2 \in 1..Len(deferred') /\ deferred'[i + 2] = [call |-> c, file |-> g]
    BY <2>1, <1>3, <1>4
  <2> QED
    BY <2>2 DEF IsDeferred
<1>6. IsDeferred("close", f)' /\ IsDeferred("remove", f)'
  <2>1. 1 \in 1..Len(deferred') /\ 2 \in 1..Len(deferred')
    BY <1>3, <1>4
  <2> QED
    BY <2>1, <1>3 DEF IsDeferred
<1> QED
  BY <1>3, <1>5, <1>6 DEF DiskInv

\* A CreateTemp that fails makes Run return and leaves the disk alone; one that
\* succeeds leaves a type-correct state.
LEMMA CreateStep ==
    ASSUME GuestInv, NEW f \in Stream, NEW next \in {"stderr", "instance"},
           Creates(f, next), at \in {"stdout", "stderr"},
           at = "stdout" <=> next = "stderr"
    PROVE  GuestInv'
<1>1. /\ UNCHANGED <<unremoved, fuel, pages, printed, memoryUsed, handed, grown,
                     trapped, result>>
      /\ trapped = "none"
  BY DEF Creates, buffers, GuestInv, NoEarlyResult, Reported
<1>2. CASE /\ files' = files \cup {f}
           /\ open' = open \cup {f}
           /\ Defers(f)
           /\ at' = next
  <2>1. TypeOK /\ DiskInv /\ Len(deferred) = (IF next = "stderr" THEN 0 ELSE 2)
    BY DEF GuestInv, SetupInv
  <2>2. /\ DiskInv'
        /\ deferred' \in Seq(DeferredCall)
        /\ Len(deferred') = Len(deferred) + 2
    BY <1>1, <1>2, <2>1, DiskCreate DEF Ended
  <2>3. TypeOK' /\ SetupInv'
    BY <1>1, <1>2, <2>1, <2>2 DEF GuestInv, TypeOK, SetupInv, Setup
  <2> QED
    BY <1>1, <1>2, <2>2, <2>3 DEF GuestInv, NoEarlyResult, CauseReported, Reported
<1>3. CASE Return /\ UNCHANGED <<files, open, deferred>>
  <2>1. TypeOK'
    BY <1>1, <1>3 DEF GuestInv, TypeOK, Return, Leaving
  <2>2. DiskInv' /\ SetupInv'
    BY <1>1, <1>3, DiskQuiet DEF GuestInv, Return, Setup, Ended, disk
  <2> QED
    BY <1>1, <1>3, <2>1, <2>2
       DEF GuestInv, Return, NoEarlyResult, CauseReported, Reported
<1> QED
  BY <1>2, <1>3 DEF Creates

\* A deferred call does for its file what it was deferred for.
LEMMA DeferredStep == GuestInv /\ RunDeferred => GuestInv'
<1> SUFFICES ASSUME GuestInv, RunDeferred PROVE GuestInv'
  OBVIOUS
<1> DEFINE top == Head(deferred)
<1>1. /\ deferred \in Seq(DeferredCall) /\ Len(deferred) \in Nat
      /\ Len(deferred) <= 4 /\ deferred # <<>>
  BY DEF RunDeferred, GuestInv, TypeOK
<1>2. /\ deferred' = Tail(deferred) /\ deferred' \in Seq(DeferredCall)
      /\ Len(deferred') = Len(deferred) - 1
      /\ top \in DeferredCall /\ top = deferred[1]
      /\ \A i \in 1..Len(deferred') : deferred'[i] = deferred[i + 1]
  BY <1>1 DEF RunDeferred
<1>3. at' = at /\ at \in Leaving
      /\ UNCHANGED <<fuel, pages, printed, memoryUsed, handed, grown, trapped, result>>
  BY DEF RunDeferred, buffers
<1>4. \A c, g : IsDeferred(c, g) => top = [call |-> c, file |-> g] \/ IsDeferred(c, g)'
  <2> SUFFICES ASSUME NEW c, NEW g, IsDeferred(c, g), top # [call |-> c, file |-> g]
               PROVE  IsDeferred(c, g)'
    OBVIOUS
  <2>1. PICK i \in 1..Len(deferred) : deferred[i] = [call |-> c, file |-> g]
    BY DEF IsDeferred
  <2>2. i # 1
    BY <1>2, <2>1
  <2>3. i - 1 \in 1..Len(deferred') /\ deferred'[i - 1] = deferred[i]
    BY <1>1, <1>2, <2>1, <2>2
  <2> QED
    BY <2>1, <2>3 DEF IsDeferred
<1>5. CASE top.call = "close"
  <2>1. open' = open \ {top.file} /\ UNCHANGED <<files, unremoved>>
    BY <1>5 DEF RunDeferred, Closes
  <2>2. /\ \A f \in open' : IsDeferred("close", f)'
        /\ \A f \in files' \ unremoved' : IsDeferred("remove", f)'
    BY <1>4, <1>5, <2>1 DEF GuestInv, DiskInv
  <2> QED
    BY <1>1, <1>2, <1>3, <2>1, <2>2
       DEF GuestInv, TypeOK, NoEarlyResult, CauseReported, DiskInv, SetupInv,
           Setup, Reported, Leaving, Ended
<1>6. CASE top.call # "close"
  <2>1. top.call = "remove" /\ top.file \in Stream
    BY <1>2, <1>6 DEF DeferredCall
  <2>2. /\ UNCHANGED open
        /\ \/ files' = files \ {top.file} /\ UNCHANGED unremoved
           \/ unremoved' = unremoved \cup {top.file} /\ UNCHANGED files
    BY <1>6 DEF RunDeferred, Removes
  <2>3. /\ \A f \in open' : IsDeferred("close", f)'
        /\ \A f \in files' \ unremoved' : IsDeferred("remove", f)'
    BY <1>4, <2>1, <2>2 DEF GuestInv, DiskInv
  <2> QED
    BY <1>1, <1>2, <1>3, <2>1, <2>2, <2>3
       DEF GuestInv, TypeOK, NoEarlyResult, CauseReported, DiskInv, SetupInv,
           Setup, Reported, Leaving, Ended
<1> QED
  BY <1>5, <1>6

\* Run is left with no deferred call to run.
LEMMA LeaveStep == GuestInv /\ Leave => GuestInv'
  BY DEF GuestInv, Leave, TypeOK, NoEarlyResult, CauseReported, DiskInv, SetupInv,
         Setup, IsDeferred, Reported, Leaving, Ended, disk, buffers

-----------------------------------------------------------------------------
(* Results.                                                                *)

\* Metrics made from the state of a run have their types.
LEMMA FinishType ==
    ASSUME TypeOK, NEW status \in Status, Finish(status),
           memoryUsed' \in 0..MaxPages
    PROVE  result' \in [status: Status, memory: 0..MaxPages, fuel: 0..MaxFuel]
<1>1. MaxFuel - fuel \in 0..MaxFuel
  BY RunAssumption DEF TypeOK
<1> QED
  BY <1>1 DEF Finish

\* A trap keeps the invariant, if its cause gets the status it should have.
LEMMA TrapStep ==
    ASSUME GuestInv, NEW cause \in Cause, NEW text, TrapsWith(cause, text),
           UNCHANGED <<fuel, pages>>, printed' \subseteq Word,
           cause = "fuel" <=> "fuel" \in text,
           cause = "limit" => "alloc" \in printed'
    PROVE  GuestInv'
<1>1. PICK w \in SUBSET NameWords : Finish(StatusOf(text \cup w, printed'))
  BY DEF TrapsWith
<1> DEFINE status == StatusOf(text \cup w, printed')
<1>2. status \in Status
  BY StatusOfType
<1>3. /\ memoryUsed' \in 0..MaxPages /\ trapped' = cause
      /\ UNCHANGED disk /\ UNCHANGED <<handed, grown>>
  BY DEF TrapsWith, buffers, GuestInv, TypeOK
<1>4. at' = "returning" /\ result'.status = status
  BY <1>1 DEF Finish, Return
<1>5. cause = "fuel" => status = "out_of_fuel"
  BY DEF StatusOf
<1>6. "fuel" \notin NameWords =>
        /\ cause = "limit" => status = "out_of_memory"
        /\ status = "out_of_fuel" => cause = "fuel"
  BY DEF StatusOf
<1> HIDE DEF status
<1>7. TypeOK'
  <2>1. result' \in [status: Status, memory: 0..MaxPages, fuel: 0..MaxFuel]
    BY <1>1, <1>2, <1>3, FinishType DEF GuestInv, status
  <2> QED
    BY <2>1, <1>3, <1>4 DEF GuestInv, TypeOK, Leaving, disk
<1>8. DiskInv' /\ SetupInv'
  BY <1>3, <1>4, DiskQuiet DEF GuestInv, Setup, Ended
<1> QED
  BY <1>3, <1>4, <1>5, <1>6, <1>7, <1>8
     DEF GuestInv, NoEarlyResult, CauseReported, Reported

\* Run returns with a status other than a trap's, from a state with no cause.
LEMMA ReturnStep ==
    ASSUME GuestInv, at \notin Reported, NEW status \in Status \ {"out_of_fuel"},
           Finish(status), memoryUsed' \in 0..MaxPages, pages' \in 0..MaxPages,
           handed' \subseteq [ptr: Uint32s, len: Uint32s], grown' \in 0..pages',
           UNCHANGED disk, UNCHANGED <<fuel, printed, trapped>>
    PROVE  GuestInv'
<1>1. result' \in [status: Status, memory: 0..MaxPages, fuel: 0..MaxFuel]
  BY FinishType DEF GuestInv
<1>2. trapped' = "none" /\ at' = "returning" /\ result'.status = status
  BY DEF GuestInv, NoEarlyResult, Finish, Return
<1>3. DiskInv' /\ SetupInv'
  BY <1>2, DiskQuiet DEF GuestInv, Setup, Ended
<1>4. TypeOK'
  BY <1>1, <1>2 DEF GuestInv, TypeOK, Leaving, disk
<1> QED
  BY <1>2, <1>3, <1>4 DEF GuestInv, NoEarlyResult, CauseReported

\* The run goes on, or is given up without a result: nothing is recorded.
LEMMA QuietStep ==
    ASSUME GuestInv, trapped = "none", UNCHANGED <<trapped, result>>, TypeOK',
           UNCHANGED disk, at' \notin Setup \cup Ended
    PROVE  GuestInv'
<1>1. DiskInv' /\ SetupInv'
  BY DiskQuiet DEF GuestInv
<1> QED
  BY <1>1 DEF GuestInv, NoEarlyResult, CauseReported

\* Buffers that are handed over are records of words.
LEMMA HandedType ==
    ASSUME GuestInv, NEW ptr \in Uint32s, NEW len \in Uint32s \cup {InputSize},
           Hands(ptr, len)
    PROVE  handed' \subseteq [ptr: Uint32s, len: Uint32s]
<1>1. InputSize \in Uint32s
  BY RunAssumption DEF Uint32s, WordSize
<1> QED
  BY <1>1 DEF Hands, GuestInv, TypeOK

\* Every step of a run keeps the invariant.
LEMMA GuestStepInv == GuestInv /\ [Next]_vars => GuestInv'
<1> SUFFICES ASSUME GuestInv, [Next]_vars PROVE GuestInv'
  OBVIOUS
<1> USE DEF GuestCall, Setup, Ended, Leaving, Reported, buffers
<1>0. at \notin Reported => trapped = "none"
  BY DEF GuestInv, NoEarlyResult
<1>1. CASE CreateStdout
  BY <1>1, CreateStep DEF CreateStdout, Stream
<1>2. CASE CreateStderr
  BY <1>2, CreateStep DEF CreateStderr, Stream
<1>3. CASE Instantiate
  <2>1. /\ pages' \in 0..MaxPages /\ memoryUsed' \in 0..MaxPages
        /\ grown' \in 0..pages' /\ handed' \subseteq [ptr: Uint32s, len: Uint32s]
    BY <1>3, RunAssumption DEF Instantiate, GuestInv, TypeOK, SetupInv
  <2>2. /\ at \notin Reported /\ UNCHANGED disk
        /\ UNCHANGED <<fuel, printed, trapped, handed>>
        /\ "runtime_error" \in Status \ {"out_of_fuel"}
        /\ "out_of_memory" \in Status \ {"out_of_fuel"}
    BY <1>3 DEF Instantiate, Status
  <2>3. CASE Finish("runtime_error") \/ Finish("out_of_memory")
    BY <2>1, <2>2, <2>3, ReturnStep
  <2>4. CASE UNCHANGED result /\ at' \in {"allocate"} \cup Leaving
    <3>1. TypeOK'
      BY <2>1, <2>2, <2>4 DEF GuestInv, TypeOK, disk
    <3> QED
      BY <3>1, <2>2, <2>4, <1>0, QuietStep
  <2> QED
    BY <1>3, <2>3, <2>4 DEF Instantiate
<1>4. CASE GuestStep
  <2>1. fuel' \in 0..MaxFuel /\ pages' \in 0..MaxPages /\ printed' \subseteq Word
    BY <1>4, RunAssumption DEF GuestStep, Metered, Grows, GuestInv, TypeOK
  <2>2. /\ at' = at /\ at \in GuestCall /\ UNCHANGED disk
        /\ UNCHANGED <<memoryUsed, handed, trapped, result>>
    BY <1>4 DEF GuestStep
  <2>3. grown' \in 0..pages'
    <3>1. pages \in Nat /\ MaxPages \in Nat /\ grown \in Nat /\ grown <= pages
      BY RunAssumption DEF GuestInv, TypeOK
    <3>2. PICK n \in 0..(MaxPages - pages) : pages' = pages + n /\ grown' = grown + n
      BY <1>4 DEF GuestStep, Grows
    <3> QED
      BY <3>1, <3>2
  <2>4. TypeOK'
    BY <2>1, <2>2, <2>3 DEF GuestInv, TypeOK, disk
  <2> QED
    BY <2>2, <2>4, <1>0, QuietStep
<1>5. CASE OutOfFuel
  BY <1>5, TrapStep DEF OutOfFuel, GuestInv, TypeOK, Cause
<1>6. CASE LimitHit
  BY <1>6, TrapStep DEF LimitHit, GuestInv, TypeOK, Cause, Word
<1>7. CASE OutOfBounds
  BY <1>7, TrapStep DEF OutOfBounds, GuestInv, TypeOK, Cause
<1>8. CASE GuestPanics
  BY <1>8, TrapStep DEF GuestPanics, GuestInv, TypeOK, Cause
<1>9. CASE AllocateReturns
  <2>1. /\ memoryUsed' \in 0..MaxPages /\ pages' \in 0..MaxPages
        /\ at \notin Reported /\ UNCHANGED <<fuel, pages, printed, trapped>>
        /\ grown' \in 0..pages' /\ UNCHANGED disk
    BY <1>9, RunAssumption DEF AllocateReturns, Panics, GuestInv, TypeOK
  <2>2. handed' \subseteq [ptr: Uint32s, len: Uint32s]
    BY <1>9, HandedType DEF AllocateReturns
  <2>3. CASE Finish("out_of_memory")
    BY <2>1, <2>2, <2>3, ReturnStep DEF Status
  <2>4. CASE UNCHANGED result /\ at' \in {"process", "panicking"}
    <3>1. TypeOK'
      BY <2>1, <2>2, <2>4 DEF GuestInv, TypeOK, disk
    <3> QED
      BY <3>1, <2>1, <2>4, <1>0, QuietStep
  <2> QED
    BY <1>9, <2>3, <2>4 DEF AllocateReturns, Panics
<1>10. CASE ProcessReturns
  <2>1. /\ memoryUsed' \in 0..MaxPages /\ pages' \in 0..MaxPages
        /\ at \notin Reported /\ UNCHANGED <<fuel, pages, printed, trapped>>
        /\ grown' \in 0..pages' /\ UNCHANGED disk
    BY <1>10, RunAssumption DEF ProcessReturns, SizeAfterProcess, GuestInv, TypeOK
  <2>2. handed' \subseteq [ptr: Uint32s, len: Uint32s]
    BY <1>10, HandedType DEF ProcessReturns
  <2>3. CASE Finish("success")
    BY <2>1, <2>2, <2>3, ReturnStep DEF Status
  <2>4. CASE UNCHANGED result /\ at' \in {"deallocate", "panicking"}
    <3>1. TypeOK'
      BY <2>1, <2>2, <2>4 DEF GuestInv, TypeOK, disk
    <3> QED
      BY <3>1, <2>1, <2>4, <1>0, QuietStep
  <2> QED
    BY <1>10, <2>3, <2>4 DEF ProcessReturns, Panics
<1>11. CASE DeallocateEnds
  <2>1. /\ memoryUsed' \in 0..MaxPages /\ pages' \in 0..MaxPages
        /\ at \notin Reported /\ UNCHANGED <<fuel, printed, trapped>>
        /\ handed' \subseteq [ptr: Uint32s, len: Uint32s]
        /\ grown' \in 0..pages' /\ UNCHANGED disk
        /\ Finish("success") /\ "success" \in Status \ {"out_of_fuel"}
    BY <1>11 DEF DeallocateEnds, GuestInv, TypeOK, Status
  <2> QED
    BY <2>1, ReturnStep
<1>12. CASE RunDeferred
  BY <1>12, DeferredStep
<1>13. CASE Leave
  BY <1>13, LeaveStep
<1>14. CASE UNCHANGED vars
  BY <1>14 DEF vars, disk, GuestInv, TypeOK, NoEarlyResult, CauseReported, DiskInv,
               SetupInv, IsDeferred
<1> QED
  BY <1>1, <1>2, <1>3, <1>4, <1>5, <1>6, <1>7, <1>8, <1>9, <1>10, <1>11, <1>12,
     <1>13, <1>14 DEF Next

\* A run keeps to its budget and its limit, whatever their values and
\* whatever the guest does.
THEOREM RunTypeCorrect == Spec => []TypeOK
<1>1. GuestInv => TypeOK
  BY DEF GuestInv
<1> QED
  BY <1>1, GuestInit, GuestStepInv, PTL DEF Spec

\* When Run has been left, on every path, both descriptors are closed and a
\* temporary file is there only if its removal failed.
THEOREM RunCleansUp == Spec => []FilesRemoved
<1>1. GuestInv => FilesRemoved
  BY DEF GuestInv, DiskInv, IsDeferred, FilesRemoved
<1> QED
  BY <1>1, GuestInit, GuestStepInv, PTL DEF Spec

\* A run cut for its fuel is reported as out_of_fuel, whatever the guest's
\* functions are called and whatever it printed, and no other run is while no
\* function of the guest has fuel in its name.
THEOREM FuelCutsReported == Spec => []FuelIsReported
<1>1. GuestInv => FuelIsReported
  BY DEF GuestInv, CauseReported, FuelIsReported, Reported
<1> QED
  BY <1>1, GuestInit, GuestStepInv, PTL DEF Spec

\* A run that hit the memory limit is reported as out_of_memory, while no
\* function of the guest has fuel in its name.
THEOREM LimitCutsReported == Spec => []LimitIsReported
<1>1. GuestInv => LimitIsReported
  BY DEF GuestInv, CauseReported, LimitIsReported, Reported
<1> QED
  BY <1>1, GuestInit, GuestStepInv, PTL DEF Spec

-----------------------------------------------------------------------------
(* The end of a run.                                                       *)

\* The phases left at each point.
LEMMA PhasesPerPoint ==
    \A calls :
        /\ PhasesFrom("stdout", calls) = 11 /\ PhasesFrom("stderr", calls) = 10
        /\ PhasesFrom("instance", calls) = 9 /\ PhasesFrom("allocate", calls) = 8
        /\ PhasesFrom("process", calls) = 7 /\ PhasesFrom("deallocate", calls) = 6
        /\ PhasesFrom("returning", calls) = 1 + calls
        /\ PhasesFrom("panicking", calls) = 1 + calls
        /\ PhasesFrom("returned", calls) = 0 /\ PhasesFrom("panicked", calls) = 0
  BY DEF PhasesFrom, Leaving, Ended

\* A step of Run goes on to a later phase or to the next deferred call; one of
\* the guest uses fuel.
LEMMA StepCosts ==
    ASSUME GuestInv, GuestInv', Next
    PROVE  /\ fuel \in Nat
           /\ Len(deferred) \in 0..4 /\ Len(deferred') \in 0..4
           /\ \/ at' = at /\ at \in GuestCall /\ fuel' = fuel - 1
              \/ /\ fuel' = fuel
                 /\ \/ at = "stdout" /\ at' \in {"stderr", "returning"}
                    \/ at = "stderr" /\ at' \in {"instance", "returning"}
                    \/ at = "instance" /\ at' \in {"allocate"} \cup Leaving
                    \/ at = "allocate" /\ at' \in {"process"} \cup Leaving
                    \/ at = "process" /\ at' \in {"deallocate"} \cup Leaving
                    \/ at = "deallocate" /\ at' \in Leaving
                    \/ /\ at \in Leaving /\ at' = at
                       /\ Len(deferred') = Len(deferred) - 1
                    \/ at \in Leaving /\ at' \in Ended
<1>0. fuel \in Nat /\ Len(deferred) \in 0..4 /\ Len(deferred') \in 0..4
  <2>1. fuel \in Nat
    BY RunAssumption DEF GuestInv, TypeOK
  <2>2. deferred \in Seq(DeferredCall) /\ deferred' \in Seq(DeferredCall)
    BY DEF GuestInv, TypeOK
  <2>3. Len(deferred) \in Nat /\ Len(deferred') \in Nat
    BY <2>2
  <2>4. Len(deferred) <= 4 /\ Len(deferred') <= 4
    BY DEF GuestInv, TypeOK
  <2>5. \A n \in Nat : n <= 4 => n \in 0..4
    OBVIOUS
  <2> QED
    BY <2>1, <2>3, <2>4, <2>5
<1> USE DEF Leaving
<1>1. CASE CreateStdout \/ CreateStderr \/ Instantiate
  BY <1>0, <1>1 DEF CreateStdout, CreateStderr, Creates, Instantiate, Finish, Return
<1>2. CASE GuestStep
  BY <1>0, <1>2 DEF GuestStep, Metered
<1>3. CASE OutOfFuel \/ LimitHit \/ OutOfBounds \/ GuestPanics
  BY <1>0, <1>3 DEF OutOfFuel, LimitHit, OutOfBounds, GuestPanics, TrapsWith,
                    Finish, Return
<1>4. CASE AllocateReturns
  BY <1>0, <1>4 DEF AllocateReturns, Finish, Return, Panics
<1>5. CASE ProcessReturns
  BY <1>0, <1>5 DEF ProcessReturns, Finish, Return, Panics
<1>6. CASE DeallocateEnds
  BY <1>0, <1>6 DEF DeallocateEnds, Finish, Return
<1>7. CASE RunDeferred
  <2>1. deferred \in Seq(DeferredCall) /\ deferred # <<>> /\ deferred' = Tail(deferred)
    BY <1>7 DEF RunDeferred, GuestInv, TypeOK
  <2>2. Len(deferred') = Len(deferred) - 1
    BY <2>1
  <2> QED
    BY <1>0, <1>7, <2>2 DEF RunDeferred
<1>8. CASE Leave
  BY <1>0, <1>8 DEF Leave, Ended
<1> QED
  BY <1>1, <1>2, <1>3, <1>4, <1>5, <1>6, <1>7, <1>8 DEF Next

\* However long its guest would go on, a run takes at most MaxFuel + 11 steps,
\* its deferred calls included, for every budget.
THEOREM RunsAreBounded == Spec => RunAdvances
<1>1. ASSUME GuestInv, GuestInv', [Next]_vars
      PROVE  [fuel' + PhasesFrom(at', Len(deferred'))
                  < fuel + PhasesFrom(at, Len(deferred))]_vars
  <2> SUFFICES ASSUME Next
               PROVE  fuel' + PhasesFrom(at', Len(deferred'))
                          < fuel + PhasesFrom(at, Len(deferred))
    BY <1>1
  <2> DEFINE n == Len(deferred)
             m == Len(deferred')
  <2>1. n \in 0..4 /\ m \in 0..4 /\ fuel \in Nat
    BY <1>1, StepCosts
  <2> HIDE DEF n, m
  <2>2. CASE at' = at /\ at \in GuestCall /\ fuel' = fuel - 1
    <3>1. PhasesFrom(at', m) = PhasesFrom(at, n) /\ PhasesFrom(at, n) \in Nat
      BY <2>2, PhasesPerPoint DEF GuestCall
    <3> QED
      BY <2>1, <2>2, <3>1 DEF n, m
  <2>3. CASE fuel' = fuel
    <3>1. CASE at \in Leaving /\ ((at' = at /\ m = n - 1) \/ at' \in Ended)
      <4>1. /\ PhasesFrom(at, n) = 1 + n
            /\ PhasesFrom(at', m) \in {n, 0}
        BY <2>1, <3>1, PhasesPerPoint DEF Leaving, Ended
      <4> QED
        BY <2>1, <2>3, <4>1 DEF n, m
    <3>2. CASE at \in Setup \cup GuestCall /\ at' \in Leaving
      <4>1. PhasesFrom(at, n) \in 6..11 /\ PhasesFrom(at', m) = 1 + m
        BY <3>2, PhasesPerPoint DEF Setup, GuestCall, Leaving
      <4>2. \A f \in Nat, p \in 6..11, k \in 0..4 : f + (1 + k) < f + p
        OBVIOUS
      <4> QED
        BY <2>1, <2>3, <4>1, <4>2 DEF n, m
    <3>3. CASE \/ at = "stdout" /\ at' = "stderr"
               \/ at = "stderr" /\ at' = "instance"
               \/ at = "instance" /\ at' = "allocate"
               \/ at = "allocate" /\ at' = "process"
               \/ at = "process" /\ at' = "deallocate"
      <4>1. PhasesFrom(at, n) \in 6..11 /\ PhasesFrom(at', m) = PhasesFrom(at, n) - 1
        BY <3>3, PhasesPerPoint
      <4> QED
        BY <2>1, <2>3, <4>1 DEF n, m
    <3> QED
      BY <1>1, <2>2, <2>3, <3>1, <3>2, <3>3, StepCosts
         DEF n, m, Setup, GuestCall, Leaving
  <2> QED
    BY <1>1, <2>2, <2>3, StepCosts
<1> QED
  BY <1>1, GuestInit, GuestStepInv, PTL DEF Spec, RunAdvances

-----------------------------------------------------------------------------
(* The metrics' memory.                                                    *)

\* memoryUsed lags behind the guest's memory by what the guest call grew it by
\* that Run is in: the inductive form of MemoryReported.
MemoryInv ==
    /\ memoryUsed <= pages
    /\ at \in GuestCall => memoryUsed + grown = pages
    /\ at \in Setup => grown = 0
    /\ at \notin Reported => result = NoResult
    /\ at \in Reported =>
           /\ result.memory <= pages
           /\ result.status = "success" \/ trapped # "none" =>
                  result.memory + grown = pages

\* Nothing is used and nothing reported when a run starts.
LEMMA MemoryInit == Init => MemoryInv
  BY DEF Init, MemoryInv, Setup, GuestCall, Reported

\* Run returns with metrics made of the size it knows.
LEMMA MemoryAtFinish ==
    ASSUME NEW status, Finish(status), pages' \in Nat, memoryUsed' \in Nat,
           memoryUsed' <= pages',
           status = "success" \/ trapped' # "none" => memoryUsed' + grown' = pages'
    PROVE  MemoryInv'
<1>1. at' = "returning" /\ result'.memory = memoryUsed' /\ result'.status = status
  BY DEF Finish, Return
<1> QED
  BY <1>1 DEF MemoryInv, Reported, Setup, GuestCall

\* Every step of a run keeps the memory invariant.
LEMMA MemoryStepInv ==
    GuestInv /\ GuestInv' /\ MemoryInv /\ [Next]_vars => MemoryInv'
<1> SUFFICES ASSUME GuestInv, GuestInv', MemoryInv, [Next]_vars PROVE MemoryInv'
  OBVIOUS
<1> USE DEF Setup, GuestCall, Leaving, Ended, Reported
<1>0. /\ pages \in Nat /\ memoryUsed \in Nat /\ grown \in Nat
      /\ pages' \in Nat /\ memoryUsed' \in Nat /\ grown' \in Nat
  BY RunAssumption DEF GuestInv, TypeOK
<1>1. at \notin Reported => trapped = "none"
  BY DEF GuestInv, NoEarlyResult
<1>2. CASE CreateStdout \/ CreateStderr
  <2>1. /\ at \in {"stdout", "stderr"} /\ at' \in {"stderr", "instance", "returning"}
        /\ UNCHANGED <<pages, memoryUsed, grown, trapped, result>>
    BY <1>2 DEF CreateStdout, CreateStderr, Creates, Return
  <2> QED
    BY <2>1, <1>0, <1>1 DEF MemoryInv, NoResult
<1>3. CASE Instantiate
  <2>1. /\ memoryUsed' <= pages' /\ at = "instance" /\ grown' = 0 /\ trapped' = "none"
        /\ at' \in {"allocate"} \cup Leaving
    BY <1>0, <1>1, <1>3 DEF Instantiate, MemoryInv, Finish, Return
  <2>2. CASE Finish("runtime_error") \/ Finish("out_of_memory")
    BY <2>1, <2>2, <1>0, MemoryAtFinish
  <2>3. CASE UNCHANGED result
    <3>1. at' = "allocate" => memoryUsed' = pages'
      BY <1>3 DEF Instantiate, Finish, Return
    <3>2. at' = "allocate" => memoryUsed' + grown' = pages'
      <4>1. \A x \in Nat : x + 0 = x
        OBVIOUS
      <4> QED
        BY <1>0, <2>1, <3>1, <4>1
    <3>3. result' = NoResult /\ result'.status # "success"
      BY <2>1, <2>3 DEF MemoryInv, NoResult
    <3>4. result'.memory <= pages'
      BY <1>0, <3>3 DEF NoResult
    <3> QED
      BY <2>1, <3>2, <3>3, <3>4 DEF MemoryInv
  <2> QED
    BY <1>3, <2>2, <2>3 DEF Instantiate
<1>4. CASE GuestStep
  <2>1. PICK n \in 0..(MaxPages - pages) : pages' = pages + n /\ grown' = grown + n
    BY <1>4 DEF GuestStep, Grows
  <2>2. at \in GuestCall /\ UNCHANGED <<at, memoryUsed, result>>
    BY <1>4 DEF GuestStep
  <2>3. MemoryInv'
    <3>1. memoryUsed' + grown' = pages' /\ memoryUsed' <= pages'
      BY <1>0, <2>1, <2>2 DEF MemoryInv
    <3> QED
      BY <2>2, <3>1, <1>0 DEF MemoryInv
  <2> QED
    BY <2>3
<1>5. CASE OutOfFuel \/ LimitHit \/ OutOfBounds \/ GuestPanics
  <2>1. at \in GuestCall /\ UNCHANGED <<pages, memoryUsed, grown>>
    BY <1>5 DEF OutOfFuel, LimitHit, OutOfBounds, GuestPanics, TrapsWith
  <2>2. PICK text, logs : Finish(StatusOf(text, logs))
    BY <1>5 DEF OutOfFuel, LimitHit, OutOfBounds, GuestPanics, TrapsWith
  <2> QED
    BY <1>0, <2>1, <2>2, MemoryAtFinish DEF MemoryInv
<1>6. CASE AllocateReturns
  <2>1. /\ at = "allocate" /\ trapped' = "none"
        /\ UNCHANGED pages /\ memoryUsed' <= pages
    BY <1>0, <1>1, <1>6 DEF AllocateReturns, MemoryInv
  <2>2. CASE Finish("out_of_memory")
    BY <2>1, <2>2, <1>0, MemoryAtFinish
  <2>3. CASE /\ UNCHANGED result
             /\ \/ at' = "process" /\ memoryUsed' = pages /\ grown' = 0
                \/ at' = "panicking"
    <3>1. at' = "process" => memoryUsed' + grown' = pages'
      BY <1>0, <2>1, <2>3
    <3> QED
      BY <2>1, <2>3, <3>1, <1>0 DEF MemoryInv
  <2> QED
    BY <1>6, <2>2, <2>3 DEF AllocateReturns, Panics
<1>7. CASE ProcessReturns
  <2>1. /\ at = "process" /\ trapped' = "none"
        /\ UNCHANGED pages /\ memoryUsed' = pages /\ grown' = 0
    BY <1>1, <1>7 DEF ProcessReturns, SizeAfterProcess
  <2>2. CASE Finish("success")
    BY <2>1, <2>2, <1>0, MemoryAtFinish
  <2>3. CASE UNCHANGED result /\ at' \in {"deallocate", "panicking"}
    BY <2>1, <2>3, <1>0 DEF MemoryInv
  <2> QED
    BY <1>7, <2>2, <2>3 DEF ProcessReturns, Panics
<1>8. CASE DeallocateEnds
  BY <1>0, <1>8, MemoryAtFinish DEF DeallocateEnds, MemoryInv
<1>9. CASE RunDeferred \/ Leave
  <2>1. /\ UNCHANGED <<pages, memoryUsed, grown, trapped, result>>
        /\ at \in Leaving /\ (at' = at \/ at' \in Ended)
        /\ at' \in Reported <=> at \in Reported
    BY <1>9 DEF RunDeferred, Leave
  <2> QED
    BY <2>1 DEF MemoryInv
<1>10. CASE UNCHANGED vars
  BY <1>10 DEF vars, MemoryInv
<1> QED
  BY <1>2, <1>3, <1>4, <1>5, <1>6, <1>7, <1>8, <1>9, <1>10 DEF Next

\* The metrics of a success or a trap leave out of the guest's memory exactly
\* what the call grew it by that the run was cut in, or deallocate, and no
\* metrics exceed it, whatever the limit and however the guest grows it.
THEOREM MetricsLagOneCall == Spec => []MemoryReported
<1>1. MemoryInv => MemoryReported
  BY DEF MemoryInv, MemoryReported, Reported
<1> QED
  BY <1>1, GuestInit, GuestStepInv, MemoryInit, MemoryStepInv, PTL DEF Spec

-----------------------------------------------------------------------------
(* Buffers.                                                                *)

Panic == {"panicking", "panicked"}

\* Nothing is copied before a buffer is handed over, and Run that panics on a
\* slice is on its way out.
BufferInv ==
    /\ CopiesInside
    /\ at \in Panic /\ handed # {} =>
           \E h \in handed : h.ptr + h.len > pages
    /\ at \in Setup => handed = {}

\* What process packs is what the host unpacks, whatever the word's width and
\* although the packed word may be negative as an int64.
LEMMA UnpackPacked ==
    ASSUME NEW ptr \in Uint32s, NEW len \in Uint32s
    PROVE  outPtr(Packed(ptr, len)) = ptr /\ outLen(Packed(ptr, len)) = len
<1> DEFINE W == WordSize
           x == ptr * W + len
<1>1. /\ HalfWord \in Nat /\ W \in Nat /\ W > 0 /\ W = HalfWord + HalfWord
      /\ ptr \in Nat /\ len \in Nat /\ ptr < W /\ len < W
  BY RunAssumption DEF WordSize, Uint32s
<1> HIDE DEF W
<1>2. x \in Nat /\ x < W * W
  <2>1. (ptr + 1) * W <= W * W
    BY <1>1
  <2>2. (ptr + 1) * W = ptr * W + W /\ ptr * W \in Nat /\ W * W \in Nat
    BY <1>1
  <2> QED
    BY <2>1, <2>2, <1>1
<1>3. x \div W = ptr /\ x % W = len
  BY <1>1
<1> HIDE DEF x
<1>4. Uint64(Int64(x)) = x
  <2>1. HalfWord * W \in Nat /\ W * W \in Nat
    BY <1>1
  <2> QED
    BY <2>1, <1>2 DEF Uint64, Int64, W
<1> QED
  BY <1>3, <1>4 DEF Packed, outPtr, outLen, x, W

\* Go slices the guest's memory for the input exactly if the buffer is in it,
\* and then exactly the buffer.
LEMMA InputSlice ==
    ASSUME NEW ptr \in Uint32s, pages \in 0..MaxPages,
           NEW from, from = Int32(ptr), NEW to, to = Int32(from + InputSize)
    PROVE  /\ CanSlice(from, to) => from = ptr /\ to - from = InputSize
           /\ CanSlice(from, to) <=> ptr + InputSize <= pages
  BY RunAssumption DEF Uint32s, WordSize, Int32, CanSlice

\* The same for the output.
LEMMA OutputSlice ==
    ASSUME NEW ptr \in Uint32s, NEW len \in Uint32s, pages \in 0..MaxPages,
           NEW to, to = Uint32(ptr + len)
    PROVE  /\ CanSlice(ptr, to) => to - ptr = len
           /\ CanSlice(ptr, to) <=> ptr + len <= pages
  BY RunAssumption DEF Uint32s, WordSize, Uint32, CanSlice

\* A step that neither copies nor panics keeps what is known of the buffers.
LEMMA BufferQuiet ==
    ASSUME GuestInv, GuestInv', BufferInv, UNCHANGED copied,
           handed \subseteq handed', pages <= pages',
           \/ at' \notin Panic \/ handed' = {}
           \/ at \in Panic /\ UNCHANGED <<handed, pages>>,
           at' \in Setup => handed' = {}
    PROVE  BufferInv'
<1>1. pages \in Nat /\ pages' \in Nat
  BY RunAssumption DEF GuestInv, TypeOK
<1>2. \A c \in handed : c.ptr + c.len \in Nat
  <2> SUFFICES ASSUME NEW c \in handed PROVE c.ptr + c.len \in Nat
    OBVIOUS
  <2>1. c \in [ptr: Uint32s, len: Uint32s]
    BY DEF GuestInv, TypeOK
  <2>2. c.ptr \in Uint32s /\ c.len \in Uint32s
    BY <2>1
  <2>3. c.ptr \in Nat /\ c.len \in Nat
    BY <2>2, RunAssumption DEF Uint32s, WordSize
  <2> QED
    BY <2>3
<1>3. CopiesInside'
  BY <1>1, <1>2 DEF BufferInv, CopiesInside
<1> QED
  BY <1>3 DEF BufferInv

\* A buffer that the host copies whole, or that makes Run panic because it is
\* not in the memory.
LEMMA BufferUsed ==
    ASSUME GuestInv, GuestInv', BufferInv, UNCHANGED pages, at \notin Panic,
           NEW ptr \in Uint32s, NEW len \in Uint32s, Hands(ptr, len),
           NEW from, NEW to,
           CanSlice(from, to) => from = ptr /\ to - from = len,
           CanSlice(from, to) <=> ptr + len <= pages,
           \/ Copies(from, to) /\ at' \notin Setup \cup Panic
           \/ Panics(from, to)
    PROVE  BufferInv'
<1> DEFINE h == [ptr |-> ptr, len |-> len]
<1>1. handed' = handed \cup {h} /\ h.ptr = ptr /\ h.len = len
  BY DEF Hands
<1>2. CASE Copies(from, to) /\ at' \notin Setup \cup Panic
  <2>1. copied' = copied \cup {h} /\ ptr + len <= pages
    BY <1>2 DEF Copies
  <2> QED
    BY <1>1, <1>2, <2>1 DEF BufferInv, CopiesInside
<1>3. CASE Panics(from, to)
  <2>1. UNCHANGED copied /\ ~(ptr + len <= pages) /\ at' = "panicking"
    BY <1>3 DEF Panics
  <2>2. pages \in Nat /\ ptr \in Nat /\ len \in Nat
    BY RunAssumption DEF GuestInv, TypeOK, Uint32s, WordSize
  <2>3. ptr + len > pages
    BY <2>1, <2>2
  <2> QED
    BY <1>1, <2>1, <2>3 DEF BufferInv, CopiesInside, Setup
<1> QED
  BY <1>2, <1>3

\* Every step of a run keeps what is known of the buffers.
LEMMA BufferStepInv ==
    GuestInv /\ GuestInv' /\ BufferInv /\ [Next]_vars => BufferInv'
<1> SUFFICES ASSUME GuestInv, GuestInv', BufferInv, [Next]_vars PROVE BufferInv'
  OBVIOUS
<1> USE DEF buffers
<1>0. pages \in 0..MaxPages /\ pages' \in 0..MaxPages
  BY DEF GuestInv, TypeOK
<1>1. CASE \/ CreateStdout \/ CreateStderr \/ Instantiate \/ GuestStep
           \/ OutOfFuel \/ LimitHit \/ OutOfBounds \/ GuestPanics
           \/ DeallocateEnds \/ RunDeferred \/ Leave
  <2>1. UNCHANGED <<handed, copied>>
    BY <1>1 DEF CreateStdout, CreateStderr, Creates, Instantiate, GuestStep,
                OutOfFuel, LimitHit, OutOfBounds, GuestPanics, DeallocateEnds,
                RunDeferred, Leave, TrapsWith
  <2>2. CASE Instantiate
    <3>1. at' \notin Setup /\ handed' = {}
      BY <2>1, <2>2 DEF Instantiate, Finish, Return, BufferInv, Setup, Leaving
    <3>2. pages <= pages'
      BY <2>2, <1>0, RunAssumption DEF GuestInv, SetupInv, Setup, Instantiate
    <3>3. handed \subseteq handed' /\ UNCHANGED copied
      BY <2>1
    <3> QED
      BY <3>1, <3>2, <3>3, BufferQuiet
  <2>3. CASE CreateStdout \/ CreateStderr
    <3>1. UNCHANGED pages /\ at \in Setup /\ handed' = {}
      BY <2>1, <2>3 DEF CreateStdout, CreateStderr, Creates, BufferInv, Setup
    <3> QED
      BY <2>1, <3>1, <1>0, BufferQuiet
  <2>4. CASE RunDeferred \/ Leave
    <3>1. UNCHANGED pages /\ at' \notin Setup /\ (at' \in Panic => at \in Panic)
      BY <2>4 DEF RunDeferred, Leave, Leaving, Setup, Panic
    <3> QED
      BY <2>1, <3>1, <1>0, BufferQuiet
  <2>5. CASE \/ GuestStep \/ OutOfFuel \/ LimitHit \/ OutOfBounds \/ GuestPanics
             \/ DeallocateEnds
    <3>1. at' \notin Panic \cup Setup
      BY <2>5 DEF GuestStep, OutOfFuel, LimitHit, OutOfBounds, GuestPanics,
                  DeallocateEnds, TrapsWith, Return, Finish, GuestCall, Panic, Setup
    <3>2. pages <= pages'
      BY <2>5, <1>0 DEF GuestStep, Grows, OutOfFuel, LimitHit, OutOfBounds,
                        GuestPanics, DeallocateEnds
    <3> QED
      BY <2>1, <3>1, <3>2, BufferQuiet
  <2> QED
    BY <1>1, <2>2, <2>3, <2>4, <2>5
<1>2. CASE AllocateReturns
  <2>1. PICK ptr \in Uint32s :
          LET from == Int32(ptr)
              to == Int32(from + InputSize)
          IN /\ Hands(ptr, InputSize)
             /\ \/ UNCHANGED copied /\ Finish("out_of_memory")
                \/ Copies(from, to) /\ at' = "process"
                \/ Panics(from, to)
    BY <1>2 DEF AllocateReturns
  <2> DEFINE from == Int32(ptr)
             to == Int32(from + InputSize)
  <2>2. at \notin Panic /\ UNCHANGED pages
    BY <1>2 DEF AllocateReturns, Panic
  <2>3. CASE UNCHANGED copied /\ Finish("out_of_memory")
    BY <2>1, <2>2, <2>3, <1>0, BufferQuiet DEF Hands, Finish, Return, Setup, Panic
  <2>4. CASE (Copies(from, to) /\ at' = "process") \/ Panics(from, to)
    <3>1. InputSize \in Uint32s
      BY RunAssumption DEF Uint32s, WordSize
    <3>2. /\ CanSlice(from, to) => from = ptr /\ to - from = InputSize
          /\ CanSlice(from, to) <=> ptr + InputSize <= pages
      BY <1>0, InputSlice
    <3> QED
      BY <2>1, <2>2, <2>4, <3>1, <3>2, BufferUsed DEF Setup, Panic
  <2> QED
    BY <2>1, <2>3, <2>4
<1>3. CASE ProcessReturns
  <2>1. PICK ptr \in Uint32s, len \in Uint32s :
          LET packed == Packed(ptr, len)
              from == outPtr(packed)
              to == Uint32(from + outLen(packed))
          IN /\ Hands(ptr, len)
             /\ \/ UNCHANGED copied /\ Finish("success")
                \/ Copies(from, to) /\ at' = "deallocate"
                \/ Panics(from, to)
    BY <1>3 DEF ProcessReturns
  <2> DEFINE to == Uint32(ptr + len)
  <2>2. /\ Hands(ptr, len)
        /\ \/ UNCHANGED copied /\ Finish("success")
           \/ Copies(ptr, to) /\ at' = "deallocate"
           \/ Panics(ptr, to)
    BY <2>1, UnpackPacked
  <2>3. at \notin Panic /\ UNCHANGED pages
    BY <1>3 DEF ProcessReturns, Panic
  <2>4. CASE UNCHANGED copied /\ Finish("success")
    BY <2>2, <2>3, <2>4, <1>0, BufferQuiet DEF Hands, Finish, Return, Setup, Panic
  <2>5. CASE (Copies(ptr, to) /\ at' = "deallocate") \/ Panics(ptr, to)
    <3>1. /\ CanSlice(ptr, to) => to - ptr = len
          /\ CanSlice(ptr, to) <=> ptr + len <= pages
      BY <1>0, OutputSlice
    <3> QED
      BY <2>2, <2>3, <2>5, <3>1, BufferUsed DEF Setup, Panic
  <2> QED
    BY <2>2, <2>4, <2>5
<1>4. CASE UNCHANGED vars
  BY <1>4, <1>0, BufferQuiet DEF vars, BufferInv
<1> QED
  BY <1>1, <1>2, <1>3, <1>4 DEF Next

\* Nothing has been copied when a run starts.
LEMMA BufferInit == Init => BufferInv
  BY DEF Init, BufferInv, CopiesInside

\* Whatever pointers and lengths the guest hands over, for words and memories
\* of every size, the host copies only whole buffers inside the guest's memory.
THEOREM CopiesStayInside == Spec => []CopiesInside
<1>1. BufferInv => CopiesInside
  BY DEF BufferInv
<1> QED
  BY <1>1, GuestInit, GuestStepInv, BufferInit, BufferStepInv, PTL DEF Spec

\* Once the guest has been called, Run panics only if a buffer has been handed
\* over that is not in the guest's memory.
THEOREM PanicsAreJustified == Spec => []PanicJustified
<1>1. BufferInv => PanicJustified
  BY DEF BufferInv, Panic, PanicJustified
<1> QED
  BY <1>1, GuestInit, GuestStepInv, BufferInit, BufferStepInv, PTL DEF Spec
=============================================================================
