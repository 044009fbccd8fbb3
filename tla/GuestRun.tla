------------------------------ MODULE GuestRun ------------------------------
(***************************************************************************)
(* Engine.Run of sandbox/engine.go from the moment it has its module: two  *)
(* temporary files, a store with limits, an instance, the three calls into *)
(* the guest, and the status and metrics made of what happened.  Every run *)
(* has a store and an instance of its own, so runs do not meet and one of  *)
(* them is the whole story.  The guest is whatever its author wrote in     *)
(* handler: it may use any fuel and memory it is given, print anything and *)
(* hand over any pointer and length.  A page is the unit of memory.        *)
(***************************************************************************)
EXTENDS Integers, Sequences

CONSTANTS
    MaxFuel,     \* units of fuel of a run (10,000,000)
    MaxPages,    \* pages the store's limiter grants (5 MB)
    NameWords,   \* words of Word that the guest's function names may contain
    HalfWord,    \* half the values of a 32-bit word (2^31)
    InputSize    \* length of the input; one of 2 GB or more is left out

\* Error texts and logs are the words handleExecutionError looks for in them:
\* "memory" stands for memory, limit and out of bounds, "alloc" for memory
\* allocation, alloc and out of memory.
Word == {"fuel", "memory", "alloc"}

ASSUME RunAssumption ==
    /\ MaxFuel \in Nat
    /\ MaxPages \in Nat \ {0}
    /\ NameWords \subseteq Word
    /\ HalfWord \in Nat /\ MaxPages < HalfWord
    /\ InputSize \in 0 .. HalfWord - 1

VARIABLES
    at,          \* the point of Run, or the guest function it is in
    files,       \* temporary files on disk
    open,        \* temporary files that Run holds a descriptor of
    deferred,    \* the deferred calls, the next one to run first
    unremoved,   \* ghost: files whose removal has failed
    fuel,        \* fuel left in the store
    pages,       \* size of the guest's memory
    printed,     \* words in the captured output of the guest
    memoryUsed,  \* the variable of that name
    handed,      \* ghost: the buffers the guest has handed over
    copied,      \* ghost: the slices of its memory the host has copied
    grown,       \* ghost: pages by which the current guest call has grown it
    trapped,     \* ghost: why allocate or process trapped
    result       \* status and metrics, NoResult if Run returned an error

buffers == <<handed, copied>>
disk == <<files, open, deferred, unremoved>>
vars == <<at, disk, fuel, pages, printed, memoryUsed, buffers, grown, trapped, result>>

Cause == {"none", "fuel", "limit", "bounds", "panic"}
Status == {"success", "runtime_error", "out_of_memory", "out_of_fuel"}
GuestCall == {"allocate", "process", "deallocate"}
Leaving == {"returning", "panicking"}
Ended == {"returned", "panicked"}
Stream == {"stdout", "stderr"}
DeferredCall == [call: {"close", "remove"}, file: Stream]
NoResult == [status |-> "runtime_error", memory |-> 0, fuel |-> 0]

Init ==
    /\ at = "stdout"
    /\ files = {}
    /\ open = {}
    /\ deferred = <<>>
    /\ unremoved = {}
    /\ fuel = MaxFuel
    /\ pages = 0
    /\ printed = {}
    /\ memoryUsed = 0
    /\ handed = {}
    /\ copied = {}
    /\ grown = 0
    /\ trapped = "none"
    /\ result = NoResult

\* A return statement of Run; the deferred calls come next.
Return == at' = "returning"

\* getMetrics, and Run returns what it made.
Finish(status) ==
    /\ result' = [status |-> status, memory |-> memoryUsed', fuel |-> MaxFuel - fuel]
    /\ Return

\* Mutant: memory is tried before fuel.
StatusOfMemoryFirst(text, logs) ==
    IF "memory" \in text \/ "alloc" \in logs \cup text THEN "out_of_memory"
    ELSE IF "fuel" \in text THEN "out_of_fuel" ELSE "runtime_error"

\* Mutant: the captured output is not looked at.
StatusOfTextOnly(text, logs) ==
    IF "fuel" \in text THEN "out_of_fuel"
    ELSE IF "memory" \in text THEN "out_of_memory" ELSE "runtime_error"

\* handleExecutionError: the logs it searches last include the error's text.
StatusOf(text, logs) ==
    IF "fuel" \in text THEN "out_of_fuel"
    ELSE IF "memory" \in text \/ "alloc" \in logs \cup text
    THEN "out_of_memory" ELSE "runtime_error"

-----------------------------------------------------------------------------
(* Words.  The guest's pointers and lengths are unsigned; Go's conversions *)
(* and sums wrap.                                                          *)

WordSize == 2 * HalfWord
Uint32s == 0 .. WordSize - 1

Int32(x) == IF x < HalfWord THEN x ELSE x - WordSize
Uint32(x) == IF x < WordSize THEN x ELSE x - WordSize
Int64(x) == IF x < HalfWord * WordSize THEN x ELSE x - WordSize * WordSize
Uint64(x) == IF x < 0 THEN x + WordSize * WordSize ELSE x

\* (out_ptr << 32) | out_len, as the int64 that the call returns.
Packed(ptr, len) == Int64(ptr * WordSize + len)

\* Mutant of outPtr: the halves are swapped.
OutPtrLow(packed) == Uint64(packed) % WordSize

outPtr(packed) == Uint64(packed) \div WordSize
outLen(packed) == Uint64(packed) % WordSize

\* Mutant of CanSlice: only the end is compared with the memory.
CanSliceTo(from, to) == to <= pages

\* memBytes[from:to] does not panic.
CanSlice(from, to) == 0 <= from /\ from <= to /\ to <= pages

\* The buffer the guest means, and the slice Go makes of it.
Hands(ptr, len) == handed' = handed \cup {[ptr |-> ptr, len |-> len]}
Copies(from, to) ==
    /\ CanSlice(from, to)
    /\ copied' = copied \cup {[ptr |-> from, len |-> to - from]}

\* Go panics on the slice; the deferred calls come next.
Panics(from, to) ==
    /\ ~CanSlice(from, to)
    /\ at' = "panicking"
    /\ UNCHANGED <<copied, result>>

-----------------------------------------------------------------------------
(* Temporary files.                                                        *)

\* Mutant of Defers: removing the file is left to the end of Run.
DefersCloseOnly(f) ==
    deferred' = <<[call |-> "close", file |-> f]>> \o deferred

\* The two defer statements after a file has been created.
Defers(f) ==
    deferred' = <<[call |-> "close", file |-> f],
                  [call |-> "remove", file |-> f]>> \o deferred

\* os.CreateTemp, which may fail.
Creates(f, next) ==
    /\ \/ /\ files' = files \cup {f}
          /\ open' = open \cup {f}
          /\ Defers(f)
          /\ at' = next
       \/ Return /\ UNCHANGED <<files, open, deferred>>
    /\ UNCHANGED <<unremoved, fuel, pages, printed, memoryUsed, buffers, grown,
                   trapped, result>>

CreateStdout == at = "stdout" /\ Creates("stdout", "stderr")
CreateStderr == at = "stderr" /\ Creates("stderr", "instance")

\* A deferred Close gives the descriptor up whatever it returns.
Closes(f) ==
    /\ open' = open \ {f}
    /\ UNCHANGED <<files, unremoved>>

\* A deferred os.Remove, whose error nobody sees.
Removes(f) ==
    /\ \/ files' = files \ {f} /\ UNCHANGED unremoved
       \/ unremoved' = unremoved \cup {f} /\ UNCHANGED files
    /\ UNCHANGED open

\* The next deferred call, when Run returns as when it panics.
RunDeferred ==
    /\ at \in Leaving
    /\ deferred # <<>>
    /\ LET f == Head(deferred).file
       IN IF Head(deferred).call = "close" THEN Closes(f) ELSE Removes(f)
    /\ deferred' = Tail(deferred)
    /\ UNCHANGED <<at, fuel, pages, printed, memoryUsed, buffers, grown, trapped,
                   result>>

\* Run is left; net/http recovers a panic.
Leave ==
    /\ at \in Leaving
    /\ deferred = <<>>
    /\ at' = IF at = "returning" THEN "returned" ELSE "panicked"
    /\ UNCHANGED <<disk, fuel, pages, printed, memoryUsed, buffers, grown, trapped,
                   result>>

-----------------------------------------------------------------------------
\* Store, linker and instance are made.  SetFuel may fail (no result), and so
\* may the linker, the search for the exports (runtime_error) and Instantiate,
\* which is about memory when the text of the error says so.  An instance that
\* exports no memory makes memoryExtern.Memory() panic on nil, before the test
\* of the exports.
Instantiate ==
    /\ at = "instance"
    /\ \/ /\ pages' \in 1..MaxPages
          /\ memoryUsed' = pages'
          /\ \/ at' = "allocate" /\ UNCHANGED result
             \/ Finish("runtime_error")
       \/ /\ UNCHANGED <<pages, memoryUsed>>
          /\ \/ Finish("out_of_memory")
             \/ Finish("runtime_error")
             \/ at' \in Leaving /\ UNCHANGED result
    /\ UNCHANGED <<disk, fuel, printed, buffers, grown, trapped>>

-----------------------------------------------------------------------------
\* The guest's memory grows up to the limit, in deallocate too: the source may
\* bring an allocator of its own.
Grows ==
    \E n \in 0..(MaxPages - pages) : pages' = pages + n /\ grown' = grown + n

\* Mutant: the budget is topped up when it runs out, as a store does that
\* yields on fuel instead of trapping.
MeteredRefuels == fuel' = IF fuel > 1 THEN fuel - 1 ELSE MaxFuel

\* Mutant: a unit of fuel is taken without looking whether one is left.
MeteredOverdraws == fuel' = fuel - 1

\* The engine consumes fuel and Run gives the store its whole budget at once.
Metered == fuel > 0 /\ fuel' = fuel - 1

\* The guest computes, may grow its memory up to the limit and may print.
GuestStep ==
    /\ at \in GuestCall
    /\ Metered
    /\ Grows
    /\ \E w \in SUBSET Word : printed' = printed \cup w
    /\ UNCHANGED <<at, disk, memoryUsed, buffers, trapped, result>>

\* allocate or process traps: text is what the runtime says of the cause, and
\* the backtrace adds names of the guest's functions.
TrapsWith(cause, text) ==
    /\ at \in {"allocate", "process"}
    /\ trapped' = cause
    /\ UNCHANGED <<disk, memoryUsed, buffers, grown>>
    /\ \E w \in SUBSET NameWords : Finish(StatusOf(text \cup w, printed'))

OutOfFuel ==
    /\ fuel = 0
    /\ UNCHANGED <<fuel, pages, printed>>
    /\ TrapsWith("fuel", {"fuel"})

\* memory.grow is refused: the guest's allocator says that an allocation
\* failed and aborts.
LimitHit ==
    /\ fuel > 0
    /\ printed' = printed \cup {"alloc"}
    /\ TrapsWith("limit", {})
    /\ UNCHANGED <<fuel, pages>>

OutOfBounds ==
    /\ fuel > 0
    /\ UNCHANGED <<fuel, pages, printed>>
    /\ TrapsWith("bounds", {"memory"})

GuestPanics ==
    /\ fuel > 0
    /\ UNCHANGED <<fuel, pages, printed>>
    /\ TrapsWith("panic", {})

\* allocate returns: the input is copied in, unless the pointer is null.
AllocateReturns ==
    /\ at = "allocate"
    /\ \E ptr \in Uint32s :
         LET from == Int32(ptr)
             to == Int32(from + InputSize)
         IN /\ Hands(ptr, InputSize)
            /\ \/ /\ from = 0 /\ InputSize > 0
                  /\ UNCHANGED <<memoryUsed, copied, grown>>
                  /\ Finish("out_of_memory")
               \/ /\ from # 0 \/ InputSize = 0
                  /\ \/ /\ Copies(from, to)
                        /\ memoryUsed' = pages
                        /\ grown' = 0
                        /\ at' = "process" /\ UNCHANGED result
                     \/ Panics(from, to) /\ UNCHANGED <<memoryUsed, grown>>
    /\ UNCHANGED <<disk, fuel, pages, printed, trapped>>

\* Mutant of SizeAfterProcess: the size of the memory is not read again.
SizeBeforeProcess == memoryUsed

\* The guest may have grown its memory.
SizeAfterProcess == pages

\* process returns: no output, or one to copy and give back.
ProcessReturns ==
    /\ at = "process"
    /\ memoryUsed' = SizeAfterProcess
    /\ grown' = 0
    /\ \E ptr, len \in Uint32s :
         LET packed == Packed(ptr, len)
             from == outPtr(packed)
             to == Uint32(from + outLen(packed))
         IN /\ Hands(ptr, len)
            /\ \/ outLen(packed) = 0 /\ UNCHANGED copied /\ Finish("success")
               \/ /\ outLen(packed) > 0
                  /\ \/ /\ Copies(from, to)
                        /\ at' = "deallocate" /\ UNCHANGED result
                     \/ Panics(from, to)
    /\ UNCHANGED <<disk, fuel, pages, printed, trapped>>

\* deallocate returns, or traps, which is only logged.
DeallocateEnds ==
    /\ at = "deallocate"
    /\ UNCHANGED memoryUsed
    /\ Finish("success")
    /\ UNCHANGED <<disk, fuel, pages, printed, buffers, grown, trapped>>

Next ==
    \/ CreateStdout \/ CreateStderr \/ Instantiate
    \/ GuestStep
    \/ OutOfFuel \/ LimitHit \/ OutOfBounds \/ GuestPanics
    \/ AllocateReturns \/ ProcessReturns \/ DeallocateEnds
    \/ RunDeferred \/ Leave

Spec == Init /\ [][Next]_vars

\* The goroutine runs, and guest code is run by the same goroutine.
FairSpec == Spec /\ WF_vars(Next)

-----------------------------------------------------------------------------
\* Types: the budget and the limit bound what a run uses.
TypeOK ==
    /\ at \in {"stdout", "stderr", "instance"} \cup GuestCall \cup Leaving \cup Ended
    /\ files \subseteq Stream
    /\ open \subseteq Stream
    /\ deferred \in Seq(DeferredCall) /\ Len(deferred) <= 4
    /\ unremoved \subseteq Stream
    /\ fuel \in 0..MaxFuel
    /\ pages \in 0..MaxPages
    /\ printed \subseteq Word
    /\ memoryUsed \in 0..MaxPages
    /\ handed \subseteq [ptr: Uint32s, len: Uint32s]
    /\ grown \in 0..pages
    /\ trapped \in Cause
    /\ result \in [status: Status, memory: 0..MaxPages, fuel: 0..MaxFuel]

\* Whatever the guest's functions are called and whatever it printed, a run
\* that was cut because its budget was used up is reported as out_of_fuel; and
\* no other run is, however it fails and whatever it prints, as long as no
\* function of the guest has fuel in its name.
FuelIsReported ==
    at = "returned" =>
        /\ trapped = "fuel" => result.status = "out_of_fuel"
        /\ result.status = "out_of_fuel" /\ "fuel" \notin NameWords =>
               trapped = "fuel"

\* A run that hit the memory limit is reported as out_of_memory, as long as
\* no function of the guest has fuel in its name.
LimitIsReported ==
    at = "returned" /\ trapped = "limit" /\ "fuel" \notin NameWords =>
        result.status = "out_of_memory"

\* Whichever way Run is left, early returns and panics included, it holds no
\* descriptor any more and the only temporary files on disk are those whose
\* removal has failed.
FilesRemoved == at \in Ended => open = {} /\ files \subseteq unremoved

\* The memory in the metrics of a success or of a trap is the guest's memory
\* less what it grew by in the very call it was cut in, or in deallocate; and
\* no metrics exceed the guest's memory.
MemoryReported ==
    at = "returned" =>
        /\ result.memory <= pages
        /\ result.status = "success" \/ trapped # "none" =>
               result.memory + grown = pages

\* What the host copies lies within the guest's memory and is all of a buffer
\* the guest has handed over, whatever pointers and lengths it hands over and
\* although their sums wrap.
CopiesInside == \A c \in copied : c \in handed /\ c.ptr + c.len <= pages

\* Once the guest has been called, Run panics only if a buffer has been handed
\* over that is not in the guest's memory: neither the signed pointer of the
\* input nor the packed word of the output makes it misread one that is.
PanicJustified ==
    at = "panicked" /\ handed # {} => \E h \in handed : h.ptr + h.len > pages

\* Phases of Run from this point, with these many deferred calls, to its end.
PhasesFrom(point, calls) ==
    CASE point = "stdout" -> 11
      [] point = "stderr" -> 10
      [] point = "instance" -> 9
      [] point = "allocate" -> 8
      [] point = "process" -> 7
      [] point = "deallocate" -> 6
      [] point \in Leaving -> 1 + calls
      [] point \in Ended -> 0

\* A run takes no more steps than its budget and the phases of Run: whatever
\* the guest does costs it fuel that nothing gives back, and Run never goes
\* back to the guest call it comes from.
RunAdvances == [][fuel' + PhasesFrom(at', Len(deferred'))
                     < fuel + PhasesFrom(at, Len(deferred))]_vars

\* A run ends: a guest that loops is cut when its fuel is used up.
RunEnds == <>(at \in Ended)
=============================================================================
