---------------------------- MODULE PluginStore ----------------------------
(***************************************************************************)
(* The repository layer (db/): the rows of the plugins table and the       *)
(* statements that read and write them, each of them one atomic SQL        *)
(* statement.  An artefact (compiled_wasm) is represented by the source it *)
(* was built from, and a failure (compile_errors) by the source whose      *)
(* build failed: the text of the log, which is empty when cargo could not  *)
(* be started, is left out, and so are names and timestamps.               *)
(***************************************************************************)
EXTENDS Naturals

CONSTANTS
    Plugin,   \* plugin ids that uuid.New() may hand out
    Source,   \* source texts a client may submit
    None      \* SQL NULL, no failure, or a Go variable that is not set

ASSUME NoneIsNoSource == None \notin Source

Statuses == {"absent", "pending", "compiled", "failed"}

\* status = "absent" stands for "no row with this id".
Row == [status: Statuses,
        source: Source \cup {None},
        wasm: Source \cup {None},
        errors: Source \cup {None},
        version: Nat]

Absent == [status |-> "absent", source |-> None, wasm |-> None,
           errors |-> None, version |-> 0]

Exists(tbl, p) == tbl[p].status # "absent"

-----------------------------------------------------------------------------
\* SavePlugin with the row handleCreatePlugin builds: version 1, pending.
SavePlugin(tbl, p, s) ==
    [tbl EXCEPT ![p] = [status |-> "pending", source |-> s, wasm |-> None,
                        errors |-> None, version |-> 1]]

\* Mutant: the build result is upserted, and a deleted row comes back.
UpsertPluginStatus(tbl, p, st, w, e) ==
    [tbl EXCEPT ![p] = [status |-> st, source |-> @.source, wasm |-> w,
                        errors |-> e, version |-> @.version + 1]]

\* Mutant: a failed build leaves the previous artefact in the row.
UpdateStatusKeepWasm(tbl, p, st, w, e) ==
    IF Exists(tbl, p)
    THEN [tbl EXCEPT ![p] = [status |-> st, source |-> @.source,
                             wasm |-> IF w = None THEN @.wasm ELSE w,
                             errors |-> e, version |-> @.version + 1]]
    ELSE tbl

\* UPDATE ... WHERE id = ?: no row, no effect, and no error either.
UpdatePluginStatus(tbl, p, st, w, e) ==
    IF Exists(tbl, p)
    THEN [tbl EXCEPT ![p] = [status |-> st, source |-> @.source, wasm |-> w,
                             errors |-> e, version |-> @.version + 1]]
    ELSE tbl

\* Mutant: the update writes the whole row of a new plugin, version 1.
UpdateCodeResetsVersion(tbl, p, s) ==
    IF Exists(tbl, p)
    THEN [tbl EXCEPT ![p] = [status |-> "pending", source |-> s,
                             wasm |-> @.wasm, errors |-> None, version |-> 1]]
    ELSE tbl

\* The old artefact stays in the row and the version does not move.
UpdatePluginCode(tbl, p, s) ==
    IF Exists(tbl, p)
    THEN [tbl EXCEPT ![p] = [status |-> "pending", source |-> s,
                             wasm |-> @.wasm, errors |-> None,
                             version |-> @.version]]
    ELSE tbl

\* Second statement of DeletePlugin.
DeletePluginRow(tbl, p) == [tbl EXCEPT ![p] = Absent]

-----------------------------------------------------------------------------
\* What a write may do: "ok" is applied and acknowledged, "rejected" is
\* neither, "unacked" is applied while the caller gets an error (the
\* connection to the database died before the answer arrived).
Outcome == {"ok", "rejected", "unacked"}

\* The table after a write whose effect is next.
Written(tbl, o, next) == IF o = "rejected" THEN tbl ELSE next
=============================================================================
