---------------------------- MODULE StoreLemmas ----------------------------
(***************************************************************************)
(* What the statements of PluginStore do to a well-formed plugins table.   *)
(***************************************************************************)
EXTENDS PluginStore, TLAPS

Table == [Plugin -> Row]

\* A row that exists has a source: only then can it be fetched and built.
Sourced(tbl) == \A p \in Plugin : Exists(tbl, p) => tbl[p].source \in Source

\* handleCreatePlugin's insert makes a well-formed row.
LEMMA SavePluginType ==
  ASSUME NEW tbl \in Table, NEW p \in Plugin, NEW s \in Source, Sourced(tbl)
  PROVE  /\ SavePlugin(tbl, p, s) \in Table
         /\ Sourced(SavePlugin(tbl, p, s))
  BY DEF SavePlugin, Table, Sourced, Exists, Row, Statuses

\* An update keeps the table well-formed, whether or not the row exists.
LEMMA UpdateCodeType ==
  ASSUME NEW tbl \in Table, NEW p \in Plugin, NEW s \in Source, Sourced(tbl)
  PROVE  /\ UpdatePluginCode(tbl, p, s) \in Table
         /\ Sourced(UpdatePluginCode(tbl, p, s))
  BY DEF UpdatePluginCode, Table, Sourced, Exists, Row, Statuses

\* A verdict keeps the table well-formed, whether or not the row exists.
LEMMA UpdateStatusType ==
  ASSUME NEW tbl \in Table, NEW p \in Plugin, Sourced(tbl),
         NEW st \in {"compiled", "failed"},
         NEW w \in Source \cup {None}, NEW e \in Source \cup {None}
  PROVE  /\ UpdatePluginStatus(tbl, p, st, w, e) \in Table
         /\ Sourced(UpdatePluginStatus(tbl, p, st, w, e))
  BY DEF UpdatePluginStatus, Table, Sourced, Exists, Row, Statuses

\* Deleting a row leaves the others well-formed.
LEMMA DeleteRowType ==
  ASSUME NEW tbl \in Table, NEW p \in Plugin, Sourced(tbl)
  PROVE  /\ DeletePluginRow(tbl, p) \in Table
         /\ Sourced(DeletePluginRow(tbl, p))
  BY DEF DeletePluginRow, Table, Sourced, Exists, Absent, Row, Statuses

\* However a write ends, the table is the old one or the intended one.
LEMMA WrittenEither ==
  ASSUME NEW tbl, NEW o, NEW next
  PROVE  Written(tbl, o, next) \in {tbl, next}
  BY DEF Written

-----------------------------------------------------------------------------
\* handleCreatePlugin's insert makes the row of p; every other row is left alone.
LEMMA SavePluginRow ==
  ASSUME NEW tbl \in Table, NEW p \in Plugin, NEW s \in Source
  PROVE  /\ \A q \in Plugin \ {p} : SavePlugin(tbl, p, s)[q] = tbl[q]
         /\ SavePlugin(tbl, p, s)[p] =
              [status |-> "pending", source |-> s, wasm |-> None,
               errors |-> None, version |-> 1]
  BY DEF SavePlugin, Table

\* A PUT gives a row that exists its new text and touches no other row.
LEMMA UpdateCodeRow ==
  ASSUME NEW tbl \in Table, NEW p \in Plugin, NEW s \in Source
  PROVE  /\ \A q \in Plugin \ {p} : UpdatePluginCode(tbl, p, s)[q] = tbl[q]
         /\ ~Exists(tbl, p) => UpdatePluginCode(tbl, p, s) = tbl
         /\ Exists(tbl, p) =>
              UpdatePluginCode(tbl, p, s)[p] =
                [status |-> "pending", source |-> s, wasm |-> tbl[p].wasm,
                 errors |-> None, version |-> tbl[p].version]
  BY DEF UpdatePluginCode, Table

\* A verdict goes to the row of p, if there is one, and to no other row.
LEMMA UpdateStatusRow ==
  ASSUME NEW tbl \in Table, NEW p \in Plugin, NEW st, NEW w, NEW e
  PROVE  /\ \A q \in Plugin \ {p} :
              UpdatePluginStatus(tbl, p, st, w, e)[q] = tbl[q]
         /\ ~Exists(tbl, p) => UpdatePluginStatus(tbl, p, st, w, e) = tbl
         /\ Exists(tbl, p) =>
              UpdatePluginStatus(tbl, p, st, w, e)[p] =
                [status |-> st, source |-> tbl[p].source, wasm |-> w,
                 errors |-> e, version |-> tbl[p].version + 1]
  BY DEF UpdatePluginStatus, Table

\* Deleting p leaves no row of p and every other row as it was.
LEMMA DeleteRowRow ==
  ASSUME NEW tbl \in Table, NEW p \in Plugin
  PROVE  /\ \A q \in Plugin \ {p} : DeletePluginRow(tbl, p)[q] = tbl[q]
         /\ DeletePluginRow(tbl, p)[p] = Absent
  BY DEF DeletePluginRow, Table
=============================================================================
