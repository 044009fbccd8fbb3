------------------------- MODULE PipelineRefinement -------------------------
(***************************************************************************)
(* CompilePipeline, as long as the database does not fail, implements      *)
(* PluginCatalog.  A debt is a queued id, a blocked sender, a dequeued id  *)
(* whose row was not read yet, or a build in flight.                       *)
(***************************************************************************)
EXTENDS CompilePipeline

EntryOf(p) ==
    IF p \notin issued
    THEN [status |-> "unborn", source |-> None, verdict |-> None]
    ELSE IF ~Exists(plugins, p)
    THEN [status |-> "gone", source |-> None, verdict |-> None]
    ELSE [status |-> plugins[p].status,
          source |-> plugins[p].source,
          verdict |-> IF plugins[p].status = "compiled" THEN plugins[p].wasm
                      ELSE plugins[p].errors]

CatalogOf == [p \in Plugin |-> EntryOf(p)]

OwedOf == {p \in Plugin : Exists(plugins, p) /\ (JobDue(p) \/ Building(p))}

Cat == INSTANCE PluginCatalog WITH catalog <- CatalogOf, owed <- OwedOf,
                                  restarts <- crashes

\* Every behaviour of handlers, queue and worker is one the catalog allows:
\* in particular the build that was overtaken by an update stores a verdict
\* on the old text only while another build of the row is still to come, and
\* nothing but a crash of the host loses the build.
ImplementsCatalog == Cat!Spec
=============================================================================
