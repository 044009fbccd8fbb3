--------------------------- MODULE PluginCatalog ---------------------------
(***************************************************************************)
(* What the control plane promises, with no queue, no worker and no        *)
(* handler in sight: a client registers and resubmits plugins, the host    *)
(* decides on them, and it owes a decision to every plugin until it has    *)
(* decided on the text the plugin has now.  A decision may be late, about  *)
(* a text that was replaced in the meantime, but it does not pay the debt. *)
(* A restart is the one excuse: the host forgets what it owes, and not a   *)
(* word of what it has told.                                               *)
(***************************************************************************)
EXTENDS Naturals

CONSTANTS Plugin, Source, None

VARIABLES
    catalog,  \* what a client sees of each plugin
    owed,     \* the plugins the host owes a decision
    restarts  \* how often the host came back from a crash

catVars == <<catalog, owed, restarts>>

Live == {"pending", "compiled", "failed"}

\* verdict: the text the decision is about.
Entry == [status: Live \cup {"unborn", "gone"},
          source: Source \cup {None},
          verdict: Source \cup {None}]

Unborn == [status |-> "unborn", source |-> None, verdict |-> None]
Gone == [status |-> "gone", source |-> None, verdict |-> None]
Pending(s) == [status |-> "pending", source |-> s, verdict |-> None]

Init ==
    /\ catalog = [p \in Plugin |-> Unborn]
    /\ owed = {}
    /\ restarts = 0

Register(p, s) ==
    /\ catalog[p].status = "unborn"
    /\ catalog' = [catalog EXCEPT ![p] = Pending(s)]
    /\ owed' = owed \cup {p}
    /\ UNCHANGED restarts

Resubmit(p, s) ==
    /\ catalog[p].status \in Live
    /\ catalog' = [catalog EXCEPT ![p] = Pending(s)]
    /\ owed' = owed \cup {p}
    /\ UNCHANGED restarts

Remove(p) ==
    /\ catalog[p].status \in Live
    /\ catalog' = [catalog EXCEPT ![p] = Gone]
    /\ owed' = owed \ {p}
    /\ UNCHANGED restarts

\* The debt may be paid, and need not be, by a decision on the current text.
Decide(p, s, status) ==
    /\ p \in owed
    /\ catalog' = [catalog EXCEPT ![p] = [status |-> status, source |-> @.source,
                                          verdict |-> s]]
    /\ \/ owed' = owed
       \/ s = catalog[p].source /\ owed' = owed \ {p}
    /\ UNCHANGED restarts

DecideSome(p) ==
    \E s \in Source, status \in {"compiled", "failed"} : Decide(p, s, status)

Restart ==
    /\ restarts' = restarts + 1
    /\ owed' = {}
    /\ UNCHANGED catalog

Next ==
    \/ \E p \in Plugin :
         \/ \E s \in Source : Register(p, s) \/ Resubmit(p, s)
         \/ Remove(p)
         \/ DecideSome(p)
    \/ Restart

SafeSpec == Init /\ [][Next]_catVars

\* A debt is not ignored for ever.
Spec == SafeSpec /\ \A p \in Plugin : WF_catVars(DecideSome(p))
=============================================================================
