----------------------------- MODULE Dashboard -----------------------------
(***************************************************************************)
(* The dashboard in the browser, beside the host it talks to.  Everything  *)
(* it shows is a snapshot: it asks, and some time later stores the answer, *)
(* whatever the user has done in between.  A handler goes on with the      *)
(* selection of the render it was created in (its closure), so a request   *)
(* carries that selection.  The host is PluginCatalog, which the pipeline  *)
(* implements.                                                             *)
(*                                                                         *)
(* One text stands for all sources: what matters of the text in the editor *)
(* is whose it is.  An effect runs before the next event, so that it is    *)
(* part of the step that changed what it depends on.  The tab shown, the   *)
(* input payload and the charts are left out.                              *)
(***************************************************************************)
EXTENDS Naturals, FiniteSets

CONSTANTS
    Plugin,        \* ids, those not registered yet included
    Existing,      \* the plugins registered before the page is opened
    None,
    Act,           \* what the user (and other clients of the API) may do
    Outcome,       \* bound: the decisions the host takes
    MaxInFlight,   \* bound: requests in flight, metrics apart
    MaxAsked,      \* bound: plugins whose metrics are awaited
    MaxTimers,     \* bound: intervals that are live or have polls in flight
    MaxFaults,     \* bound: requests or answers the network loses
    MountFetches   \* fetches of the mount effect: 2 under StrictMode, else 1

ASSUME DashboardAssumption ==
    /\ Existing \subseteq Plugin
    /\ None \notin Plugin
    /\ Outcome \subseteq {"compiled", "failed"}
    /\ MaxInFlight \in Nat /\ MaxAsked \in Nat
    /\ MaxTimers \in Nat /\ MaxFaults \in Nat
    /\ MountFetches \in 0 .. MaxInFlight
    /\ None \notin 1 .. MaxTimers

VARIABLES
    catalog, owed, restarts,  \* the host, see PluginCatalog
    abandonedRuns,     \* runs on the host whose answer was lost
    plugins,           \* the entries listed for each plugin
    selectedPlugin,    \* the snapshot selected
    editorCode,        \* the plugin whose text the editor holds
    showCreateModal, isCompiling, isRunning, backendConnected,
    execResult,        \* the plugin whose run the console shows
    metricsData,       \* the plugin whose history the chart shows
    timers,            \* the live intervals of startPolling
    pollingRef,        \* the interval registered for each plugin
    wire,              \* requests in flight
    asked,             \* the plugins whose metrics are awaited
    faults             \* requests and answers lost so far

Text == "text"
Host == INSTANCE PluginCatalog WITH Source <- {Text}

catalogVars == <<catalog, owed, restarts>>
hostVars == <<catalogVars, abandonedRuns>>
panelVars == <<editorCode, execResult, metricsData, asked>>
pollVars == <<timers, pollingRef>>
shownVars == <<selectedPlugin, isCompiling, timers, pollingRef>>
vars == <<hostVars, plugins, panelVars, showCreateModal, isRunning,
          backendConnected, shownVars, wire, faults>>

Slot == 1 .. MaxInFlight
Timer == 1 .. MaxTimers

NoPlugin == [id |-> None, status |-> "absent"]
NoPoll == [id |-> None, sel |-> None]

-----------------------------------------------------------------------------
(* Requests.  seen: the status the answer tells of each plugin.            *)

Seen == [Plugin -> Host!Live \cup {"absent"}]
Nothing == [p \in Plugin |-> "absent"]
Only(p, status) == [Nothing EXCEPT ![p] = status]

\* What the host would list now.
View == [p \in Plugin |-> IF catalog[p].status \in Host!Live
                          THEN catalog[p].status ELSE "absent"]

\* sel: the selection in the closure.  text: whose text a save sends.
Idle == [kind |-> "idle", id |-> None, sel |-> None, text |-> None,
         timer |-> None, phase |-> "none", seen |-> Nothing]

Request(kind, id, sel, text, timer) ==
    [kind |-> kind, id |-> id, sel |-> sel, text |-> text,
     timer |-> timer, phase |-> "sent", seen |-> Nothing]

Requests ==
    [kind: {"idle", "first", "list", "create", "save", "delete", "run", "poll"},
     id: Plugin \cup {None}, sel: Plugin \cup {None},
     text: Plugin \cup {None}, timer: Timer \cup {None},
     phase: {"none", "sent", "stored", "running", "ok", "error"}, seen: Seen]

FreeSlot(s) ==
    /\ s \in Slot /\ wire[s] = Idle
    /\ \A u \in Slot : u < s => wire[u] # Idle

Send(r) == \E s \in Slot : FreeSlot(s) /\ wire' = [wire EXCEPT ![s] = r]

\* The answer of request s is there, and is taken off the wire.
Receive(s, kind, phase) ==
    /\ wire[s].kind = kind /\ wire[s].phase = phase
    /\ wire' = [wire EXCEPT ![s] = Idle]

\* A request too many for MaxAsked is one that fails, which is only logged.
fetchMetrics(p) ==
    asked' = IF Cardinality(asked) < MaxAsked THEN asked \cup {p} ELSE asked

-----------------------------------------------------------------------------
(* Polling.  st is [live |-> timers, ref |-> pollingRef] at some point of  *)
(* a handler.                                                              *)

Polls == [live |-> timers, ref |-> pollingRef]

Unused(st, t) ==
    /\ st.live[t] = NoPoll
    /\ \A p \in Plugin : st.ref[p] # t
    /\ \A s \in Slot : wire[s].timer # t

\* Bound: the user does nothing that may start an interval unless each answer
\* in flight finds one unused too.
Room == Cardinality({t \in Timer : Unused(Polls, t)}) > MaxInFlight

Cleared(st, p) ==
    [live |-> [t \in Timer |-> IF t = st.ref[p] THEN NoPoll ELSE st.live[t]],
     ref |-> [st.ref EXCEPT ![p] = None]]

startPolling(st, p, sel) ==
    LET c == Cleared(st, p)
        t == CHOOSE t \in Timer : Unused(c, t)
    IN [live |-> [c.live EXCEPT ![t] = [id |-> p, sel |-> sel]],
        ref |-> [c.ref EXCEPT ![p] = t]]

\* Room sees to it.
HasTimer(st, p) == \E t \in Timer : Unused(Cleared(st, p), t)

\* The effect on the selected id, when selection n follows.
Moves(n) == n.id # selectedPlugin.id

\* Mutant of EffectPolls: the effect sets the flag and polls nothing.
EffectOnlySetsFlag(n, st) == st

EffectPolls(n, st) ==
    IF Moves(n) /\ n.status = "pending" THEN startPolling(st, n.id, n.id) ELSE st

\* A handler leaves selection n, polls st and the flag compiling; the effect
\* follows.
Shows(n, st, compiling) ==
    /\ Moves(n) /\ n.status = "pending" => HasTimer(st, n.id)
    /\ selectedPlugin' = n
    /\ isCompiling' = IF Moves(n) THEN n.status = "pending" ELSE compiling
    /\ timers' = EffectPolls(n, st).live
    /\ pollingRef' = EffectPolls(n, st).ref

handleSelectPlugin(n, st) ==
    /\ Shows(n, st, isCompiling)
    /\ editorCode' = n.id
    /\ execResult' = None
    /\ metricsData' = None
    /\ fetchMetrics(n.id)

-----------------------------------------------------------------------------
\* The mount effect has fetched the plugins, twice where StrictMode mounts
\* the page twice.
Mounted == [s \in Slot |-> IF s <= MountFetches
                           THEN Request("first", None, None, None, None)
                           ELSE Idle]

Init ==
    /\ catalog = [p \in Plugin |-> IF p \in Existing THEN Host!Pending(Text)
                                                     ELSE Host!Unborn]
    /\ owed = Existing
    /\ restarts = 0
    /\ abandonedRuns = 0
    /\ plugins = [p \in Plugin |-> {}]
    /\ selectedPlugin = NoPlugin
    /\ editorCode = None
    /\ showCreateModal = FALSE
    /\ isCompiling = FALSE
    /\ isRunning = FALSE
    /\ backendConnected = TRUE
    /\ execResult = None
    /\ metricsData = None
    /\ timers = [t \in Timer |-> NoPoll]
    /\ pollingRef = [p \in Plugin |-> None]
    /\ wire = Mounted
    /\ asked = {}
    /\ faults = 0

-----------------------------------------------------------------------------
(* The user.                                                               *)

ClickPlugin(p) ==
    /\ "select" \in Act
    /\ Room
    /\ \E status \in plugins[p] :
         handleSelectPlugin([id |-> p, status |-> status], Polls)
    /\ UNCHANGED <<hostVars, plugins, showCreateModal, isRunning,
                   backendConnected, wire, faults>>

ClickRefresh ==
    /\ "refresh" \in Act
    /\ Room
    /\ Send(Request("list", None, selectedPlugin.id, None, None))
    /\ UNCHANGED <<hostVars, plugins, panelVars, showCreateModal, isRunning,
                   backendConnected, shownVars, faults>>

OpenCreate ==
    /\ "create" \in Act
    /\ showCreateModal' = TRUE
    /\ UNCHANGED <<hostVars, plugins, panelVars, isRunning, backendConnected,
                   shownVars, wire, faults>>

CancelCreate ==
    /\ showCreateModal
    /\ showCreateModal' = FALSE
    /\ UNCHANGED <<hostVars, plugins, panelVars, isRunning, backendConnected,
                   shownVars, wire, faults>>

\* Nothing disables the form while an answer is awaited.
SubmitCreate ==
    /\ showCreateModal
    /\ Room
    /\ Send(Request("create", None, selectedPlugin.id, None, None))
    /\ UNCHANGED <<hostVars, plugins, panelVars, showCreateModal, isRunning,
                   backendConnected, shownVars, faults>>

CanDeploy == selectedPlugin # NoPlugin /\ ~isCompiling /\ backendConnected

handleSaveAndCompile ==
    /\ "save" \in Act
    /\ CanDeploy
    /\ Room
    /\ isCompiling' = TRUE
    /\ Send(Request("save", selectedPlugin.id, selectedPlugin.id, editorCode, None))
    /\ UNCHANGED <<hostVars, plugins, panelVars, showCreateModal, isRunning,
                   backendConnected, selectedPlugin, pollVars, faults>>

ClickDelete(p) ==
    /\ "delete" \in Act
    /\ plugins[p] # {}
    /\ Send(Request("delete", p, selectedPlugin.id, None, None))
    /\ UNCHANGED <<hostVars, plugins, panelVars, showCreateModal, isRunning,
                   backendConnected, shownVars, faults>>

\* Mutant of CanRun: the button is not disabled while a run is awaited.
CanRunAgain == selectedPlugin.status = "compiled"

CanRun == selectedPlugin.status = "compiled" /\ ~isRunning

handleRunExecution ==
    /\ "run" \in Act
    /\ CanRun
    /\ isRunning' = TRUE
    /\ execResult' = None
    /\ Send(Request("run", selectedPlugin.id, selectedPlugin.id, None, None))
    /\ UNCHANGED <<hostVars, plugins, editorCode, metricsData, asked,
                   showCreateModal, backendConnected, shownVars, faults>>

CanLoadTemplate == selectedPlugin # NoPlugin

\* The template is the user's text for the plugin selected.  The name goes with
\* the text: a user who loads one into an empty editor has typed a name too.
handleLoadTemplate ==
    /\ "template" \in Act
    /\ CanLoadTemplate
    /\ editorCode' = selectedPlugin.id
    /\ UNCHANGED <<hostVars, plugins, execResult, metricsData, asked,
                   showCreateModal, isRunning, backendConnected, shownVars,
                   wire, faults>>

UserActs ==
    \/ \E p \in Plugin : ClickPlugin(p) \/ ClickDelete(p)
    \/ ClickRefresh
    \/ OpenCreate \/ CancelCreate \/ SubmitCreate
    \/ handleSaveAndCompile
    \/ handleRunExecution
    \/ handleLoadTemplate

-----------------------------------------------------------------------------
(* Intervals.                                                              *)

\* Mutant of ListTick: while disconnected the interval returns early.
TickWhenConnected ==
    \/ /\ backendConnected
       /\ \A s \in Slot : wire[s].kind \notin {"first", "list"}
       /\ Send(Request("list", None, None, None, None))
       /\ UNCHANGED <<hostVars, plugins, panelVars, showCreateModal, isRunning,
                      backendConnected, shownVars, faults>>
    \/ ~backendConnected /\ UNCHANGED vars

\* Created by the mount effect: its closure has no selection.  Bound: 10 s are
\* enough for the last list to arrive.
ListTick ==
    /\ \A s \in Slot : wire[s].kind \notin {"first", "list"}
    /\ Send(Request("list", None, None, None, None))
    /\ UNCHANGED <<hostVars, plugins, panelVars, showCreateModal, isRunning,
                   backendConnected, shownVars, faults>>

PollTick(t) ==
    /\ timers[t] # NoPoll
    /\ Send(Request("poll", timers[t].id, timers[t].sel, None, t))
    /\ UNCHANGED <<hostVars, plugins, panelVars, showCreateModal, isRunning,
                   backendConnected, shownVars, faults>>

-----------------------------------------------------------------------------
(* The host, and the network between.                                      *)

uiVars == <<plugins, panelVars, showCreateModal, isRunning, backendConnected,
            shownVars>>

Answer(s, id, phase, seen) ==
    wire' = [wire EXCEPT ![s] = [kind |-> @.kind, id |-> id, sel |-> @.sel,
                                 text |-> @.text, timer |-> @.timer,
                                 phase |-> phase, seen |-> seen]]

HandleCreate(s) ==
    /\ wire[s].kind = "create" /\ wire[s].phase = "sent"
    /\ \/ \E p \in Plugin : /\ Host!Register(p, Text)
                            /\ Answer(s, p, "ok", Only(p, "pending"))
       \/ /\ \A p \in Plugin : catalog[p].status # "unborn"
          /\ Answer(s, None, "error", Nothing)
          /\ UNCHANGED hostVars

\* An empty text is refused.  The answer is read back after the update: see
\* HandleRead.
HandleSave(s) ==
    /\ wire[s].kind = "save" /\ wire[s].phase = "sent"
    /\ \/ /\ wire[s].text # None
          /\ Host!Resubmit(wire[s].id, Text)
          /\ Answer(s, wire[s].id, "stored", Nothing)
       \/ /\ wire[s].text = None \/ View[wire[s].id] = "absent"
          /\ Answer(s, wire[s].id, "error", Nothing)
          /\ UNCHANGED hostVars

\* Deleting what is not there is not an error.
HandleDelete(s) ==
    /\ wire[s].kind = "delete" /\ wire[s].phase = "sent"
    /\ \/ Host!Remove(wire[s].id)
       \/ View[wire[s].id] = "absent" /\ UNCHANGED hostVars
    /\ Answer(s, wire[s].id, "ok", Nothing)

HandleList(s) ==
    /\ wire[s].kind \in {"first", "list"} /\ wire[s].phase = "sent"
    /\ Answer(s, None, "ok", View)
    /\ UNCHANGED hostVars

HandleRead(s) ==
    /\ \/ wire[s].kind = "poll" /\ wire[s].phase = "sent"
       \/ wire[s].phase = "stored"
    /\ LET p == wire[s].id
       IN \/ View[p] # "absent" /\ Answer(s, p, "ok", Only(p, View[p]))
          \/ View[p] = "absent" /\ Answer(s, p, "error", Nothing)
    /\ UNCHANGED hostVars

\* The status is tested, and engine.Run entered.
BeginRun(s) ==
    /\ wire[s].kind = "run" /\ wire[s].phase = "sent"
    /\ LET p == wire[s].id
       IN \/ View[p] = "compiled" /\ Answer(s, p, "running", Nothing)
          \/ View[p] # "compiled" /\ Answer(s, p, "error", Nothing)
    /\ UNCHANGED hostVars

\* engine.Run returns, the execution is saved and the result sent.
EndRun(s) ==
    /\ wire[s].phase = "running"
    /\ Answer(s, wire[s].id, "ok", Nothing)
    /\ UNCHANGED hostVars

HostHandles(s) ==
    /\ \/ HandleCreate(s) \/ HandleSave(s) \/ HandleDelete(s)
       \/ HandleList(s) \/ HandleRead(s) \/ BeginRun(s) \/ EndRun(s)
    /\ UNCHANGED <<abandonedRuns, uiVars, faults>>

\* A handler or the network fails: before the request had its effect, or
\* after, which the dashboard cannot tell.  A run whose handler failed is
\* over; one that lost its connection goes on, engine.Run has no context.
NetworkFails(s) ==
    /\ faults < MaxFaults
    /\ wire[s].phase \in {"sent", "stored", "running", "ok"}
    /\ faults' = faults + 1
    /\ Answer(s, wire[s].id, "error", Nothing)
    /\ \/ wire[s].phase = "running" /\ abandonedRuns' = abandonedRuns + 1
       \/ UNCHANGED abandonedRuns
    /\ UNCHANGED <<catalogVars, uiVars>>

\* A run nobody waits for ends, and its result goes nowhere.
EndAbandonedRun ==
    /\ abandonedRuns > 0
    /\ abandonedRuns' = abandonedRuns - 1
    /\ UNCHANGED <<catalogVars, uiVars, wire, faults>>

HostDecides(p) ==
    /\ \E status \in Outcome : Host!Decide(p, Text, status)
    /\ UNCHANGED <<abandonedRuns, uiVars, wire, faults>>

\* Another page, or a client of the API.
OtherClient(p) ==
    /\ "api" \in Act
    /\ Host!Resubmit(p, Text) \/ Host!Remove(p)
    /\ UNCHANGED <<abandonedRuns, uiVars, wire, faults>>

-----------------------------------------------------------------------------
(* Answers.                                                                *)

Listed(seen) == [p \in Plugin |-> {seen[p]} \ {"absent"}]
Present(seen) == {p \in Plugin : seen[p] # "absent"}

\* fetchPlugins(true) selects the first of the list, which is the newest
\* plugin: which that is is left open.
SelectsFirst(r) == r.kind = "first" /\ Present(r.seen) # {}

\* Otherwise the selection in the closure is selected again, if it is listed.
Reselects(r) == r.kind = "list" /\ r.sel \in Present(r.seen)

ListArrives(s) ==
    LET r == wire[s]
    IN /\ r.kind \in {"first", "list"} /\ Receive(s, r.kind, "ok")
       /\ plugins' = Listed(r.seen)
       /\ backendConnected' = TRUE
       /\ \/ /\ SelectsFirst(r)
             /\ \E p \in Present(r.seen) :
                  handleSelectPlugin([id |-> p, status |-> r.seen[p]], Polls)
          \/ /\ Reselects(r)
             /\ Shows([id |-> r.sel, status |-> r.seen[r.sel]], Polls, isCompiling)
             /\ UNCHANGED panelVars
          \/ ~SelectsFirst(r) /\ ~Reselects(r) /\ UNCHANGED <<shownVars, panelVars>>
       /\ UNCHANGED <<hostVars, showCreateModal, isRunning, faults>>

ListFails(s) ==
    /\ wire[s].kind \in {"first", "list"} /\ Receive(s, wire[s].kind, "error")
    /\ backendConnected' = FALSE
    /\ UNCHANGED <<hostVars, plugins, panelVars, showCreateModal, isRunning,
                   shownVars, faults>>

\* The interval started here has the selection of the submit in its closure;
\* when the created plugin was not selected yet, the effect replaces it.
CreateArrives(s) ==
    LET r == wire[s]
        p == r.id
        n == [id |-> p, status |-> r.seen[p]]
    IN /\ Receive(s, "create", "ok")
       /\ HasTimer(Polls, p)
       /\ plugins' = [plugins EXCEPT ![p] = @ \cup {r.seen[p]}]
       /\ showCreateModal' = FALSE
       /\ handleSelectPlugin(n, startPolling(Polls, p, r.sel))
       /\ UNCHANGED <<hostVars, isRunning, backendConnected, faults>>

Updated(p, status) ==
    [plugins EXCEPT ![p] = IF @ = {} THEN {} ELSE {status}]

SaveArrives(s) ==
    LET r == wire[s]
        p == r.id
    IN /\ Receive(s, "save", "ok")
       /\ HasTimer(Polls, p)
       /\ plugins' = Updated(p, r.seen[p])
       /\ Shows([id |-> p, status |-> r.seen[p]], startPolling(Polls, p, r.sel),
                isCompiling)
       /\ UNCHANGED <<hostVars, panelVars, showCreateModal, isRunning,
                      backendConnected, faults>>

\* Mutant of SaveFails: the catch only logs.
SaveFailsLogged(s) ==
    /\ Receive(s, "save", "error")
    /\ UNCHANGED <<hostVars, uiVars, faults>>

SaveFails(s) ==
    /\ Receive(s, "save", "error")
    /\ isCompiling' = FALSE
    /\ UNCHANGED <<hostVars, plugins, panelVars, showCreateModal, isRunning,
                   backendConnected, selectedPlugin, pollVars, faults>>

\* The selection cleared is the one at the click; polling goes on.
DeleteArrives(s) ==
    LET p == wire[s].id
    IN /\ Receive(s, "delete", "ok")
       /\ plugins' = [plugins EXCEPT ![p] = {}]
       /\ \/ /\ wire[s].sel = p
             /\ Shows(NoPlugin, Polls, isCompiling)
             /\ editorCode' = None
             /\ execResult' = None
             /\ metricsData' = None
             /\ UNCHANGED asked
          \/ wire[s].sel # p /\ UNCHANGED <<shownVars, panelVars>>
       /\ UNCHANGED <<hostVars, showCreateModal, isRunning, backendConnected,
                      faults>>

\* The user is told, and nothing else.
AlertsFailure(s) ==
    /\ \E kind \in {"create", "delete"} : Receive(s, kind, "error")
    /\ UNCHANGED <<hostVars, uiVars, faults>>

\* The result is shown, a failed run's too, whatever is selected by now.
RunArrives(s) ==
    /\ \/ Receive(s, "run", "ok") /\ fetchMetrics(wire[s].id)
       \/ Receive(s, "run", "error") /\ UNCHANGED asked
    /\ execResult' = wire[s].id
    /\ isRunning' = FALSE
    /\ UNCHANGED <<hostVars, plugins, editorCode, metricsData, showCreateModal,
                   backendConnected, shownVars, faults>>

\* Mutants of Ended: the registration is not deleted, the interval not cleared.
EndedStillRegistered(t, p) ==
    [live |-> [timers EXCEPT ![t] = NoPoll], ref |-> pollingRef]
EndedStillRunning(t, p) ==
    [live |-> timers, ref |-> [pollingRef EXCEPT ![p] = None]]

\* clearInterval(interval); delete pollingRef.current[id]: the interval is
\* this poll's own, the registration may be another's.
Ended(t, p) ==
    [live |-> [timers EXCEPT ![t] = NoPoll],
     ref |-> [pollingRef EXCEPT ![p] = None]]

PollArrives(s) ==
    LET r == wire[s]
        p == r.id
        st == Ended(r.timer, p)
    IN /\ Receive(s, "poll", "ok")
       /\ \/ /\ r.seen[p] = "pending"
             /\ UNCHANGED <<plugins, shownVars>>
          \/ /\ r.seen[p] # "pending"
             /\ plugins' = Updated(p, r.seen[p])
             /\ \/ /\ r.sel = p
                   /\ Shows([id |-> p, status |-> r.seen[p]], st, FALSE)
                \/ /\ r.sel # p
                   /\ timers' = st.live /\ pollingRef' = st.ref
                   /\ UNCHANGED <<selectedPlugin, isCompiling>>
       /\ UNCHANGED <<hostVars, panelVars, showCreateModal, isRunning,
                      backendConnected, faults>>

\* Mutant of PollFails: the body of an error is taken for the plugin.
PollFailsUnchecked(s) ==
    /\ Receive(s, "poll", "error")
    /\ plugins' = Updated(wire[s].id, wire[s].seen[wire[s].id])
    /\ UNCHANGED <<hostVars, panelVars, showCreateModal, isRunning,
                   backendConnected, shownVars, faults>>

\* A plugin that is gone is asked for again at the next tick.
PollFails(s) ==
    /\ Receive(s, "poll", "error")
    /\ UNCHANGED <<hostVars, uiVars, faults>>

Arrives(s) ==
    \/ ListArrives(s) \/ ListFails(s)
    \/ CreateArrives(s) \/ DeleteArrives(s) \/ AlertsFailure(s)
    \/ SaveArrives(s) \/ SaveFails(s)
    \/ RunArrives(s)
    \/ PollArrives(s) \/ PollFails(s)

\* The history of a plugin without a run is null, which the page cannot
\* spread, and a failed answer is only logged: what is shown stays.
MetricsArrive(p) ==
    /\ p \in asked
    /\ asked' = asked \ {p}
    /\ metricsData' \in {p, metricsData}
    /\ UNCHANGED <<hostVars, plugins, editorCode, execResult, showCreateModal,
                   isRunning, backendConnected, shownVars, wire, faults>>

-----------------------------------------------------------------------------
\* What goes on without the user.
PageAndHostAct ==
    \/ ListTick
    \/ \E t \in Timer : PollTick(t)
    \/ EndAbandonedRun
    \/ \E s \in Slot : HostHandles(s) \/ NetworkFails(s) \/ Arrives(s)
    \/ \E p \in Plugin : HostDecides(p) \/ MetricsArrive(p)

Next ==
    \/ UserActs
    \/ \E p \in Plugin : OtherClient(p)
    \/ PageAndHostAct

Spec == Init /\ [][Next]_vars

\* Intervals fire, answers arrive, the host decides; the user need not act.
\* Strong where a request in flight disables the step now and then.
Fairness ==
    /\ SF_vars(ListTick)
    /\ \A t \in Timer : SF_vars(PollTick(t))
    /\ \A s \in Slot : WF_vars(HostHandles(s)) /\ WF_vars(Arrives(s))
    /\ \A p \in Plugin : WF_vars(HostDecides(p))

FairSpec == Spec /\ Fairness

-----------------------------------------------------------------------------
(* Properties.                                                             *)

\* Every variable stays within its type.
DashTypeOK ==
    /\ catalog \in [Plugin -> Host!Entry]
    /\ owed \subseteq Plugin
    /\ restarts \in Nat /\ abandonedRuns \in Nat
    /\ plugins \in [Plugin -> SUBSET Host!Live]
    /\ selectedPlugin \in [id: Plugin, status: Host!Live] \cup {NoPlugin}
    /\ editorCode \in Plugin \cup {None}
    /\ execResult \in Plugin \cup {None}
    /\ metricsData \in Plugin \cup {None}
    /\ {showCreateModal, isCompiling, isRunning, backendConnected} \subseteq BOOLEAN
    /\ timers \in [Timer -> [id: Plugin, sel: Plugin \cup {None}] \cup {NoPoll}]
    /\ pollingRef \in [Plugin -> Timer \cup {None}]
    /\ wire \in [Slot -> Requests]
    /\ asked \subseteq Plugin
    /\ faults \in 0 .. MaxFaults

\* What is registered for a plugin is an interval that runs and polls that
\* plugin: startPolling never clears in vain, and leaves no interval of this
\* plugin running but those a late poll has unregistered.
RegisteredIsLive ==
    \A p \in Plugin : pollingRef[p] # None => timers[pollingRef[p]].id = p

\* The runs of this page that the host is busy with.
HostRuns == Cardinality({s \in Slot : wire[s].phase = "running"}) + abandonedRuns

\* Execute is disabled exactly while an answer is awaited, whatever is selected
\* meanwhile, so that the page awaits one run at a time; and the host gets a
\* second run of the page only by an answer that was lost, which enables the
\* button while the run goes on.
OnlyLossesDoubleRuns ==
    /\ isRunning <=> \E s \in Slot : wire[s].kind = "run"
    /\ \A s, u \in Slot : wire[s].kind = "run" /\ wire[u].kind = "run" => s = u
    /\ HostRuns <= 1 + faults

\* While the button says "Compiling cargo...", something is on its way that
\* will end it: the answer of a save, or an interval that polls the plugin
\* selected and will find it selected.  Created plugins are the exception: see
\* CreateArrives.
CompilingCanEnd ==
    isCompiling =>
        \/ \E s \in Slot : wire[s].kind = "save"
        \/ \E t \in Timer : timers[t] = [id |-> selectedPlugin.id,
                                        sel |-> selectedPlugin.id]

\* The Deploy button comes back: "Compiling cargo..." ends, once the host has
\* decided, unless the plugin shown is gone.
CompilingEnds ==
    \A p \in Plugin :
        (isCompiling /\ selectedPlugin.id = p)
            ~> \/ ~isCompiling \/ selectedPlugin.id # p
               \/ catalog[p].status = "gone"

\* Once the host has decided on a plugin for good, the page stops polling it
\* and lists the decision, outages, stale answers and leaked intervals
\* notwithstanding.
PageSettles ==
    \A p \in Plugin, status \in Outcome :
        <>[](View[p] = status)
            => <>[](plugins[p] = {status} /\ \A t \in Timer : timers[t].id # p)

\* A page that was told the host is not there is told so, without the user,
\* when it is back.
ReconnectsAlone == []<>backendConnected

\* What Deploy sends to a plugin is that plugin's text, unless it is empty,
\* which the host refuses.
SavesOwnText ==
    \A s \in Slot : wire[s].kind = "save" => wire[s].text \in {wire[s].id, None}
=============================================================================
