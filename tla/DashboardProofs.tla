-------------------------- MODULE DashboardProofs --------------------------
(***************************************************************************)
(* Theorems about Dashboard, for every choice of its constants: any number *)
(* of plugins, requests in flight, intervals and faults.                   *)
(***************************************************************************)
EXTENDS Dashboard, FiniteSetTheorems, TLAPS

MaybePlugin == Plugin \cup {None}
Selections == [id: Plugin, status: Host!Live] \cup {NoPlugin}
Interval == [id: Plugin, sel: MaybePlugin]

\* What a request is about is known, and a good answer tells of a plugin that
\* was there.
RequestOK(r) ==
    /\ r \in Requests
    /\ r.kind \in {"save", "delete", "run", "poll"} => r.id \in Plugin
    /\ r.kind = "save" => r.sel = r.id
    /\ r.kind \in {"create", "save", "poll"} /\ r.phase = "ok" =>
         r.id \in Plugin /\ r.seen[r.id] \in Host!Live
    /\ r.phase = "stored" => r.kind = "save"
    /\ r.phase = "running" => r.kind = "run"
    /\ r.kind = "idle" => r.phase = "none"

\* The interval a poll came from is this one, or dead: its number is not given
\* out again as long as the poll is in flight.
Matches(r, live) ==
    r.kind = "poll" =>
        /\ r.timer \in Timer
        /\ live[r.timer] \in {NoPoll, [id |-> r.id, sel |-> r.sel]}

\* A registration names an interval that runs for its plugin.
PollsOK(st) ==
    /\ st.live \in [Timer -> Interval \cup {NoPoll}]
    /\ st.ref \in [Plugin -> Timer \cup {None}]
    /\ \A p \in Plugin : st.ref[p] # None => st.live[st.ref[p]].id = p
    /\ \A s \in Slot : Matches(wire[s], st.live)

DInv ==
    /\ DashTypeOK
    /\ \A s \in Slot : RequestOK(wire[s])
    /\ PollsOK(Polls)

NextPolls == [live |-> timers', ref |-> pollingRef']

\* What the selection and the slots are, by type.
LEMMA Typed ==
    ASSUME DashTypeOK
    PROVE  /\ selectedPlugin \in Selections /\ selectedPlugin.id \in MaybePlugin
           /\ selectedPlugin # NoPlugin => selectedPlugin.id \in Plugin
           /\ wire \in [Slot -> Requests] /\ None \notin Plugin /\ None \notin Timer
  BY DashboardAssumption DEF DashTypeOK, Selections, MaybePlugin, NoPlugin, Timer

\* What an answer may tell.
LEMMA SeenTyped ==
    /\ Nothing \in Seen
    /\ \A p \in Plugin : View[p] \in Host!Live \cup {"absent"}
    /\ View \in Seen
    /\ \A p \in Plugin, st \in Host!Live \cup {"absent"} :
         Only(p, st) \in Seen /\ Only(p, st)[p] = st
  BY DEF Nothing, Seen, View, Only, Host!Live

\* No request is in flight in a free place.
LEMMA IdleOK == RequestOK(Idle)
<1>1. Idle \in Requests
  BY SeenTyped DEF Idle, Requests
<1> QED
  BY <1>1 DEF RequestOK, Idle

-----------------------------------------------------------------------------
(* Polling.                                                                *)

\* Clearing the interval of a plugin leaves the others registered.
LEMMA ClearedOK ==
    ASSUME NEW st, PollsOK(st), NEW p \in Plugin, None \notin Timer
    PROVE  PollsOK(Cleared(st, p))
<1> DEFINE c == Cleared(st, p)
<1>1. /\ c.live = [t \in Timer |-> IF t = st.ref[p] THEN NoPoll ELSE st.live[t]]
      /\ c.ref = [st.ref EXCEPT ![p] = None]
  BY DEF Cleared
<1> HIDE DEF c
<1>2. c.live \in [Timer -> Interval \cup {NoPoll}]
  BY <1>1 DEF PollsOK
<1>3. c.ref \in [Plugin -> Timer \cup {None}]
  BY <1>1 DEF PollsOK
<1>4. ASSUME NEW q \in Plugin, c.ref[q] # None PROVE c.live[c.ref[q]].id = q
  <2>1. q # p /\ c.ref[q] = st.ref[q] /\ st.ref[q] \in Timer
    BY <1>1, <1>4 DEF PollsOK
  <2>2. st.live[st.ref[q]].id = q
    BY <2>1, <1>4 DEF PollsOK
  <2>3. st.ref[q] # st.ref[p]
    BY <2>1, <2>2 DEF PollsOK
  <2> QED
    BY <1>1, <2>1, <2>2, <2>3
<1>5. ASSUME NEW s \in Slot PROVE Matches(wire[s], c.live)
  BY <1>1 DEF PollsOK, Matches
<1> QED
  BY <1>2, <1>3, <1>4, <1>5 DEF PollsOK, c

\* A new interval gets a number that nobody uses, and is registered.
LEMMA StartOK ==
    ASSUME NEW st, PollsOK(st), NEW p \in Plugin, NEW sel \in MaybePlugin,
           HasTimer(st, p), None \notin Timer
    PROVE  /\ PollsOK(startPolling(st, p, sel))
           /\ \E t \in Timer :
                startPolling(st, p, sel).live[t] = [id |-> p, sel |-> sel]
<1> DEFINE c == Cleared(st, p)
           n == startPolling(st, p, sel)
           new == [id |-> p, sel |-> sel]
<1>1. PICK t \in Timer :
           /\ Unused(c, t)
           /\ n = [live |-> [c.live EXCEPT ![t] = new],
                   ref |-> [c.ref EXCEPT ![p] = t]]
  BY DEF HasTimer, startPolling
<1>2. PollsOK(c)
  BY ClearedOK
<1>3. /\ c.live[t] = NoPoll /\ \A q \in Plugin : c.ref[q] # t
      /\ \A s \in Slot : wire[s].timer # t
  BY <1>1 DEF Unused
<1>4. new \in Interval /\ new.id = p
  BY DEF Interval
<1> HIDE DEF c, n, new
<1>5. n.live = [c.live EXCEPT ![t] = new] /\ n.ref = [c.ref EXCEPT ![p] = t]
  BY <1>1
<1>6. n.live \in [Timer -> Interval \cup {NoPoll}] /\ n.ref \in [Plugin -> Timer \cup {None}]
  BY <1>2, <1>4, <1>5 DEF PollsOK
<1>7. ASSUME NEW q \in Plugin, n.ref[q] # None PROVE n.live[n.ref[q]].id = q
  <2>1. CASE q = p
    BY <1>2, <1>4, <1>5, <2>1 DEF PollsOK
  <2>2. CASE q # p
    BY <1>2, <1>3, <1>5, <1>7, <2>2 DEF PollsOK
  <2> QED
    BY <2>1, <2>2
<1>8. ASSUME NEW s \in Slot PROVE Matches(wire[s], n.live)
  BY <1>2, <1>3, <1>5 DEF PollsOK, Matches
<1>9. n.live[t] = new
  BY <1>2, <1>5 DEF PollsOK
<1> QED
  BY <1>6, <1>7, <1>8, <1>9 DEF PollsOK, n, new

\* A poll that ends its interval ends the one that runs for its plugin, or a
\* dead one, and no other.
LEMMA EndedOK ==
    ASSUME PollsOK(Polls), NEW s \in Slot, wire[s].kind = "poll",
           wire[s].id \in Plugin, None \notin Plugin, None \notin Timer
    PROVE  /\ PollsOK(Ended(wire[s].timer, wire[s].id))
           /\ \A x : x # wire[s].id \/ wire[s].sel # wire[s].id =>
                \A t \in Timer : timers[t] = [id |-> x, sel |-> x] =>
                  Ended(wire[s].timer, wire[s].id).live[t] = timers[t]
<1> DEFINE t == wire[s].timer
           p == wire[s].id
           e == Ended(t, p)
<1>1. /\ t \in Timer /\ timers[t] \in {NoPoll, [id |-> p, sel |-> wire[s].sel]}
      /\ timers \in [Timer -> Interval \cup {NoPoll}]
      /\ pollingRef \in [Plugin -> Timer \cup {None}]
      /\ \A q \in Plugin : pollingRef[q] # None => timers[pollingRef[q]].id = q
      /\ \A u \in Slot : Matches(wire[u], timers)
  BY DEF PollsOK, Matches, Polls
<1>2. /\ e.live = [timers EXCEPT ![t] = NoPoll]
      /\ e.ref = [pollingRef EXCEPT ![p] = None]
  BY DEF Ended
<1>3. timers[t].id \in {p, None}
  BY <1>1 DEF NoPoll
<1> HIDE DEF e
<1>4. e.live \in [Timer -> Interval \cup {NoPoll}] /\ e.ref \in [Plugin -> Timer \cup {None}]
  BY <1>1, <1>2
<1>5. ASSUME NEW q \in Plugin, e.ref[q] # None PROVE e.live[e.ref[q]].id = q
  <2>1. q # p /\ e.ref[q] = pollingRef[q] /\ pollingRef[q] \in Timer
    BY <1>1, <1>2, <1>5
  <2>2. timers[pollingRef[q]].id = q
    BY <1>1, <2>1
  <2>3. pollingRef[q] # t
    BY <1>3, <2>1, <2>2
  <2> QED
    BY <1>1, <1>2, <2>1, <2>2, <2>3
<1>6. ASSUME NEW u \in Slot PROVE Matches(wire[u], e.live)
  BY <1>1, <1>2 DEF Matches
<1>7. ASSUME NEW x, x # p \/ wire[s].sel # p, NEW v \in Timer,
             timers[v] = [id |-> x, sel |-> x]
      PROVE  e.live[v] = timers[v]
  <2>1. CASE v # t
    BY <1>1, <1>2, <2>1
  <2>2. CASE v = t
    <3>1. CASE timers[t] = NoPoll
      BY <1>1, <1>2, <2>2, <3>1
    <3>2. CASE timers[t] = [id |-> p, sel |-> wire[s].sel]
      BY <1>7, <2>2, <3>2
    <3> QED
      BY <1>1, <3>1, <3>2
  <2> QED
    BY <2>1, <2>2
<1> QED
  BY <1>4, <1>5, <1>6, <1>7 DEF PollsOK, e

\* What the handler leaves, and the effect after it.  An interval that polls
\* the plugin shown still does, unless the flag is reset.
LEMMA ShowsOK ==
    ASSUME NEW st, PollsOK(st), NEW n \in Selections, NEW flag \in BOOLEAN,
           Shows(n, st, flag), None \notin Timer, NoPlugin.status # "pending"
    PROVE  /\ selectedPlugin' = n /\ isCompiling' \in BOOLEAN
           /\ PollsOK(NextPolls)
           /\ isCompiling' =>
                \/ \E t \in Timer : timers'[t] = [id |-> n.id, sel |-> n.id]
                \/ flag /\ n.id = selectedPlugin.id /\ timers' = st.live
<1>1. /\ selectedPlugin' = n
      /\ isCompiling' = IF Moves(n) THEN n.status = "pending" ELSE flag
      /\ NextPolls = [live |-> EffectPolls(n, st).live, ref |-> EffectPolls(n, st).ref]
      /\ timers' = EffectPolls(n, st).live
  BY DEF Shows, NextPolls
<1>2. isCompiling' \in BOOLEAN
  BY <1>1
<1>3. CASE Moves(n) /\ n.status = "pending"
  <2>1. n.id \in Plugin /\ HasTimer(st, n.id)
    BY <1>3 DEF Selections, Shows
  <2>2. EffectPolls(n, st) = startPolling(st, n.id, n.id)
    BY <1>3 DEF EffectPolls
  <2>3. /\ PollsOK(startPolling(st, n.id, n.id))
        /\ \E t \in Timer : startPolling(st, n.id, n.id).live[t] =
                              [id |-> n.id, sel |-> n.id]
    BY <2>1, StartOK DEF MaybePlugin
  <2> QED
    BY <1>1, <1>2, <2>2, <2>3 DEF PollsOK
<1>4. CASE ~(Moves(n) /\ n.status = "pending")
  <2>1. EffectPolls(n, st) = st
    BY <1>4 DEF EffectPolls
  <2>2. PollsOK(NextPolls)
    BY <1>1, <2>1 DEF PollsOK
  <2>3. isCompiling' => flag /\ ~Moves(n)
    BY <1>1, <1>4
  <2> QED
    BY <1>1, <1>2, <2>1, <2>2, <2>3 DEF Moves
<1> QED
  BY <1>3, <1>4
-----------------------------------------------------------------------------
(* Requests.                                                               *)

Put(s, r) == wire' = [wire EXCEPT ![s] = r]

\* The request in s is answered, or its answer lost: it keeps what it was.
Keeps(s, r) ==
    /\ wire[s].kind # "idle"
    /\ r.kind = wire[s].kind /\ r.timer = wire[s].timer
    /\ r.kind = "poll" => r.id = wire[s].id /\ r.sel = wire[s].sel

\* What a step may do to the requests in flight, and to the Execute button.
WireStep ==
    \/ wire' = wire /\ isRunning' = isRunning
    \/ \E s \in Slot, r \in Requests :
         /\ RequestOK(r) /\ wire[s] = Idle /\ Put(s, r)
         /\ UNCHANGED timers /\ Matches(r, timers)
         /\ r.kind = "create" => showCreateModal
         /\ \/ r.kind = "run" /\ ~isRunning /\ isRunning' = TRUE
            \/ r.kind # "run" /\ isRunning' = isRunning
    \/ \E s \in Slot, r \in Requests :
         /\ RequestOK(r) /\ Keeps(s, r) /\ Put(s, r)
         /\ isRunning' = isRunning
    \/ \E s \in Slot :
         /\ wire[s].kind # "idle" /\ Put(s, Idle)
         /\ \/ wire[s].kind = "run" /\ isRunning' = FALSE
            \/ wire[s].kind # "run" /\ isRunning' = isRunning

\* An answer changes three fields of the request.
LEMMA Answered ==
    ASSUME DInv, NEW s \in Slot, NEW id \in MaybePlugin,
           NEW phase \in {"stored", "running", "ok", "error"}, NEW seen \in Seen,
           Answer(s, id, phase, seen)
    PROVE  \E r \in Requests :
             /\ r = [kind |-> wire[s].kind, id |-> id, sel |-> wire[s].sel,
                     text |-> wire[s].text, timer |-> wire[s].timer,
                     phase |-> phase, seen |-> seen]
             /\ Put(s, r)
<1> DEFINE r == [kind |-> wire[s].kind, id |-> id, sel |-> wire[s].sel,
                 text |-> wire[s].text, timer |-> wire[s].timer,
                 phase |-> phase, seen |-> seen]
<1>1. wire[s] \in Requests /\ wire \in [Slot -> Requests]
  BY Typed DEF DInv
<1>2. r \in Requests
  BY <1>1 DEF Requests, MaybePlugin
<1>3. wire' = [wire EXCEPT ![s] = r]
  BY <1>1 DEF Answer
<1> QED
  BY <1>2, <1>3 DEF Put

\* Every handler of the host answers within the types.
LEMMA HostAnswers ==
    ASSUME DInv, NEW s \in Slot, HostHandles(s) \/ NetworkFails(s)
    PROVE  WireStep
<1>0. /\ RequestOK(wire[s]) /\ wire[s] \in Requests
      /\ wire[s].id \in MaybePlugin /\ Plugin \subseteq MaybePlugin
      /\ None \in MaybePlugin
  BY Typed DEF DInv, RequestOK, Requests, MaybePlugin
<1>1. ASSUME NEW id \in MaybePlugin, NEW phase \in {"stored", "running", "ok", "error"},
             NEW seen \in Seen, Answer(s, id, phase, seen),
             isRunning' = isRunning, wire[s].kind # "idle",
             wire[s].kind \in {"save", "delete", "run", "poll"} => id = wire[s].id,
             wire[s].kind \in {"create", "save", "poll"} /\ phase = "ok" =>
               id \in Plugin /\ seen[id] \in Host!Live,
             phase = "stored" => wire[s].kind = "save",
             phase = "running" => wire[s].kind = "run"
      PROVE  WireStep
  <2>1. PICK r \in Requests :
               /\ r = [kind |-> wire[s].kind, id |-> id, sel |-> wire[s].sel,
                       text |-> wire[s].text, timer |-> wire[s].timer,
                       phase |-> phase, seen |-> seen]
               /\ Put(s, r)
    BY <1>1, Answered
  <2>2. /\ r.kind = wire[s].kind /\ r.id = id /\ r.sel = wire[s].sel
        /\ r.timer = wire[s].timer /\ r.phase = phase /\ r.seen = seen
    BY <2>1
  <2>3. RequestOK(r)
    BY <1>0, <1>1, <2>2 DEF RequestOK
  <2>4. Keeps(s, r)
    BY <1>1, <2>2 DEF Keeps
  <2> QED
    BY <1>1, <2>1, <2>3, <2>4 DEF WireStep
<1>2. CASE HostHandles(s)
  <2>0. isRunning' = isRunning
    BY <1>2 DEF HostHandles, uiVars
  <2>1. CASE HandleCreate(s)
    <3>1. ASSUME NEW p \in Plugin, Answer(s, p, "ok", Only(p, "pending"))
          PROVE  WireStep
      BY <1>0, <1>1, <2>0, <2>1, <3>1, SeenTyped DEF HandleCreate, Host!Live
    <3>2. CASE Answer(s, None, "error", Nothing)
      BY <1>0, <1>1, <2>0, <2>1, <3>2, SeenTyped DEF HandleCreate
    <3> QED
      BY <2>1, <3>1, <3>2 DEF HandleCreate
  <2>2. CASE HandleSave(s)
    <3>1. wire[s].id \in Plugin
      BY <1>0, <2>2 DEF HandleSave, RequestOK
    <3>2. CASE Answer(s, wire[s].id, "stored", Nothing)
      BY <1>0, <1>1, <2>0, <2>2, <3>2, SeenTyped DEF HandleSave
    <3>3. CASE Answer(s, wire[s].id, "error", Nothing)
      BY <1>0, <1>1, <2>0, <2>2, <3>3, SeenTyped DEF HandleSave
    <3> QED
      BY <2>2, <3>2, <3>3 DEF HandleSave
  <2>3. CASE HandleDelete(s)
    BY <1>0, <1>1, <2>0, <2>3, SeenTyped DEF HandleDelete
  <2>4. CASE HandleList(s)
    BY <1>0, <1>1, <2>0, <2>4, SeenTyped DEF HandleList
  <2>5. CASE HandleRead(s)
    <3>1. wire[s].id \in Plugin /\ wire[s].kind \in {"poll", "save"}
      BY <1>0, <2>5 DEF HandleRead, RequestOK
    <3>2. CASE View[wire[s].id] # "absent"
                 /\ Answer(s, wire[s].id, "ok", Only(wire[s].id, View[wire[s].id]))
      <4>1. View[wire[s].id] \in Host!Live
        BY <3>1, <3>2, SeenTyped
      <4> QED
        BY <1>0, <1>1, <2>0, <3>1, <3>2, <4>1, SeenTyped
    <3>3. CASE Answer(s, wire[s].id, "error", Nothing)
      BY <1>0, <1>1, <2>0, <3>1, <3>3, SeenTyped
    <3> QED
      BY <2>5, <3>2, <3>3 DEF HandleRead
  <2>6. CASE BeginRun(s) \/ EndRun(s)
    BY <1>0, <1>1, <2>0, <2>6, SeenTyped DEF BeginRun, EndRun, RequestOK
  <2> QED
    BY <1>2, <2>1, <2>2, <2>3, <2>4, <2>5, <2>6 DEF HostHandles
<1>3. CASE NetworkFails(s)
  <2>1. wire[s].kind # "idle"
    BY <1>0, <1>3 DEF NetworkFails, RequestOK
  <2> QED
    BY <1>0, <1>1, <1>3, <2>1, SeenTyped DEF NetworkFails, uiVars
<1> QED
  BY <1>2, <1>3

\* Every handler of the page sends within the types.
LEMMA UserSends ==
    ASSUME DInv, NEW r, Send(r), RequestOK(r), UNCHANGED timers,
           Matches(r, timers), r.kind = "create" => showCreateModal,
           \/ r.kind = "run" /\ ~isRunning /\ isRunning' = TRUE
           \/ r.kind # "run" /\ isRunning' = isRunning
    PROVE  WireStep
  BY DEF Send, FreeSlot, WireStep, RequestOK, Put

\* A request as it is sent is of its type.
LEMMA RequestTyped ==
    ASSUME NEW kind \in {"list", "create", "save", "delete", "run", "poll"},
           NEW id \in MaybePlugin, NEW sel \in MaybePlugin,
           NEW text \in MaybePlugin, NEW timer \in Timer \cup {None},
           kind \in {"save", "delete", "run", "poll"} => id \in Plugin,
           kind = "save" => sel = id
    PROVE  RequestOK(Request(kind, id, sel, text, timer))
<1> DEFINE r == [kind |-> kind, id |-> id, sel |-> sel, text |-> text,
                 timer |-> timer, phase |-> "sent", seen |-> Nothing]
<1>1. r \in Requests
  BY SeenTyped DEF Requests, MaybePlugin
<1>2. RequestOK(r)
  BY <1>1 DEF RequestOK
<1> QED
  BY <1>2 DEF Request

\* A step does one of these things to the requests in flight.
LEMMA WireEffect ==
    ASSUME DInv, [Next]_vars
    PROVE  WireStep
<1>0. /\ selectedPlugin.id \in MaybePlugin /\ None \in MaybePlugin
      /\ editorCode \in MaybePlugin /\ Plugin \subseteq MaybePlugin
      /\ timers \in [Timer -> Interval \cup {NoPoll}]
      /\ selectedPlugin # NoPlugin => selectedPlugin.id \in Plugin
  BY Typed DEF DInv, DashTypeOK, MaybePlugin, Interval
<1>1. ASSUME NEW p \in Plugin,
             ClickPlugin(p) \/ HostDecides(p) \/ OtherClient(p) \/ MetricsArrive(p)
      PROVE  WireStep
  BY <1>1 DEF ClickPlugin, HostDecides, OtherClient, MetricsArrive, uiVars, WireStep
<1>2. CASE \/ OpenCreate \/ CancelCreate \/ handleLoadTemplate \/ EndAbandonedRun
           \/ UNCHANGED vars
  BY <1>2 DEF OpenCreate, CancelCreate, handleLoadTemplate, EndAbandonedRun, uiVars,
              vars, WireStep
<1>3. CASE ClickRefresh
  <2> DEFINE r == Request("list", None, selectedPlugin.id, None, None)
  <2>1. RequestOK(r)
    BY <1>0, RequestTyped
  <2>2. r.kind = "list"
    BY DEF Request
  <2> QED
    BY <1>3, <2>1, <2>2, UserSends DEF ClickRefresh, Matches, shownVars
<1>4. CASE SubmitCreate
  <2> DEFINE r == Request("create", None, selectedPlugin.id, None, None)
  <2>1. RequestOK(r)
    BY <1>0, RequestTyped
  <2>2. r.kind = "create"
    BY DEF Request
  <2> QED
    BY <1>4, <2>1, <2>2, UserSends DEF SubmitCreate, Matches, shownVars
<1>5. CASE handleSaveAndCompile
  <2> DEFINE r == Request("save", selectedPlugin.id, selectedPlugin.id,
                          editorCode, None)
  <2>1. RequestOK(r)
    BY <1>0, <1>5, RequestTyped DEF handleSaveAndCompile, CanDeploy
  <2>2. r.kind = "save"
    BY DEF Request
  <2> QED
    BY <1>5, <2>1, <2>2, UserSends DEF handleSaveAndCompile, Matches, pollVars
<1>6. ASSUME NEW p \in Plugin, ClickDelete(p) PROVE WireStep
  <2> DEFINE r == Request("delete", p, selectedPlugin.id, None, None)
  <2>1. RequestOK(r)
    BY <1>0, RequestTyped
  <2>2. r.kind = "delete"
    BY DEF Request
  <2> QED
    BY <1>6, <2>1, <2>2, UserSends DEF ClickDelete, Matches, shownVars
<1>7. CASE handleRunExecution
  <2> DEFINE r == Request("run", selectedPlugin.id, selectedPlugin.id, None, None)
  <2>1. selectedPlugin.id \in Plugin
    BY <1>0, <1>7 DEF handleRunExecution, CanRun, NoPlugin
  <2>2. RequestOK(r)
    BY <1>0, <2>1, RequestTyped
  <2>3. r.kind = "run"
    BY DEF Request
  <2> QED
    BY <1>7, <2>2, <2>3, UserSends DEF handleRunExecution, CanRun, Matches, shownVars
<1>8. CASE ListTick
  <2> DEFINE r == Request("list", None, None, None, None)
  <2>1. RequestOK(r)
    BY <1>0, RequestTyped
  <2>2. r.kind = "list"
    BY DEF Request
  <2> QED
    BY <1>8, <2>1, <2>2, UserSends DEF ListTick, Matches, shownVars
<1>9. ASSUME NEW t \in Timer, PollTick(t) PROVE WireStep
  <2> DEFINE r == Request("poll", timers[t].id, timers[t].sel, None, t)
  <2>1. timers[t] \in Interval
    BY <1>0, <1>9 DEF PollTick
  <2>2. RequestOK(r)
    BY <1>0, <2>1, RequestTyped DEF Interval
  <2>3. r.kind = "poll" /\ r.timer = t /\ r.id = timers[t].id /\ r.sel = timers[t].sel
    BY DEF Request
  <2>4. timers[t] = [id |-> timers[t].id, sel |-> timers[t].sel]
    BY <2>1 DEF Interval
  <2>5. Matches(r, timers)
    BY <2>3, <2>4 DEF Matches
  <2> QED
    BY <1>9, <2>2, <2>3, <2>5, UserSends DEF PollTick, shownVars
<1>10. ASSUME NEW s \in Slot, HostHandles(s) \/ NetworkFails(s) PROVE WireStep
  BY <1>10, HostAnswers
<1>11. ASSUME NEW s \in Slot, Arrives(s) PROVE WireStep
  <2>1. CASE RunArrives(s)
    BY <2>1 DEF RunArrives, Receive, WireStep, Put
  <2>2. CASE ListArrives(s) \/ ListFails(s)
    BY <2>2 DEF ListArrives, ListFails, Receive, WireStep, Put
  <2>3. CASE CreateArrives(s) \/ DeleteArrives(s) \/ AlertsFailure(s)
    BY <2>3 DEF CreateArrives, DeleteArrives, AlertsFailure, Receive, uiVars,
                WireStep, Put
  <2>4. CASE SaveArrives(s) \/ SaveFails(s)
    BY <2>4 DEF SaveArrives, SaveFails, Receive, WireStep, Put
  <2>5. CASE PollArrives(s) \/ PollFails(s)
    BY <2>5 DEF PollArrives, PollFails, Receive, uiVars, WireStep, Put
  <2> QED
    BY <1>11, <2>1, <2>2, <2>3, <2>4, <2>5 DEF Arrives
<1> QED
  BY <1>1, <1>2, <1>3, <1>4, <1>5, <1>6, <1>7, <1>8, <1>9, <1>10, <1>11
     DEF Next, UserActs, PageAndHostAct

\* The page's half of OnlyLossesDoubleRuns.
OneAwaited ==
    /\ isRunning <=> \E s \in Slot : wire[s].kind = "run"
    /\ \A s, u \in Slot : wire[s].kind = "run" /\ wire[u].kind = "run" => s = u

\* The page never awaits two runs: the button stays disabled from the click to
\* the answer.
LEMMA OneRunNext == DInv /\ OneAwaited /\ [Next]_vars => OneAwaited'
<1> SUFFICES ASSUME DInv, OneAwaited, [Next]_vars PROVE OneAwaited'
  OBVIOUS
<1>0. wire \in [Slot -> Requests] /\ WireStep /\ Idle.kind = "idle"
      /\ isRunning \in BOOLEAN
  BY Typed, WireEffect DEF DInv, Idle, DashTypeOK
<1>1. CASE wire' = wire /\ isRunning' = isRunning
  BY <1>1 DEF OneAwaited
<1>2. ASSUME NEW s \in Slot, NEW r, wire[s] = Idle, Put(s, r),
             \/ r.kind = "run" /\ ~isRunning /\ isRunning' = TRUE
             \/ r.kind # "run" /\ isRunning' = isRunning
      PROVE  OneAwaited'
  BY <1>0, <1>2 DEF OneAwaited, Put
<1>3. ASSUME NEW s \in Slot, NEW r, Keeps(s, r), Put(s, r), isRunning' = isRunning
      PROVE  OneAwaited'
  <2>1. \A u \in Slot : wire'[u].kind = wire[u].kind
    BY <1>0, <1>3 DEF Keeps, Put
  <2> QED
    BY <1>3, <2>1 DEF OneAwaited
<1>4. ASSUME NEW s \in Slot, Put(s, Idle),
             \/ wire[s].kind = "run" /\ isRunning' = FALSE
             \/ wire[s].kind # "run" /\ isRunning' = isRunning
      PROVE  OneAwaited'
  BY <1>0, <1>4 DEF OneAwaited, Put
<1> QED
  BY <1>0, <1>1, <1>2, <1>3, <1>4 DEF WireStep

\* A run that nobody awaits has cost an answer.
LEMMA AbandonedNext ==
    ASSUME DInv, [Next]_vars
    PROVE  /\ abandonedRuns' \in Nat
           /\ abandonedRuns <= faults => abandonedRuns' <= faults'
<1>0. abandonedRuns \in Nat /\ faults \in Nat
  BY DashboardAssumption DEF DInv, DashTypeOK
<1>1. CASE UserActs \/ UNCHANGED vars
  BY <1>0, <1>1 DEF UserActs, ClickPlugin, ClickDelete, ClickRefresh, OpenCreate,
     CancelCreate, SubmitCreate, handleSaveAndCompile, handleRunExecution,
     handleLoadTemplate, hostVars, vars
<1>2. CASE ListTick \/ \E t \in Timer : PollTick(t)
  BY <1>0, <1>2 DEF ListTick, PollTick, hostVars
<1>3. CASE EndAbandonedRun
  BY <1>0, <1>3 DEF EndAbandonedRun
<1>4. ASSUME NEW s \in Slot, HostHandles(s) \/ NetworkFails(s)
      PROVE  /\ abandonedRuns' \in Nat
             /\ abandonedRuns <= faults => abandonedRuns' <= faults'
  BY <1>0, <1>4 DEF HostHandles, NetworkFails
<1>5. ASSUME NEW s \in Slot, Arrives(s)
      PROVE  UNCHANGED <<abandonedRuns, faults>>
  BY <1>5 DEF Arrives, ListArrives, ListFails, CreateArrives, DeleteArrives,
     AlertsFailure, SaveArrives, SaveFails, RunArrives, PollArrives, PollFails,
     hostVars
<1>6. ASSUME NEW p \in Plugin, HostDecides(p) \/ OtherClient(p) \/ MetricsArrive(p)
      PROVE  UNCHANGED <<abandonedRuns, faults>>
  BY <1>6 DEF HostDecides, OtherClient, MetricsArrive, hostVars
<1> QED
  BY <1>0, <1>1, <1>2, <1>3, <1>4, <1>5, <1>6 DEF Next, PageAndHostAct

\* The host runs what the page awaits, at most once, and what was abandoned.
LEMMA RunsCounted ==
    ASSUME DInv, OneAwaited, abandonedRuns <= faults
    PROVE  OnlyLossesDoubleRuns
<1> DEFINE Running == {s \in Slot : wire[s].phase = "running"}
<1>1. abandonedRuns \in Nat /\ faults \in Nat
  BY DashboardAssumption DEF DInv, DashTypeOK
<1>2. \A s, u \in Running : s = u
  BY DEF DInv, RequestOK, OneAwaited
<1>3. Running = {} \/ \E s : Running = {s}
  BY <1>2
<1>4. Cardinality(Running) \in {0, 1}
  BY <1>3, FS_EmptySet, FS_Singleton
<1> HIDE DEF Running
<1>5. Cardinality(Running) + abandonedRuns <= 1 + faults
  BY <1>1, <1>4
<1> QED
  BY <1>5 DEF OnlyLossesDoubleRuns, HostRuns, OneAwaited, Running

-----------------------------------------------------------------------------
(* The selection, the flag and the intervals.                              *)

NoCreate == \A s \in Slot : wire[s].kind # "create"

\* What a step may do to the plugin shown.
ShownStep ==
    /\ selectedPlugin' \in Selections /\ isCompiling' \in BOOLEAN
    /\ PollsOK(NextPolls)
    /\ NoCreate /\ CompilingCanEnd => CompilingCanEnd'

\* A step that shows nothing new and loses no save.
LEMMA ShownKept ==
    ASSUME DInv, UNCHANGED shownVars,
           \A s \in Slot : wire[s].kind = "save" => wire'[s].kind = "save"
    PROVE  ShownStep
<1>1. NextPolls = Polls
  BY DEF shownVars, NextPolls, Polls
<1>2. selectedPlugin' \in Selections /\ isCompiling' \in BOOLEAN
  BY Typed DEF shownVars, DInv, DashTypeOK
<1>3. CompilingCanEnd => CompilingCanEnd'
  BY DEF CompilingCanEnd, shownVars
<1> QED
  BY <1>1, <1>2, <1>3 DEF ShownStep, DInv

\* A handler that shows selection n, when the polls it leaves are good ones.
LEMMA ShownBy ==
    ASSUME DInv, NEW st, PollsOK(st), NEW n \in Selections, NEW flag \in BOOLEAN,
           Shows(n, st, flag),
           NoCreate /\ CompilingCanEnd /\ flag /\ n.id = selectedPlugin.id =>
             \/ \E s \in Slot : wire'[s].kind = "save"
             \/ \E t \in Timer : st.live[t] = [id |-> n.id, sel |-> n.id]
    PROVE  ShownStep
<1>1. /\ selectedPlugin' = n /\ isCompiling' \in BOOLEAN /\ PollsOK(NextPolls)
      /\ isCompiling' =>
           \/ \E t \in Timer : timers'[t] = [id |-> n.id, sel |-> n.id]
           \/ flag /\ n.id = selectedPlugin.id /\ timers' = st.live
  BY ShowsOK, Typed DEF DInv, NoPlugin
<1>2. ASSUME NoCreate, CompilingCanEnd, isCompiling'
      PROVE  \/ \E s \in Slot : wire'[s].kind = "save"
             \/ \E t \in Timer : timers'[t] = [id |-> n.id, sel |-> n.id]
  BY <1>1, <1>2
<1> QED
  BY <1>1, <1>2 DEF ShownStep, CompilingCanEnd

\* A handler that shows selection n and leaves the intervals alone.
LEMMA ShownByPolls ==
    ASSUME DInv, NEW n \in Selections, Shows(n, Polls, isCompiling),
           \A s \in Slot : wire[s].kind = "save" => wire'[s].kind = "save"
    PROVE  ShownStep
<1>1. PollsOK(Polls) /\ isCompiling \in BOOLEAN /\ Polls.live = timers
  BY DEF DInv, DashTypeOK, Polls
<1>2. ASSUME CompilingCanEnd, isCompiling, n.id = selectedPlugin.id
      PROVE  \/ \E s \in Slot : wire'[s].kind = "save"
             \/ \E t \in Timer : timers[t] = [id |-> n.id, sel |-> n.id]
  BY <1>2 DEF CompilingCanEnd
<1>3. NoCreate /\ CompilingCanEnd /\ isCompiling /\ n.id = selectedPlugin.id =>
        \/ \E s \in Slot : wire'[s].kind = "save"
        \/ \E t \in Timer : Polls.live[t] = [id |-> n.id, sel |-> n.id]
  BY <1>1, <1>2
<1> QED
  BY <1>1, <1>3, ShownBy

\* A step does one of these things to the plugin shown.
LEMMA ShownEffect ==
    ASSUME DInv, [Next]_vars
    PROVE  ShownStep
<1>0. /\ wire \in [Slot -> Requests] /\ None \notin Plugin /\ None \notin Timer
      /\ selectedPlugin \in Selections /\ isCompiling \in BOOLEAN
      /\ PollsOK(Polls) /\ Polls.live = timers /\ Polls.ref = pollingRef
      /\ \A s \in Slot : RequestOK(wire[s])
      /\ plugins \in [Plugin -> SUBSET Host!Live]
      /\ Idle.kind = "idle"
  BY Typed DEF DInv, DashTypeOK, Polls, Idle
<1>1. ASSUME NEW p \in Plugin, ClickPlugin(p) PROVE ShownStep
  <2>1. PICK status \in plugins[p] :
             handleSelectPlugin([id |-> p, status |-> status], Polls)
    BY <1>1 DEF ClickPlugin
  <2> DEFINE n == [id |-> p, status |-> status]
  <2>2. n \in Selections /\ Shows(n, Polls, isCompiling) /\ wire' = wire
    BY <1>0, <1>1, <2>1 DEF handleSelectPlugin, Selections, ClickPlugin
  <2> HIDE DEF n
  <2> QED
    BY <2>2, ShownByPolls
<1>2. CASE handleSaveAndCompile
  <2>1. NextPolls = Polls /\ isCompiling' = TRUE /\ selectedPlugin' = selectedPlugin
    BY <1>2 DEF handleSaveAndCompile, pollVars, NextPolls, Polls
  <2>2. \E s \in Slot : wire'[s].kind = "save"
    <3>1. PICK s \in Slot :
            wire' = [wire EXCEPT ![s] = Request("save", selectedPlugin.id,
                                         selectedPlugin.id, editorCode, None)]
      BY <1>2 DEF handleSaveAndCompile, Send
    <3>2. wire'[s].kind = "save"
      BY <1>0, <3>1 DEF Request
    <3> QED
      BY <3>2
  <2> QED
    BY <1>0, <2>1, <2>2 DEF ShownStep, CompilingCanEnd
<1>3. ASSUME NEW s \in Slot, ListArrives(s) PROVE ShownStep
  <2> DEFINE r == wire[s]
  <2>1. /\ r.seen \in [Plugin -> Host!Live \cup {"absent"}]
        /\ wire' = [wire EXCEPT ![s] = Idle] /\ r.kind # "save"
        /\ Present(r.seen) \subseteq Plugin
        /\ \A p \in Present(r.seen) : [id |-> p, status |-> r.seen[p]] \in Selections
    <3>1. r.seen \in [Plugin -> Host!Live \cup {"absent"}]
      BY <1>0 DEF Requests, Seen
    <3> QED
      BY <1>3, <3>1 DEF ListArrives, Receive, Present, Selections
  <2>2. \A u \in Slot : wire[u].kind = "save" => wire'[u].kind = "save"
    BY <1>0, <2>1
  <2>3. CASE UNCHANGED shownVars
    BY <2>2, <2>3, ShownKept
  <2>4. ASSUME NEW n \in Selections, Shows(n, Polls, isCompiling) PROVE ShownStep
    BY <2>2, <2>4, ShownByPolls
  <2>5. ASSUME NEW p \in Present(r.seen),
               Shows([id |-> p, status |-> r.seen[p]], Polls, isCompiling)
        PROVE  ShownStep
    BY <2>1, <2>4, <2>5
  <2> QED
    BY <1>3, <2>3, <2>5 DEF ListArrives, handleSelectPlugin, Reselects
<1>4. ASSUME NEW s \in Slot, CreateArrives(s) PROVE ShownStep
  <2> DEFINE p == wire[s].id
             n == [id |-> p, status |-> wire[s].seen[p]]
             sel == wire[s].sel
  <2>1. /\ p \in Plugin /\ sel \in MaybePlugin /\ n \in Selections
        /\ HasTimer(Polls, p) /\ wire[s].kind = "create"
        /\ Shows(n, startPolling(Polls, p, sel), isCompiling)
    BY <1>0, <1>4 DEF CreateArrives, Receive, RequestOK, Requests, MaybePlugin,
                      Selections, handleSelectPlugin
  <2> HIDE DEF p, n, sel
  <2>2. PollsOK(startPolling(Polls, p, sel))
    BY <1>0, <2>1, StartOK
  <2>3. ~NoCreate
    BY <2>1 DEF NoCreate
  <2>4. NoCreate /\ CompilingCanEnd /\ isCompiling /\ n.id = selectedPlugin.id =>
          \/ \E u \in Slot : wire'[u].kind = "save"
          \/ \E t \in Timer : startPolling(Polls, p, sel).live[t] =
                               [id |-> n.id, sel |-> n.id]
    BY <2>3
  <2> QED
    BY <1>0, <2>1, <2>2, <2>4, ShownBy
<1>5. ASSUME NEW s \in Slot, SaveArrives(s) PROVE ShownStep
  <2> DEFINE p == wire[s].id
             n == [id |-> p, status |-> wire[s].seen[p]]
             sel == wire[s].sel
  <2>1. /\ p \in Plugin /\ sel = p /\ n \in Selections /\ n.id = p
        /\ HasTimer(Polls, p)
        /\ Shows(n, startPolling(Polls, p, sel), isCompiling)
    BY <1>0, <1>5 DEF SaveArrives, Receive, RequestOK, Requests, Selections
  <2> HIDE DEF p, n, sel
  <2>2. /\ PollsOK(startPolling(Polls, p, sel))
        /\ \E t \in Timer : startPolling(Polls, p, sel).live[t] =
                              [id |-> p, sel |-> sel]
    BY <1>0, <2>1, StartOK DEF MaybePlugin
  <2> QED
    BY <1>0, <2>1, <2>2, ShownBy
<1>6. ASSUME NEW s \in Slot, SaveFails(s) PROVE ShownStep
  <2>1. NextPolls = Polls /\ isCompiling' = FALSE /\ selectedPlugin' = selectedPlugin
    BY <1>6 DEF SaveFails, pollVars, NextPolls, Polls
  <2> QED
    BY <1>0, <2>1 DEF ShownStep, CompilingCanEnd
<1>7. ASSUME NEW s \in Slot, DeleteArrives(s) PROVE ShownStep
  <2>1. wire' = [wire EXCEPT ![s] = Idle] /\ wire[s].kind # "save"
    BY <1>7 DEF DeleteArrives, Receive
  <2>2. \A u \in Slot : wire[u].kind = "save" => wire'[u].kind = "save"
    BY <1>0, <2>1
  <2>3. CASE UNCHANGED shownVars
    BY <2>2, <2>3, ShownKept
  <2>4. CASE Shows(NoPlugin, Polls, isCompiling)
    <3>1. NoPlugin \in Selections
      BY DEF Selections
    <3> QED
      BY <2>2, <2>4, <3>1, ShownByPolls
  <2> QED
    BY <1>7, <2>3, <2>4 DEF DeleteArrives
<1>8. ASSUME NEW s \in Slot, PollArrives(s) PROVE ShownStep
  <2> DEFINE p == wire[s].id
             n == [id |-> p, status |-> wire[s].seen[p]]
             st == Ended(wire[s].timer, p)
  <2>1. /\ p \in Plugin /\ n \in Selections /\ wire[s].kind = "poll"
        /\ wire' = [wire EXCEPT ![s] = Idle]
    BY <1>0, <1>8 DEF PollArrives, Receive, RequestOK, Selections
  <2>2. \A u \in Slot : wire[u].kind = "save" => wire'[u].kind = "save"
    BY <1>0, <2>1
  <2>3. /\ PollsOK(st)
        /\ wire[s].sel # p => \A x : \A t \in Timer :
             timers[t] = [id |-> x, sel |-> x] => st.live[t] = timers[t]
    BY <1>0, <2>1, EndedOK
  <2>4. CASE UNCHANGED shownVars
    BY <2>2, <2>4, ShownKept
  <2>5. CASE Shows(n, st, FALSE)
    BY <2>1, <2>3, <2>5, ShownBy
  <2>6. CASE /\ wire[s].sel # p
             /\ timers' = st.live /\ pollingRef' = st.ref
             /\ UNCHANGED <<selectedPlugin, isCompiling>>
    <3>1. PollsOK(NextPolls)
      BY <2>3, <2>6 DEF PollsOK, NextPolls
    <3>2. CompilingCanEnd => CompilingCanEnd'
      BY <2>2, <2>3, <2>6 DEF CompilingCanEnd
    <3> QED
      BY <1>0, <2>6, <3>1, <3>2 DEF ShownStep
  <2> QED
    BY <1>8, <2>4, <2>5, <2>6 DEF PollArrives
<1>9. ASSUME UNCHANGED shownVars,
             \A s \in Slot : wire[s].kind = "save" => wire'[s].kind = "save"
      PROVE  ShownStep
  BY <1>9, ShownKept
<1>10. ASSUME UNCHANGED shownVars, NEW r, Send(r)
       PROVE  ShownStep
  BY <1>0, <1>9, <1>10 DEF Send, FreeSlot
<1>11. CASE \/ ClickRefresh \/ SubmitCreate \/ handleRunExecution \/ ListTick
            \/ \E p \in Plugin : ClickDelete(p)
            \/ \E t \in Timer : PollTick(t)
  BY <1>10, <1>11 DEF ClickRefresh, SubmitCreate, handleRunExecution, ListTick,
                      ClickDelete, PollTick
<1>12. CASE \/ OpenCreate \/ CancelCreate \/ handleLoadTemplate \/ UNCHANGED vars
            \/ EndAbandonedRun
            \/ \E p \in Plugin : HostDecides(p) \/ OtherClient(p) \/ MetricsArrive(p)
  BY <1>9, <1>12 DEF OpenCreate, CancelCreate, handleLoadTemplate, vars, uiVars,
                     EndAbandonedRun, HostDecides, OtherClient, MetricsArrive
<1>13. ASSUME NEW s \in Slot, HostHandles(s) \/ NetworkFails(s) PROVE ShownStep
  <2>1. PICK id, phase, seen : Answer(s, id, phase, seen)
    BY <1>13 DEF HostHandles, NetworkFails, HandleCreate, HandleSave, HandleDelete,
                 HandleList, HandleRead, BeginRun, EndRun
  <2>2. \A u \in Slot : wire'[u].kind = wire[u].kind
    BY <1>0, <2>1 DEF Answer
  <2> QED
    BY <1>9, <1>13, <2>2 DEF HostHandles, NetworkFails, uiVars
<1>14. ASSUME NEW s \in Slot,
              ListFails(s) \/ AlertsFailure(s) \/ RunArrives(s) \/ PollFails(s)
       PROVE  ShownStep
  <2>1. wire[s].kind # "save" /\ wire' = [wire EXCEPT ![s] = Idle]
    BY <1>14 DEF ListFails, AlertsFailure, RunArrives, PollFails, Receive
  <2> QED
    BY <1>0, <1>9, <1>14, <2>1 DEF ListFails, AlertsFailure, RunArrives,
                                   PollFails, uiVars
<1> QED
  BY <1>1, <1>2, <1>3, <1>4, <1>5, <1>6, <1>7, <1>8, <1>11, <1>12, <1>13, <1>14
     DEF Next, UserActs, PageAndHostAct, Arrives
-----------------------------------------------------------------------------
(* Types.                                                                  *)

\* At the start nothing is selected, polled or run.
LEMMA DInvInit == Init => DInv
<1> SUFFICES ASSUME Init PROVE DInv
  OBVIOUS
<1>0. /\ None \notin Plugin /\ None \notin Timer /\ Existing \subseteq Plugin
      /\ MaxFaults \in Nat
  BY DashboardAssumption DEF Timer
<1>1. \A s \in Slot : wire[s] = Idle \/ wire[s] = Request("first", None, None, None, None)
  BY DEF Init, Mounted
<1>2. RequestOK(Request("first", None, None, None, None))
  <2> DEFINE r == [kind |-> "first", id |-> None, sel |-> None, text |-> None,
                   timer |-> None, phase |-> "sent", seen |-> Nothing]
  <2>1. r \in Requests
    BY SeenTyped DEF Requests
  <2>2. RequestOK(r)
    BY <2>1 DEF RequestOK
  <2> QED
    BY <2>2 DEF Request
<1>3. \A s \in Slot : RequestOK(wire[s]) /\ wire[s] \in Requests
  BY <1>1, <1>2, IdleOK DEF RequestOK
<1>4. wire \in [Slot -> Requests]
  BY <1>3 DEF Init, Mounted
<1>5. PollsOK(Polls)
  <2>1. \A s \in Slot : wire[s].kind # "poll"
    BY <1>1 DEF Idle, Request
  <2>2. Polls.live = timers /\ Polls.ref = pollingRef
    BY DEF Polls
  <2> QED
    BY <2>1, <2>2 DEF Init, PollsOK, Matches
<1>6. DashTypeOK
  <2>1. catalog \in [Plugin -> Host!Entry]
    BY DEF Init, Host!Entry, Host!Pending, Host!Unborn, Host!Live
  <2>2. /\ timers \in [Timer -> Interval \cup {NoPoll}]
        /\ pollingRef \in [Plugin -> Timer \cup {None}]
        /\ plugins \in [Plugin -> SUBSET Host!Live]
    BY DEF Init
  <2>3. /\ owed \subseteq Plugin /\ restarts \in Nat /\ abandonedRuns \in Nat
        /\ selectedPlugin = NoPlugin /\ asked \subseteq Plugin
        /\ {editorCode, execResult, metricsData} \subseteq Plugin \cup {None}
        /\ faults \in 0 .. MaxFaults
    BY <1>0 DEF Init
  <2>4. {showCreateModal, isCompiling, isRunning, backendConnected} \subseteq BOOLEAN
    BY DEF Init
  <2> QED
    BY <1>4, <2>1, <2>2, <2>3, <2>4 DEF DashTypeOK, Interval, MaybePlugin
<1> QED
  BY <1>3, <1>5, <1>6 DEF DInv

\* Every step keeps the requests and the intervals together.
LEMMA WireNext ==
    ASSUME DInv, [Next]_vars
    PROVE  /\ wire' \in [Slot -> Requests] /\ isRunning' \in BOOLEAN
           /\ \A s \in Slot : RequestOK(wire'[s])
           /\ PollsOK(Polls)'
<1>0. /\ WireStep /\ PollsOK(NextPolls) /\ PollsOK(Polls)
      /\ wire \in [Slot -> Requests] /\ \A s \in Slot : RequestOK(wire[s])
      /\ isRunning \in BOOLEAN
  BY WireEffect, ShownEffect, Typed DEF ShownStep, DInv, DashTypeOK
<1>1. /\ \A s \in Slot : Matches(wire[s], timers')
      /\ \A s \in Slot : Matches(wire[s], timers)
  BY <1>0 DEF PollsOK, NextPolls, Polls
<1>2. \A s \in Slot : RequestOK(wire'[s]) /\ Matches(wire'[s], timers')
  <2>1. ASSUME NEW s \in Slot, NEW r \in Requests, Put(s, r), RequestOK(r),
               Matches(r, timers')
        PROVE  \A u \in Slot : RequestOK(wire'[u]) /\ Matches(wire'[u], timers')
    BY <1>0, <1>1, <2>1 DEF Put
  <2>2. CASE wire' = wire
    BY <1>0, <1>1, <2>2
  <2>3. ASSUME NEW s \in Slot, NEW r \in Requests, RequestOK(r), Put(s, r),
               UNCHANGED timers, Matches(r, timers)
        PROVE  \A u \in Slot : RequestOK(wire'[u]) /\ Matches(wire'[u], timers')
    BY <2>1, <2>3
  <2>4. ASSUME NEW s \in Slot, NEW r \in Requests, RequestOK(r), Put(s, r), Keeps(s, r)
        PROVE  \A u \in Slot : RequestOK(wire'[u]) /\ Matches(wire'[u], timers')
    <3>1. Matches(r, timers')
      BY <1>1, <2>4 DEF Matches, Keeps
    <3> QED
      BY <2>1, <2>4, <3>1
  <2>5. ASSUME NEW s \in Slot, Put(s, Idle)
        PROVE  \A u \in Slot : RequestOK(wire'[u]) /\ Matches(wire'[u], timers')
    <3>1. Matches(Idle, timers') /\ Idle \in Requests
      BY IdleOK DEF Matches, Idle, RequestOK
    <3> QED
      BY <2>1, <2>5, <3>1, IdleOK
  <2> QED
    BY <1>0, <2>2, <2>3, <2>4, <2>5 DEF WireStep
<1>3. wire' \in [Slot -> Requests]
  <2>1. wire' = wire \/ \E s \in Slot, r \in Requests : Put(s, r)
    BY <1>0, IdleOK DEF WireStep, RequestOK
  <2> QED
    BY <1>0, <2>1 DEF Put
<1>4. isRunning' \in BOOLEAN
  BY <1>0 DEF WireStep
<1>5. PollsOK(Polls)'
  BY <1>0, <1>2 DEF PollsOK, NextPolls, Polls
<1> QED
  BY <1>2, <1>3, <1>4, <1>5

\* Every step keeps the host's types.
LEMMA HostNextTyped ==
    ASSUME DInv, [Next]_vars
    PROVE  /\ catalog' \in [Plugin -> Host!Entry]
           /\ owed' \subseteq Plugin /\ restarts' \in Nat
<1>0. /\ catalog \in [Plugin -> Host!Entry] /\ owed \subseteq Plugin
      /\ restarts \in Nat /\ \A s \in Slot : RequestOK(wire[s])
  BY DEF DInv, DashTypeOK
<1>1. CASE UNCHANGED hostVars \/ UNCHANGED catalogVars
  BY <1>0, <1>1 DEF hostVars, catalogVars
<1>2. ASSUME NEW p \in Plugin,
             \/ Host!Register(p, Text) \/ Host!Resubmit(p, Text) \/ Host!Remove(p)
             \/ \E status \in Outcome : Host!Decide(p, Text, status)
      PROVE  /\ catalog' \in [Plugin -> Host!Entry]
             /\ owed' \subseteq Plugin /\ restarts' \in Nat
  <2>1. CASE Host!Register(p, Text) \/ Host!Resubmit(p, Text)
    <3>1. Host!Pending(Text) \in Host!Entry
      BY DEF Host!Pending, Host!Entry, Host!Live
    <3> QED
      BY <1>0, <2>1, <3>1 DEF Host!Register, Host!Resubmit
  <2>2. CASE Host!Remove(p)
    <3>1. Host!Gone \in Host!Entry
      BY DEF Host!Gone, Host!Entry, Host!Live
    <3> QED
      BY <1>0, <2>2, <3>1 DEF Host!Remove
  <2>3. ASSUME NEW status \in Outcome, Host!Decide(p, Text, status)
        PROVE  /\ catalog' \in [Plugin -> Host!Entry]
               /\ owed' \subseteq Plugin /\ restarts' \in Nat
    <3>1. [status |-> status, source |-> catalog[p].source, verdict |-> Text]
            \in Host!Entry
      BY <1>0, DashboardAssumption DEF Host!Entry, Host!Live
    <3> QED
      BY <1>0, <2>3, <3>1 DEF Host!Decide
  <2> QED
    BY <1>2, <2>1, <2>2, <2>3
<1>3. CASE UserActs
  BY <1>1, <1>3 DEF UserActs, ClickPlugin, ClickDelete, ClickRefresh, OpenCreate,
     CancelCreate, SubmitCreate, handleSaveAndCompile, handleRunExecution,
     handleLoadTemplate
<1>4. CASE ListTick \/ EndAbandonedRun \/ \E t \in Timer : PollTick(t)
  BY <1>1, <1>4 DEF ListTick, EndAbandonedRun, PollTick
<1>5. ASSUME NEW s \in Slot, HostHandles(s) \/ NetworkFails(s)
      PROVE  /\ catalog' \in [Plugin -> Host!Entry]
             /\ owed' \subseteq Plugin /\ restarts' \in Nat
  <2>1. CASE HandleCreate(s)
    BY <1>1, <1>2, <2>1 DEF HandleCreate
  <2>2. CASE HandleSave(s) \/ HandleDelete(s)
    <3>1. wire[s].id \in Plugin
      BY <1>0, <2>2 DEF HandleSave, HandleDelete, RequestOK
    <3> QED
      BY <1>1, <1>2, <2>2, <3>1 DEF HandleSave, HandleDelete
  <2>3. CASE \/ HandleList(s) \/ HandleRead(s) \/ BeginRun(s) \/ EndRun(s)
             \/ NetworkFails(s)
    BY <1>1, <2>3 DEF HandleList, HandleRead, BeginRun, EndRun, NetworkFails
  <2> QED
    BY <1>5, <2>1, <2>2, <2>3 DEF HostHandles
<1>6. ASSUME NEW s \in Slot, Arrives(s) PROVE UNCHANGED hostVars
  BY <1>6 DEF Arrives, ListArrives, ListFails, CreateArrives, DeleteArrives,
     AlertsFailure, SaveArrives, SaveFails, RunArrives, PollArrives, PollFails
<1>7. ASSUME NEW p \in Plugin, HostDecides(p) \/ OtherClient(p) \/ MetricsArrive(p)
      PROVE  /\ catalog' \in [Plugin -> Host!Entry]
             /\ owed' \subseteq Plugin /\ restarts' \in Nat
  BY <1>1, <1>2, <1>7 DEF HostDecides, OtherClient, MetricsArrive
<1>8. CASE UNCHANGED vars
  BY <1>1, <1>8 DEF vars
<1> QED
  BY <1>1, <1>3, <1>4, <1>5, <1>6, <1>7, <1>8 DEF Next, PageAndHostAct

PageTyped ==
    /\ plugins \in [Plugin -> SUBSET Host!Live]
    /\ editorCode \in MaybePlugin /\ execResult \in MaybePlugin
    /\ metricsData \in MaybePlugin
    /\ showCreateModal \in BOOLEAN /\ backendConnected \in BOOLEAN
    /\ asked \subseteq Plugin /\ faults \in 0 .. MaxFaults

\* Every step keeps what else the page shows within its types.
LEMMA PageNext ==
    ASSUME DInv, [Next]_vars
    PROVE  PageTyped'
<1>0. /\ PageTyped /\ selectedPlugin.id \in MaybePlugin /\ None \in MaybePlugin
      /\ selectedPlugin # NoPlugin => selectedPlugin.id \in Plugin
      /\ Plugin \subseteq MaybePlugin /\ MaxFaults \in Nat
      /\ \A s \in Slot : RequestOK(wire[s]) /\ wire[s] \in Requests
  BY Typed, DashboardAssumption
     DEF DInv, DashTypeOK, PageTyped, MaybePlugin, RequestOK
<1>1. ASSUME NEW p \in Plugin, fetchMetrics(p) PROVE asked' \subseteq Plugin
  BY <1>0, <1>1 DEF fetchMetrics, PageTyped
<1>2. ASSUME NEW n, NEW st, n.id \in Plugin, handleSelectPlugin(n, st),
             plugins' \in [Plugin -> SUBSET Host!Live],
             showCreateModal' \in BOOLEAN, backendConnected' \in BOOLEAN,
             faults' = faults
      PROVE  PageTyped'
  BY <1>0, <1>1, <1>2 DEF handleSelectPlugin, PageTyped
<1>3. ASSUME NEW p \in Plugin, NEW status \in Host!Live
      PROVE  Updated(p, status) \in [Plugin -> SUBSET Host!Live]
  BY <1>0 DEF PageTyped, Updated
<1>4. CASE UserActs
  <2>1. ASSUME NEW p \in Plugin, ClickPlugin(p) PROVE PageTyped'
    <3>1. PICK status \in plugins[p] :
               handleSelectPlugin([id |-> p, status |-> status], Polls)
      BY <2>1 DEF ClickPlugin
    <3>2. [id |-> p, status |-> status].id \in Plugin
      OBVIOUS
    <3> QED
      BY <1>0, <1>2, <2>1, <3>1, <3>2 DEF ClickPlugin, PageTyped
  <2>2. CASE handleLoadTemplate
    BY <1>0, <2>2 DEF handleLoadTemplate, PageTyped
  <2>3. CASE handleRunExecution
    BY <1>0, <2>3 DEF handleRunExecution, PageTyped, shownVars
  <2>4. CASE OpenCreate \/ CancelCreate
    BY <1>0, <2>4 DEF OpenCreate, CancelCreate, PageTyped, panelVars
  <2>5. CASE \/ ClickRefresh \/ SubmitCreate \/ handleSaveAndCompile
             \/ \E p \in Plugin : ClickDelete(p)
    BY <1>0, <2>5 DEF ClickRefresh, SubmitCreate, handleSaveAndCompile,
                      ClickDelete, PageTyped, panelVars
  <2> QED
    BY <1>4, <2>1, <2>2, <2>3, <2>4, <2>5 DEF UserActs
<1>5. CASE ListTick \/ EndAbandonedRun \/ \E t \in Timer : PollTick(t)
  BY <1>0, <1>5 DEF ListTick, EndAbandonedRun, PollTick, PageTyped, panelVars,
                    uiVars
<1>6. ASSUME NEW s \in Slot, HostHandles(s) \/ NetworkFails(s) PROVE PageTyped'
  BY <1>0, <1>6 DEF HostHandles, NetworkFails, PageTyped, panelVars, uiVars
<1>7. ASSUME NEW p \in Plugin, HostDecides(p) \/ OtherClient(p) \/ MetricsArrive(p)
      PROVE  PageTyped'
  BY <1>0, <1>7 DEF HostDecides, OtherClient, MetricsArrive, PageTyped, panelVars,
                    uiVars
<1>8. CASE UNCHANGED vars
  BY <1>0, <1>8 DEF vars, PageTyped, panelVars
<1>9. ASSUME NEW s \in Slot, Arrives(s) PROVE PageTyped'
  <2> DEFINE r == wire[s]
             p == wire[s].id
  <2>0. /\ RequestOK(r) /\ p \in MaybePlugin
        /\ r.seen \in [Plugin -> Host!Live \cup {"absent"}]
    BY <1>0 DEF Requests, MaybePlugin, Seen
  <2>1. CASE ListArrives(s)
    <3>1. plugins' \in [Plugin -> SUBSET Host!Live]
      BY <2>0, <2>1 DEF ListArrives, Listed
    <3>2. ASSUME NEW q \in Present(r.seen),
                 handleSelectPlugin([id |-> q, status |-> r.seen[q]], Polls)
          PROVE  PageTyped'
      <4>1. [id |-> q, status |-> r.seen[q]].id \in Plugin
        BY DEF Present
      <4> QED
        BY <1>0, <1>2, <2>1, <3>1, <3>2, <4>1 DEF ListArrives, PageTyped
    <3>3. CASE UNCHANGED panelVars
      BY <1>0, <2>1, <3>1, <3>3 DEF ListArrives, PageTyped, panelVars
    <3> QED
      BY <2>1, <3>2, <3>3 DEF ListArrives
  <2>2. CASE ListFails(s) \/ AlertsFailure(s) \/ SaveFails(s) \/ PollFails(s)
    BY <1>0, <2>2 DEF ListFails, AlertsFailure, SaveFails, PollFails, PageTyped,
                      panelVars, uiVars
  <2>3. CASE CreateArrives(s)
    <3>1. p \in Plugin /\ r.seen[p] \in Host!Live
      BY <2>0, <2>3 DEF CreateArrives, Receive, RequestOK
    <3>2. plugins' \in [Plugin -> SUBSET Host!Live]
      BY <1>0, <2>3, <3>1 DEF CreateArrives, PageTyped
    <3>3. [id |-> p, status |-> r.seen[p]].id \in Plugin
      BY <3>1
    <3> QED
      BY <1>0, <1>2, <2>3, <3>2, <3>3 DEF CreateArrives, PageTyped
  <2>4. CASE SaveArrives(s)
    <3>1. p \in Plugin /\ r.seen[p] \in Host!Live
      BY <2>0, <2>4 DEF SaveArrives, Receive, RequestOK
    <3> QED
      BY <1>0, <1>3, <2>4, <3>1 DEF SaveArrives, PageTyped, panelVars
  <2>5. CASE DeleteArrives(s)
    BY <1>0, <2>5 DEF DeleteArrives, PageTyped, panelVars
  <2>6. CASE RunArrives(s)
    <3>1. wire[s].kind = "run" => p \in Plugin
      BY <2>0 DEF RequestOK
    <3>2. asked' \subseteq Plugin
      BY <1>0, <1>1, <2>6, <3>1 DEF RunArrives, Receive, PageTyped
    <3> QED
      BY <1>0, <2>0, <2>6, <3>2 DEF RunArrives, PageTyped
  <2>7. CASE PollArrives(s)
    <3>1. p \in Plugin /\ r.seen[p] \in Host!Live
      BY <2>0, <2>7 DEF PollArrives, Receive, RequestOK
    <3> QED
      BY <1>0, <1>3, <2>7, <3>1 DEF PollArrives, PageTyped, panelVars
  <2> QED
    BY <1>9, <2>1, <2>2, <2>3, <2>4, <2>5, <2>6, <2>7 DEF Arrives
<1> QED
  BY <1>4, <1>5, <1>6, <1>7, <1>8, <1>9 DEF Next, PageAndHostAct

\* The invariant is inductive.
LEMMA DInvNext == DInv /\ [Next]_vars => DInv'
<1> SUFFICES ASSUME DInv, [Next]_vars PROVE DInv'
  OBVIOUS
<1>1. DashTypeOK'
  <2>1. selectedPlugin' \in Selections /\ isCompiling' \in BOOLEAN
    BY ShownEffect DEF ShownStep
  <2>2. /\ timers' \in [Timer -> Interval \cup {NoPoll}]
        /\ pollingRef' \in [Plugin -> Timer \cup {None}]
    BY WireNext DEF PollsOK, Polls
  <2> QED
    BY <2>1, <2>2, WireNext, HostNextTyped, AbandonedNext, PageNext
       DEF DashTypeOK, PageTyped, MaybePlugin, Selections, Interval
<1> QED
  BY <1>1, WireNext DEF DInv

-----------------------------------------------------------------------------
\* Every variable of the page, of the network and of the host stays within its
\* type, for any number of plugins, requests in flight and intervals.
THEOREM DashTypeCorrect == Spec => []DashTypeOK
<1>1. DInv => DashTypeOK
  BY DEF DInv
<1> QED
  BY <1>1, DInvInit, DInvNext, PTL DEF Spec

\* A registration of startPolling never names a dead interval or one of
\* another plugin, however polls, saves, selections and losses interleave.
THEOREM NoDeadRegistration == Spec => []RegisteredIsLive
<1>1. DInv => RegisteredIsLive
  BY DEF DInv, PollsOK, Polls, RegisteredIsLive
<1> QED
  BY <1>1, DInvInit, DInvNext, PTL DEF Spec

\* One page awaits at most one run, with the Execute button disabled exactly
\* as long, and each further run of it on the host has cost an answer that was
\* lost, for any number of plugins, requests and faults.
THEOREM RunsDoubleByLoss == Spec => []OnlyLossesDoubleRuns
<1> DEFINE I == OneAwaited /\ abandonedRuns <= faults
<1>1. Init => I
  BY DEF Init, Mounted, Request, Idle, OneAwaited
<1>2. DInv /\ I /\ [Next]_vars => I'
  BY OneRunNext, AbandonedNext
<1>3. DInv /\ I => OnlyLossesDoubleRuns
  BY RunsCounted
<1> QED
  BY <1>1, <1>2, <1>3, DInvInit, DInvNext, PTL DEF Spec

\* A page on which nobody creates a plugin sends no request to create one.
LEMMA NoCreateNext ==
    ASSUME "create" \notin Act, DInv, ~showCreateModal, NoCreate, [Next]_vars
    PROVE  ~showCreateModal' /\ NoCreate'
<1>1. NoCreate'
  <2>1. WireStep /\ wire \in [Slot -> Requests] /\ Idle.kind # "create"
    BY WireEffect, Typed DEF DInv, Idle
  <2>2. ASSUME NEW s \in Slot, NEW r, Put(s, r), r.kind # "create" PROVE NoCreate'
    BY <2>1, <2>2 DEF NoCreate, Put
  <2> QED
    BY <2>1, <2>2 DEF WireStep, NoCreate, Keeps
<1>2. ~showCreateModal'
  <2>1. CASE UserActs
    BY <2>1 DEF UserActs, ClickPlugin, ClickDelete, ClickRefresh, OpenCreate,
       CancelCreate, SubmitCreate, handleSaveAndCompile, handleRunExecution,
       handleLoadTemplate
  <2>2. ASSUME NEW s \in Slot, Arrives(s) PROVE ~showCreateModal'
    BY <2>2 DEF Arrives, ListArrives, ListFails, CreateArrives, DeleteArrives,
       AlertsFailure, SaveArrives, SaveFails, RunArrives, PollArrives, PollFails,
       uiVars
  <2>3. CASE ~UserActs /\ ~ \E s \in Slot : Arrives(s)
    BY <2>3 DEF Next, PageAndHostAct, ListTick, PollTick, EndAbandonedRun, HostHandles,
       NetworkFails, HostDecides, MetricsArrive, OtherClient, uiVars, vars
  <2> QED
    BY <2>1, <2>2, <2>3
<1> QED
  BY <1>1, <1>2

\* Where no plugin is created, "Compiling cargo..." always has something on
\* its way that ends it: the answer of a save, or an interval that polls the
\* plugin shown and will find it shown.
THEOREM CompilingIsWaiting == "create" \notin Act => (Spec => []CompilingCanEnd)
<1> SUFFICES ASSUME "create" \notin Act PROVE Spec => []CompilingCanEnd
  OBVIOUS
<1>1. Init => CompilingCanEnd /\ NoCreate /\ ~showCreateModal
  BY DEF Init, Mounted, Request, Idle, CompilingCanEnd, NoCreate
<1>2. DInv /\ CompilingCanEnd /\ NoCreate /\ ~showCreateModal /\ [Next]_vars
        => CompilingCanEnd' /\ NoCreate' /\ ~showCreateModal'
  BY NoCreateNext, ShownEffect DEF ShownStep
<1> QED
  BY <1>1, <1>2, DInvInit, DInvNext, PTL DEF Spec
=============================================================================
