------------------------------ MODULE ShellProofs ------------------------------
(***************************************************************************)
(* Shell for any names and logins, any number of deletions and lines and   *)
(* any events of the app list stream: a wipe was confirmed in full and is  *)
(* for the server its dialogs named, a deletion is for the server it was   *)
(* confirmed for, and `syncing` tells the truth about the one sync.        *)
(***************************************************************************)
EXTENDS Shell, TLAPS

-----------------------------------------------------------------------------
(* Prompts                                                                 *)

StepsOf(kind) ==
  CASE kind = "setup"    -> {"rerun", "confirm", "token", "host", "update"}
    [] kind = "wipe"     -> {"confirm", "token"}
    [] kind = "proxy"    -> {"edit", "editDomain", "domain", "editIP", "ip", "editUser", "auth"}
    [] kind = "password" -> {"password"}

\* The token is asked for once the confirmation was given, the plan wipes the
\* server that was named once both were, and nothing was cancelled.
FlowOK(f) ==
  /\ f \in FlowType /\ f.step \in StepsOf(f.kind)
  /\ \A x \in f.said : x[2] # "cancel"
  /\ f.step = "token" => <<"confirm", "yes">> \in f.said
  /\ f.wipe # None =>
       f.wipe = f.host /\ {<<"confirm", "yes">>, <<"token", "text">>} \subseteq f.said

\* The first dialog of a flow.
LEMMA FirstDialog ==
  ASSUME NEW kind, NEW step, NEW host \in Names \cup {None},
         kind \in {"setup", "wipe", "proxy", "password"}, step \in StepsOf(kind), step # "token"
  PROVE  LET f == Flow(kind, step, host)
         IN  FlowOK(f) /\ f.end = "open" /\ f.kind = kind /\ f.host = host
BY DEF FlowOK, Flow, FlowType, StepsOf, Forms, Confirms

Keeps(g, f) == g.kind = f.kind /\ g.host = f.host

\* What a flow's steps are made of.
LEMMA FlowMoves ==
  ASSUME NEW f, FlowOK(f)
  PROVE  /\ \A step \in StepsOf(f.kind) \ {"token"} : \A g \in At(f, step) : FlowOK(g) /\ Keeps(g, f)
         /\ <<"confirm", "yes">> \in f.said /\ "token" \in StepsOf(f.kind) =>
              \A g \in At(f, "token") : FlowOK(g) /\ Keeps(g, f)
         /\ \A g \in Ends(f, "plan") : FlowOK(g) /\ Keeps(g, f)
         /\ \A how \in {"note", "cancelled"} : \A g \in Ends(f, how) : g.end = how
<1> USE DEF FlowOK, FlowType, At, Ends, Keeps
<1>1. \A step \in StepsOf(f.kind) : step \in Forms \cup Confirms
  BY DEF StepsOf, Forms, Confirms
<1> QED
  BY <1>1

\* A flow's plan is filled in.
LEMMA FlowPlans ==
  ASSUME NEW f, FlowOK(f)
  PROVE  /\ \A h \in Hosts : FlowOK([f EXCEPT !.to = h]) /\ Keeps([f EXCEPT !.to = h], f)
         /\ FlowOK([f EXCEPT !.edit = TRUE]) /\ Keeps([f EXCEPT !.edit = TRUE], f)
         /\ {<<"confirm", "yes">>, <<"token", "text">>} \subseteq f.said =>
              FlowOK([f EXCEPT !.wipe = f.host]) /\ Keeps([f EXCEPT !.wipe = f.host], f)
BY DEF FlowOK, FlowType, Keeps

\* An answer moves a flow on to a dialog of its own, or to its plan, with what
\* was asked for in `said`.
LEMMA Answered ==
  ASSUME NEW f, FlowOK(f), f.end = "open", NEW a \in AnswersAt(f.step),
         NEW g \in ApplyResult(f, a), g.end \in {"open", "plan"}
  PROVE  FlowOK(g) /\ Keeps(g, f)
<1> DEFINE h == [f EXCEPT !.said = f.said \cup {<<f.step, a>>}]
<1>1. /\ f \in FlowType /\ f.step \in StepsOf(f.kind)
      /\ f.kind \in {"setup", "wipe", "proxy", "password"}
      /\ f.step = "token" => <<"confirm", "yes">> \in f.said
  BY DEF FlowOK, FlowType
<1>2. a # "cancel"
  <2>1. a = "cancel" => g = [h EXCEPT !.end = "cancelled"]
    BY DEF ApplyResult, Ends
  <2>2. [h EXCEPT !.end = "cancelled"].end = "cancelled"
    BY <1>1 DEF FlowType
  <2> QED
    BY <2>1, <2>2
<1>3. /\ a \in Hosts \cup {"text", "yes", "no"}
      /\ f.step = "host" => a \in Hosts
      /\ f.step = "token" => a = "text"
      /\ f.step = "confirm" => a \in {"yes", "no"}
  BY <1>2 DEF AnswersAt, Forms
<1>4. /\ FlowOK(h) /\ h.kind = f.kind /\ h.step = f.step /\ h.host = f.host
      /\ h.said = f.said \cup {<<f.step, a>>}
  BY <1>2, <1>3 DEF FlowOK, FlowType
<1>5. /\ f.kind = "setup" => g \in SetupApply(h, a)
      /\ f.kind = "wipe" => g \in WipeApply(h, a)
      /\ f.kind = "proxy" => g \in ProxyApply(h, a)
      /\ f.kind = "password" => g \in PasswordApply(h, a)
  BY <1>2 DEF ApplyResult
<1> HIDE DEF h
<1> USE DEF Keeps
<1>6. CASE f.kind = "setup"
  <2> USE <1>1, <1>3, <1>4, <1>6
  <2>1. f.step \in {"rerun", "confirm", "token", "host", "update"} /\ g \in SetupApply(h, a)
    BY <1>5 DEF StepsOf
  <2>2. {"confirm", "token", "host", "update"} \subseteq StepsOf(h.kind)
    BY DEF StepsOf
  <2>3. CASE f.step = "rerun"
    BY <2>1, <2>2, <2>3, FlowMoves DEF SetupApply
  <2>4. CASE f.step = "confirm"
    BY <2>1, <2>2, <2>4, FlowMoves DEF SetupApply
  <2>5. CASE f.step = "token"
    <3> DEFINE k == [h EXCEPT !.wipe = h.host]
    <3>1. FlowOK(k) /\ Keeps(k, h)
      BY <2>5, FlowPlans
    <3>2. g \in At(k, "host")
      BY <2>1, <2>5 DEF SetupApply
    <3> HIDE DEF k
    <3> QED
      BY <2>2, <3>1, <3>2, FlowMoves
  <2>6. CASE f.step = "host"
    <3> DEFINE k == [h EXCEPT !.to = a]
    <3>1. FlowOK(k) /\ Keeps(k, h)
      BY <2>6, FlowPlans
    <3>2. g \in At(k, "update") \cup Ends(k, "plan")
      BY <2>1, <2>6 DEF SetupApply
    <3> HIDE DEF k
    <3> QED
      BY <2>2, <3>1, <3>2, FlowMoves
  <2>7. CASE f.step = "update"
    BY <2>1, <2>7, FlowMoves DEF SetupApply
  <2> QED
    BY <2>1, <2>3, <2>4, <2>5, <2>6, <2>7
<1>7. CASE f.kind = "wipe"
  <2> USE <1>1, <1>3, <1>4, <1>7
  <2>1. f.step \in {"confirm", "token"} /\ g \in WipeApply(h, a) /\ "token" \in StepsOf(h.kind)
    BY <1>5 DEF StepsOf
  <2>2. CASE f.step = "confirm"
    BY <2>1, <2>2, FlowMoves DEF WipeApply
  <2>3. CASE f.step = "token"
    <3> DEFINE k == [h EXCEPT !.wipe = h.host]
    <3>1. FlowOK(k) /\ Keeps(k, h)
      BY <2>3, FlowPlans
    <3>2. g \in Ends(k, "plan")
      BY <2>1, <2>3 DEF WipeApply
    <3> HIDE DEF k
    <3> QED
      BY <3>1, <3>2, FlowMoves
  <2> QED
    BY <2>1, <2>2, <2>3, FlowMoves DEF WipeApply
<1>8. CASE f.kind = "proxy"
  <2> USE <1>4, <1>8
  <2>1. /\ f.step \in {"edit", "editDomain", "domain", "editIP", "ip", "editUser", "auth"}
        /\ g \in ProxyApply(h, a)
    BY <1>1, <1>5 DEF StepsOf
  <2>2. {"editDomain", "domain", "editIP", "ip", "editUser", "auth"} \subseteq StepsOf(h.kind) \ {"token"}
    BY DEF StepsOf
  <2>3. CASE f.step = "edit"
    <3> DEFINE k == [h EXCEPT !.edit = TRUE]
    <3>1. FlowOK(k) /\ Keeps(k, h)
      BY FlowPlans
    <3>2. g \in At(k, "editDomain") \cup Ends(h, "plan")
      BY <2>1, <2>3 DEF ProxyApply
    <3> HIDE DEF k
    <3> QED
      BY <2>2, <3>1, <3>2, FlowMoves
  <2>4. CASE f.step \in {"editDomain", "domain", "editIP", "ip"}
    BY <2>1, <2>2, <2>4, FlowMoves DEF ProxyApply
  <2>5. CASE f.step \in {"editUser", "auth"}
    BY <2>1, <2>2, <2>5, FlowMoves DEF ProxyApply
  <2> QED
    BY <2>1, <2>3, <2>4, <2>5
<1>9. CASE f.kind = "password"
  BY <1>4, <1>5, <1>9, FlowMoves DEF PasswordApply
<1> QED
  BY <1>1, <1>6, <1>7, <1>8, <1>9

-----------------------------------------------------------------------------
(* What a handler leaves                                                   *)

\* A state of the shell, with a prompt that is still open,
\* and, if it is setup's, names the server the shell is set to.
Good(s) ==
  /\ s \in ShellState
  /\ s.flow # None => FlowOK(s.flow) /\ s.flow.end = "open"
  /\ s.flow # None /\ s.flow.kind = "setup" => s.flow.host = s.host

-----------------------------------------------------------------------------
(* The one sync                                                            *)

SyncTasks == {t \in TaskType : t.kind \in {"connect", "names", "ready", "sync"}}
SyncsIn(b) == BagToSet(b) \cap SyncTasks

\* SyncFlagIsTrue, of a state of the shell and its commands.
FlagTrue(s, b, dropped) ==
  /\ \A t \in SyncsIn(b) : s.syncing /\ SyncsIn(b) = {t} /\ b[t] = 1
  /\ s.startup => SyncsIn(b) # {}
  /\ s.syncing => SyncsIn(b) # {} \/ dropped

-----------------------------------------------------------------------------
(* The invariant                                                           *)

\* runShell finds the plan it is to carry out, and the plan was asked for.
PlanFit ==
  /\ at = "setup" => /\ FlowOK(todo) /\ todo.kind = "setup" /\ todo.end = "plan"
                     /\ todo.host = sh.host /\ sh.flow = None
  /\ at = "action" /\ todo.kind \notin {"attach", "remove", "edit"} =>
       FlowOK(todo) /\ todo.kind # "setup" /\ todo.end = "plan"
  /\ at = "action" /\ todo.kind = "remove" => todo.host \in Hosts \cup {None}

\* Until the shell has started, nothing runs but what starts it.
Starting ==
  sh.startup => /\ at \in {"shell", "over"} /\ sh.flow = None
                /\ \A t \in BagToSet(flight) : t.kind \in {"connect", "names", "ready"}

Counters == lines \in 0..MaxLines /\ events \in 0..MaxEvents /\ stranded \in BOOLEAN

Fit ==
  /\ at \in {"shell", "setup", "session", "action", "deleting", "next", "over"}
  /\ Good(sh) /\ BagToSet(flight) \subseteq TaskType /\ PlanFit /\ Starting /\ Counters
  /\ at = "shell" => FlagTrue(sh, flight, stranded)

\* A deletion that has looked goes to the server it was confirmed for, unless
\* the shell was moved before, and has a gateway to no other in hand.
Aimed(del) ==
  /\ del \in Deletion
  /\ del.step = "resolve" => del.for = sh.host \/ del.moved
  /\ del.step \in {"check", "connect", "delete"} => del.to = Login(del.for) \/ del.moved
  /\ del.step = "delete" => del.gw = del.to

DelsFit == dels \in [Deleters -> Deletion] /\ \A d \in Deleters : Aimed(dels[d])

ShellInv == Fit /\ DelsFit /\ WipedAsAsked /\ DeletedAsConfirmed

-----------------------------------------------------------------------------
(* Handlers                                                                *)

\* What names resolve to.
LEMMA LoginType ==
  ASSUME NEW h \in Names \cup {None}
  PROVE  Login(h) \in Logins \cup {None}
BY ShellAssumption DEF Login

\* A handler leaves the flags of the sync alone, or takes `syncing` for the
\* sync it starts.
Handled(s, r) ==
  /\ Good(r.s) /\ r.s.startup = s.startup /\ r.task \in TaskType \cup {None}
  /\ r.task \notin SyncTasks => r.s.syncing = s.syncing
  /\ r.task \in SyncTasks => ~s.syncing /\ r.s.syncing

Aside(s, t) == Good(t) /\ t.startup = s.startup /\ t.syncing = s.syncing

\* The state with a field or two changed, or with a prompt opened.
LEMMA Changed ==
  ASSUME NEW s, NEW t, Aside(s, t)
  PROVE  /\ Aside(s, [t EXCEPT !.gw = None, !.stream = FALSE])
         /\ \A l \in Logins \cup {None} : Aside(s, [t EXCEPT !.gw = l])
         /\ t.flow = None =>
              \A h \in Hosts : Aside(s, [t EXCEPT !.host = h, !.ask = FALSE, !.setup = FALSE])
         /\ \A c \in Lines \cup {None} : Aside(s, [t EXCEPT !.pending = c])
         /\ \A b \in BOOLEAN : /\ Aside(s, [t EXCEPT !.listing = b])
                               /\ Aside(s, [t EXCEPT !.busy = b])
                               /\ Aside(s, [t EXCEPT !.confirm = b])
                               /\ Aside(s, [t EXCEPT !.resume = b])
         /\ \A x \in {"app", "global"} : Aside(s, [t EXCEPT !.scope = x])
         /\ Aside(s, [t EXCEPT !.loaded = FALSE, !.pending = None])
         /\ Aside(s, [t EXCEPT !.loaded = FALSE, !.listing = FALSE])
         /\ Aside(s, [t EXCEPT !.loaded = TRUE, !.listing = FALSE])
         /\ \A f : FlowOK(f) /\ f.end = "open" /\ (f.kind = "setup" => f.host = t.host) =>
                Aside(s, [t EXCEPT !.flow = f])
<1>0. t \in ShellState
  BY DEF Aside, Good
<1>1. \A l \in Logins \cup {None} : Aside(s, [t EXCEPT !.gw = l])
  BY DEF Aside, Good, ShellState
<1>2. t.flow = None =>
        \A h \in Hosts : Aside(s, [t EXCEPT !.host = h, !.ask = FALSE, !.setup = FALSE])
  BY DEF Aside, Good, ShellState
<1>3. \A c \in Lines \cup {None} : Aside(s, [t EXCEPT !.pending = c])
  BY DEF Aside, Good, ShellState
<1>4. \A b \in BOOLEAN : Aside(s, [t EXCEPT !.listing = b]) /\ Aside(s, [t EXCEPT !.busy = b])
  BY DEF Aside, Good, ShellState
<1>5. \A b \in BOOLEAN : Aside(s, [t EXCEPT !.confirm = b]) /\ Aside(s, [t EXCEPT !.resume = b])
  BY DEF Aside, Good, ShellState
<1>6. \A x \in {"app", "global"} : Aside(s, [t EXCEPT !.scope = x])
  BY DEF Aside, Good, ShellState
<1>7. /\ Aside(s, [t EXCEPT !.loaded = FALSE, !.pending = None])
      /\ Aside(s, [t EXCEPT !.loaded = FALSE, !.listing = FALSE])
      /\ Aside(s, [t EXCEPT !.loaded = TRUE, !.listing = FALSE])
  BY DEF Aside, Good, ShellState
<1>8. \A f : FlowOK(f) /\ f.end = "open" /\ (f.kind = "setup" => f.host = t.host) =>
                Aside(s, [t EXCEPT !.flow = f])
  BY DEF Aside, Good, ShellState, FlowOK
<1>9. Aside(s, [t EXCEPT !.gw = None, !.stream = FALSE])
  BY DEF Aside, Good, ShellState
<1> QED
  BY <1>1, <1>2, <1>3, <1>4, <1>5, <1>6, <1>7, <1>8, <1>9

\* A handler that only moves the state aside, whatever it starts.
LEMMA HandledAside ==
  ASSUME NEW s, NEW t, Aside(s, t)
  PROVE  /\ Handled(s, Said(t)) /\ Handled(s, Wait(t))
         /\ \A task \in TaskType \ SyncTasks : Handled(s, Reply(t, task))
BY ShellAssumption DEF Aside, Handled, Said, Wait, Reply, Task, TaskType, SyncTasks

\* The one place where a sync starts.
LEMMA HandledSync ==
  ASSUME NEW s, NEW t, Aside(s, t)
  PROVE  Handled(s, StartSync(t))
<1>1. CASE t.syncing
  BY <1>1, HandledAside DEF StartSync
<1>2. CASE ~t.syncing
  <2> DEFINE u == [t EXCEPT !.syncing = TRUE]
  <2>1. Good(u) /\ u.startup = s.startup /\ u.syncing
    BY DEF Aside, Good, ShellState
  <2>2. Task("sync", Login(t.host)) \in SyncTasks
    BY LoginType DEF Aside, Good, ShellState, SyncTasks, TaskType, Task, Names
  <2> QED
    BY <1>2, <2>1, <2>2 DEF Handled, StartSync, Reply, Aside, SyncTasks
<1> QED
  BY <1>1, <1>2

\* A line that waits for the app list.
LEMMA HandledList ==
  ASSUME NEW s, NEW t, Aside(s, t), NEW render \in BOOLEAN
  PROVE  Handled(s, AwaitList(t, render))
<1>1. Task("load", render) \in TaskType \ SyncTasks
  BY DEF Task, TaskType, SyncTasks
<1>2. Aside(s, [t EXCEPT !.listing = TRUE])
  BY Changed
<1> QED
  BY <1>1, <1>2, HandledAside DEF AwaitList, Load

\* A line that is deferred.
LEMMA HandledDefer ==
  ASSUME NEW s, NEW t, Aside(s, t), NEW c \in Lines
  PROVE  Handled(s, StartSync(Keep(t, c))) /\ Handled(s, Defer(t, c))
<1>1. Aside(s, Keep(t, c))
  BY Changed DEF Keep
<1> QED
  BY <1>1, HandledAside, HandledSync, HandledList DEF Defer

\* The shell's gateway replaced.
LEMMA Connected ==
  ASSUME NEW s, NEW t, Aside(s, t), NEW l \in Logins \cup {None}
  PROVE  /\ Aside(s, Close(t)) /\ Aside(s, Connect(t, l))
         /\ Connect(t, l).host = t.host /\ Connect(t, l).flow = t.flow
<1>1. Aside(s, Close(t))
  BY Changed DEF Close
<1>2. Aside(s, Connect(t, l))
  BY <1>1, Changed DEF Connect
<1>3. Connect(t, l).host = t.host /\ Connect(t, l).flow = t.flow
  BY DEF Connect, Close, Aside, Good, ShellState
<1> QED
  BY <1>1, <1>2, <1>3

\* Looking for a gateway leaves the shell's server and prompt alone.
LEMMA Reached ==
  ASSUME NEW s, NEW t, Aside(s, t), NEW h \in Names \cup {None}, NEW r \in Reach(t, h)
  PROVE  Aside(s, r.s) /\ r.s.host = t.host /\ r.s.flow = t.flow
<1>1. Login(h) \in Logins \cup {None}
  BY LoginType
<1> DEFINE c == Connect(t, Login(h))
<1>2. Aside(s, c) /\ c.host = t.host /\ c.flow = t.flow
  BY <1>1, Connected
<1> HIDE DEF c
<1>3. r.s \in {t, c}
  BY DEF Reach, Said, Reply, c
<1> QED
  BY <1>2, <1>3

\* `cd`.
LEMMA HandledChangeTo ==
  ASSUME NEW s, NEW t, Aside(s, t), NEW c \in Lines, NEW typed \in BOOLEAN,
         NEW r \in ChangeTo(t, c, typed)
  PROVE  Handled(s, r)
<1>1. \A x \in {"app", "global"} : Handled(s, Said([t EXCEPT !.scope = x]))
  BY Changed, HandledAside
<1>2. Handled(s, Said(t))
  BY HandledAside
<1>3. Aside(s, Keep(t, c))
  BY Changed DEF Keep
<1>4. Handled(s, AwaitList(Keep(t, c), TRUE)) /\ Handled(s, StartSync(Keep(t, c)))
  BY <1>3, HandledList, HandledSync
<1> QED
  BY <1>1, <1>2, <1>4 DEF ChangeTo, IfKnown

\* A prompt is opened at a dialog other than the token's.
LEMMA Opened ==
  ASSUME NEW s, NEW t, Aside(s, t)
  PROVE  /\ \A h \in Names : /\ Aside(s, [t EXCEPT !.flow = PasswordFlow(h)])
                             /\ Aside(s, [t EXCEPT !.flow = WipeFlow(h)])
                             /\ \A b \in BOOLEAN : Aside(s, [t EXCEPT !.flow = ProxyFlow(h, b)])
         /\ Aside(s, Setup(t))
<1> DEFINE Opens(f) == FlowOK(f) /\ f.end = "open" /\ f.kind # "setup"
<1>1. \A h \in Names : Opens(PasswordFlow(h))
  BY FirstDialog DEF PasswordFlow, StepsOf
<1>2. \A h \in Names : Opens(WipeFlow(h))
  BY FirstDialog DEF WipeFlow, StepsOf
<1>3. \A h \in Names, b \in BOOLEAN : Opens(ProxyFlow(h, b))
  <2> TAKE h \in Names, b \in BOOLEAN
  <2>1. \A step \in {"edit", "domain"} : Opens(Flow("proxy", step, h))
    BY FirstDialog DEF StepsOf
  <2> QED
    BY <2>1 DEF ProxyFlow
<1>4. Aside(s, Setup(t))
  <2> DEFINE connected == t.boot /\ ~t.setup /\ t.host # None
             f == SetupFlow(t.host, connected)
             u == [t EXCEPT !.pending = None, !.setup = @ \/ ~connected, !.flow = f]
  <2>1. t \in ShellState /\ t.host \in Hosts \cup {None} /\ connected \in BOOLEAN
    BY DEF Aside, Good, ShellState
  <2>2. FlowOK(f) /\ f.end = "open" /\ f.host = t.host
    <3>1. \A step \in {"rerun", "host"} : LET g == Flow("setup", step, t.host)
                                         IN  FlowOK(g) /\ g.end = "open" /\ g.host = t.host
      BY <2>1, FirstDialog DEF StepsOf, Names
    <3> QED
      BY <3>1 DEF SetupFlow
  <2> HIDE DEF f
  <2>3. Aside(s, u)
    BY <2>1, <2>2 DEF Aside, Good, ShellState, FlowOK
  <2> QED
    BY <2>3 DEF Setup, f
<1> QED
  BY <1>1, <1>2, <1>3, <1>4, Changed

\* Another server is set.
LEMMA HandledSetHost ==
  ASSUME NEW s, NEW t, Aside(s, t), t.flow = None, NEW h \in Hosts, NEW r \in SetHost(t, h)
  PROVE  Handled(s, r)
<1> DEFINE u == [t EXCEPT !.host = h, !.ask = FALSE, !.setup = FALSE]
           v == [u EXCEPT !.loaded = FALSE, !.pending = None]
<1>1. Aside(s, u)
  BY Changed
<1> HIDE DEF u
<1>2. Aside(s, v)
  BY <1>1, Changed
<1> HIDE DEF v
<1>3. Aside(s, Close(v))
  BY <1>2, Changed DEF Close
<1>4. r = Said(u) \/ r = StartSync(Close(v))
  BY DEF SetHost, u, v
<1> QED
  BY <1>1, <1>3, <1>4, HandledAside, HandledSync

\* A command that runs on its own.
LEMMA Tasks ==
  /\ \A h \in Hosts \cup {None} : {Task("prepare", h), Task("run", h)} \subseteq TaskType \ SyncTasks
  /\ \A h \in Hosts \cup {None} : Task("remove", h) \in TaskType \ SyncTasks
  /\ {Task("edit", None), Quit} \subseteq TaskType \ SyncTasks
BY DEF Task, TaskType, SyncTasks, Quit

\* A line in the scope of an app.
LEMMA HandledDispatchApp ==
  ASSUME NEW s, NEW t, Aside(s, t), NEW c \in Lines, c.scope = "app", c.name # "cd",
         NEW r \in DispatchApp(t, c)
  PROVE  Handled(s, r)
<1>1. c.name \in {"vibe", "run", "delete", "edit", "leave"} /\ c.to \in Hosts \cup {None}
  BY DEF Lines, Line, AppScope
<1>2. t.host \in Hosts \cup {None}
  BY DEF Aside, Good, ShellState
<1>3. Handled(s, Said(t)) /\ Handled(s, Said([t EXCEPT !.scope = "global"]))
  BY Changed, HandledAside
<1>4. /\ Handled(s, Reply(t, Task("prepare", t.host))) /\ Handled(s, Reply(t, Task("run", t.host)))
      /\ Handled(s, Reply(t, Task("remove", c.to))) /\ Handled(s, Reply(t, Task("edit", None)))
  BY <1>1, <1>2, Tasks, HandledAside
<1> QED
  BY <1>1, <1>3, <1>4 DEF DispatchApp

\* A line in the global scope.
LEMMA HandledDispatch ==
  ASSUME NEW s, NEW t, Aside(s, t), t.flow = None,
         NEW c \in Lines, c.scope = "global", NEW r \in Dispatch(t, c)
  PROVE  Handled(s, r)
<1>1. c.name \in {"config", "users", "wipe", "proxy"} =>
        c.to \in Hosts /\ c.to \in Names /\ Login(c.to) \in Names
  <2>1. c.name \in {"config", "users", "wipe", "proxy"} => c.to \in Hosts
    BY DEF Lines, Line, AppScope, Global
  <2> QED
    BY <2>1, ShellAssumption DEF Login, Names
<1>2. t.host \in Hosts \cup {None}
  BY DEF Aside, Good, ShellState
<1>3. /\ Handled(s, Said(t)) /\ Handled(s, Said([t EXCEPT !.scope = "app"]))
      /\ Handled(s, Said([t EXCEPT !.confirm = TRUE]))
  BY Changed, HandledAside
<1>4. /\ Handled(s, Reply(t, Task("prepare", t.host))) /\ Handled(s, Reply(t, Task("run", t.host)))
      /\ Handled(s, Reply(t, Quit))
  BY <1>2, Tasks, HandledAside
<1>5. Handled(s, AwaitList(t, TRUE)) /\ Handled(s, StartSync(Keep(t, c)))
  BY HandledList, HandledDefer
<1>6. CASE c.name = "proxy"
  <2>1. PICK q \in Reach(t, c.to), b \in BOOLEAN :
          r = IF q.task = None THEN Said(q.s) ELSE Wait([q.s EXCEPT !.flow = ProxyFlow(Login(c.to), b)])
    BY <1>6 DEF Dispatch
  <2>2. Aside(s, q.s)
    BY <1>1, <1>6, Reached DEF Names
  <2>3. Aside(s, [q.s EXCEPT !.flow = ProxyFlow(Login(c.to), b)])
    BY <1>1, <1>6, <2>2, Opened
  <2> QED
    BY <2>1, <2>2, <2>3, HandledAside
<1>7. CASE c.name = "users"
  <2>1. Aside(s, [t EXCEPT !.flow = PasswordFlow(c.to)])
    BY <1>1, <1>7, Opened
  <2> QED
    BY <1>7, <2>1, HandledAside DEF Dispatch
<1>8. CASE c.name = "wipe"
  <2>1. Aside(s, [t EXCEPT !.flow = WipeFlow(Login(c.to))])
    BY <1>1, <1>8, Opened
  <2> QED
    BY <1>8, <2>1, HandledAside DEF Dispatch
<1>9. CASE c.name = "setup"
  BY <1>9, Opened, HandledAside DEF Dispatch
<1>10. CASE c.name = "config"
  BY <1>1, <1>10, HandledSetHost DEF Dispatch
<1>11. CASE c.name \notin {"proxy", "users", "wipe", "setup", "config"}
  <2>1. CASE c.name = "apps"
    <3>1. Dispatch(t, c) = {IF t.loaded THEN Said(t)
                            ELSE IF t.listing \/ Ready(t) THEN AwaitList(t, TRUE)
                            ELSE StartSync(Keep(t, c))}
      BY <2>1 DEF Dispatch
    <3>2. r \in {Said(t), AwaitList(t, TRUE), StartSync(Keep(t, c))}
      BY <3>1
    <3> QED
      BY <1>3, <1>5, <3>2
  <2>2. CASE c.name = "app"
    <3>1. r \in {Said(t), Said([t EXCEPT !.scope = "app"])}
      BY <2>2 DEF Dispatch, IfKnown
    <3> QED
      BY <1>3, <3>1
  <2>3. CASE c.name = "rm"
    <3>1. r \in {Said(t), Said([t EXCEPT !.confirm = TRUE])}
      BY <2>3 DEF Dispatch, IfKnown
    <3> QED
      BY <1>3, <3>1
  <2>4. CASE c.name \in {"here", "shell"}
    <3>1. Dispatch(t, c) = IfKnown(t, Reply(t, Task("prepare", t.host)))
      BY <2>4 DEF Dispatch
    <3> QED
      BY <1>3, <1>4, <3>1 DEF IfKnown
  <2>5. CASE c.name = "vibe"
    <3>1. Dispatch(t, c) = {Said(t), Reply(t, Task("prepare", t.host))}
      BY <2>5 DEF Dispatch
    <3> QED
      BY <1>3, <1>4, <3>1
  <2>6. CASE c.name = "run"
    <3>1. Dispatch(t, c) = {Said(t), Reply(t, Task("run", t.host))}
      BY <2>6 DEF Dispatch
    <3> QED
      BY <1>3, <1>4, <3>1
  <2>7. CASE c.name = "exit"
    <3>1. Dispatch(t, c) = {Reply(t, Quit)}
      BY <2>7 DEF Dispatch
    <3> QED
      BY <1>4, <3>1
  <2>8. CASE c.name = "cd"
    <3>1. Dispatch(t, c) = {Said(t)}
      BY <2>8 DEF Dispatch
    <3> QED
      BY <1>3, <3>1
  <2>9. CASE c.name = "help"
    <3>1. Dispatch(t, c) = {Said(t)}
      BY <2>9 DEF Dispatch
    <3> QED
      BY <1>3, <3>1
  <2>10. c.name \in Global
    <3>1. c = Line(c.scope, c.name, c.to) /\ c.scope # "app"
      BY DEF Lines, Line
    <3> QED
      BY <3>1 DEF Lines, Line, Global
  <2> QED
    BY <1>11, <2>10, <2>9, <2>1, <2>2, <2>3, <2>4, <2>5, <2>6, <2>7, <2>8 DEF Global
<1> QED
  BY <1>6, <1>7, <1>8, <1>9, <1>10, <1>11

\* executeShellCommand.
LEMMA HandledExecute ==
  ASSUME NEW s, NEW t, Aside(s, t), t.flow = None, NEW c \in Lines, NEW typed \in BOOLEAN,
         NEW r \in Execute(t, c, typed)
  PROVE  Handled(s, r)
<1>1. c.scope \in {"global", "app"}
  BY DEF Lines, Line
<1>2. CASE c.name = "cd" /\ r \in ChangeTo(t, c, typed)
  BY <1>2, HandledChangeTo
<1>3. CASE r \in {Said(t), Defer(t, c), StartSync(Keep(t, c))}
  BY <1>3, HandledAside, HandledDefer
<1>4. CASE c.name # "cd" /\ c.scope = "app" /\ r \in DispatchApp(t, c)
  BY <1>4, HandledDispatchApp
<1>5. CASE c.scope = "global" /\ r \in Dispatch(t, c)
  BY <1>5, HandledDispatch
<1>6. \/ c.name = "cd" /\ r \in ChangeTo(t, c, typed)
      \/ r \in {Said(t), Defer(t, c), StartSync(Keep(t, c))}
      \/ c.name # "cd" /\ c.scope = "app" /\ r \in DispatchApp(t, c)
      \/ c.scope = "global" /\ r \in Dispatch(t, c)
  BY <1>1 DEF Execute
<1> QED
  BY <1>2, <1>3, <1>4, <1>5, <1>6

\* The deferred line is taken up.
LEMMA HandledTakeUp ==
  ASSUME NEW s, NEW t, Aside(s, t), t.flow = None, NEW r \in TakeUp(t)
  PROVE  Handled(s, r)
<1> DEFINE u == [t EXCEPT !.pending = None]
<1>1. t.pending \in Lines \cup {None}
  BY DEF Aside, Good, ShellState
<1>2. Aside(s, u) /\ u.flow = None
  <2>1. Aside(s, u)
    BY Changed
  <2>2. u.flow = None
    BY DEF Aside, Good, ShellState
  <2> QED
    BY <2>1, <2>2
<1> HIDE DEF u
<1>3. \/ r \in {Said(t), Said(u)}
      \/ t.pending # None /\ r \in Execute(u, t.pending, FALSE)
  BY DEF TakeUp, u
<1>4. CASE r \in {Said(t), Said(u)}
  BY <1>2, <1>4, HandledAside
<1>5. CASE t.pending # None /\ r \in Execute(u, t.pending, FALSE)
  <2>1. t.pending \in Lines /\ FALSE \in BOOLEAN
    BY <1>1, <1>5
  <2> QED
    BY <1>2, <1>5, <2>1, HandledExecute
<1> QED
  BY <1>3, <1>4, <1>5

-----------------------------------------------------------------------------
(* Commands under way                                                      *)

\* A command is started.
LEMMA Added ==
  ASSUME NEW b, NEW t
  PROVE  /\ BagToSet(BagAdd(b, t)) = BagToSet(b) \cup {t}
         /\ \A x \in BagToSet(b) \ {t} : BagAdd(b, t)[x] = b[x]
         /\ t \notin BagToSet(b) => BagAdd(b, t)[t] = 1
BY DEF BagToSet, BagAdd

\* A command's message has come.
LEMMA Removed ==
  ASSUME NEW b, NEW t
  PROVE  /\ BagToSet(BagRemove(b, t)) \subseteq BagToSet(b)
         /\ BagToSet(b) \ {t} \subseteq BagToSet(BagRemove(b, t))
         /\ \A x \in BagToSet(b) \ {t} : BagRemove(b, t)[x] = b[x]
         /\ b[t] = 1 => t \notin BagToSet(BagRemove(b, t))
BY DEF BagToSet, BagRemove

\* No command is under way in an empty bag.
LEMMA NoCommands == BagToSet(EmptyBag) = {}
BY DEF BagToSet, EmptyBag, SetToBag

\* One command is under way in a bag of one.
LEMMA OneCommand ==
  ASSUME NEW t
  PROVE  BagToSet(SetToBag({t})) = {t} /\ SetToBag({t})[t] = 1
BY DEF BagToSet, SetToBag

\* Launch adds the command, unless Update gets no message from it.
LEMMA Launched ==
  ASSUME NEW b, BagToSet(b) \subseteq TaskType, NEW t \in TaskType \cup {None}
  PROVE  /\ BagToSet(Launch(b, t)) \subseteq TaskType
         /\ BagToSet(Launch(b, t)) \subseteq BagToSet(b) \cup {t}
<1>1. CASE t = None \/ t.kind \in {"wait", "quit"}
  BY <1>1 DEF Launch
<1>2. CASE t \in TaskType /\ Launch(b, t) = BagAdd(b, t)
  BY <1>2, Added
<1> QED
  BY <1>1, <1>2 DEF Launch

\* Commands other than syncs come and go without the flag.
LEMMA FlagQuiet ==
  ASSUME NEW s, NEW b, NEW dropped \in BOOLEAN, FlagTrue(s, b, dropped),
         NEW t \in TaskType \cup {None}, t \notin SyncTasks
  PROVE  /\ FlagTrue(s, BagRemove(b, t), dropped)
         /\ FlagTrue(s, BagAdd(b, t), dropped)
         /\ FlagTrue(s, Launch(b, t), dropped)
<1>1. FlagTrue(s, BagRemove(b, t), dropped)
  <2>1. SyncsIn(BagRemove(b, t)) = SyncsIn(b)
    BY Removed DEF SyncsIn
  <2>2. \A x \in SyncsIn(b) : BagRemove(b, t)[x] = b[x]
    BY Removed DEF SyncsIn
  <2> QED
    BY <2>1, <2>2 DEF FlagTrue
<1>2. FlagTrue(s, BagAdd(b, t), dropped)
  <2>1. SyncsIn(BagAdd(b, t)) = SyncsIn(b)
    BY Added DEF SyncsIn
  <2>2. \A x \in SyncsIn(b) : BagAdd(b, t)[x] = b[x]
    BY Added DEF SyncsIn
  <2> QED
    BY <2>1, <2>2 DEF FlagTrue
<1> QED
  BY <1>1, <1>2 DEF Launch

\* The sync that there is comes to its end.
LEMMA FlagEnds ==
  ASSUME NEW s, NEW b, NEW dropped, FlagTrue(s, b, dropped), NEW t \in SyncsIn(b)
  PROVE  SyncsIn(BagRemove(b, t)) = {}
<1>1. SyncsIn(b) = {t} /\ b[t] = 1
  BY DEF FlagTrue
<1>2. t \notin SyncsIn(BagRemove(b, t)) /\ SyncsIn(BagRemove(b, t)) \subseteq SyncsIn(b)
  BY <1>1, Removed DEF SyncsIn
<1> QED
  BY <1>1, <1>2

\* Without a sync, one may start that has the flag.
LEMMA FlagStarts ==
  ASSUME NEW s, NEW b, NEW dropped, SyncsIn(b) = {}, NEW t \in SyncTasks, s.syncing
  PROVE  FlagTrue(s, BagAdd(b, t), dropped)
<1>1. SyncsIn(BagAdd(b, t)) = {t} /\ BagAdd(b, t)[t] = 1
  BY Added DEF SyncsIn
<1> QED
  BY <1>1 DEF FlagTrue

\* The flag is truthful without a sync under way, if it is down or one was dropped.
LEMMA FlagDown ==
  ASSUME NEW s, NEW b, NEW dropped, SyncsIn(b) = {}, ~s.startup, s.syncing => dropped
  PROVE  FlagTrue(s, b, dropped)
BY DEF FlagTrue

\* A handler's command is launched.
LEMMA FlagHandled ==
  ASSUME NEW s, NEW b, NEW dropped \in BOOLEAN, FlagTrue(s, b, dropped), ~s.startup,
         NEW r, Handled(s, r)
  PROVE  FlagTrue(r.s, Launch(b, r.task), dropped)
<1>1. CASE r.task \in SyncTasks
  <2>1. ~s.syncing /\ r.s.syncing /\ SyncsIn(b) = {} /\ r.task.kind # "wait" /\ r.task.kind # "quit"
    BY <1>1 DEF Handled, FlagTrue, SyncTasks
  <2>2. r.task # None
    BY <1>1, ShellAssumption DEF SyncTasks
  <2> QED
    BY <1>1, <2>1, <2>2, FlagStarts DEF Launch
<1>2. CASE r.task \notin SyncTasks
  <2>1. FlagTrue(s, Launch(b, r.task), dropped) /\ r.s.syncing = s.syncing /\ r.s.startup = s.startup
    BY <1>2, FlagQuiet DEF Handled
  <2> QED
    BY <2>1 DEF FlagTrue
<1> QED
  BY <1>1, <1>2

\* The flag does not depend on the rest of the state.
LEMMA FlagSame ==
  ASSUME NEW s, NEW u, NEW b, NEW dropped, u.startup = s.startup, u.syncing = s.syncing,
         FlagTrue(s, b, dropped)
  PROVE  FlagTrue(u, b, dropped) /\ FlagTrue(u, b, TRUE)
BY DEF FlagTrue

-----------------------------------------------------------------------------
(* Fit is kept                                                             *)

\* What Fit says of the types and of the flag.
LEMMA FitSays == Fit => (DelsFit => TypeOK) /\ SyncFlagIsTrue
<1> SUFFICES ASSUME Fit PROVE (DelsFit => TypeOK) /\ SyncFlagIsTrue
  OBVIOUS
<1>1. DelsFit => TypeOK
  BY DEF Fit, TypeOK, Good, PlanFit, Counters, FlowOK, DelsFit
<1>2. Syncs = SyncsIn(flight)
  BY DEF Fit, Syncs, SyncsIn, SyncTasks
<1>3. SyncFlagIsTrue
  BY <1>2 DEF Fit, SyncFlagIsTrue, FlagTrue
<1> QED
  BY <1>1, <1>3

\* A step within a program whose start is over.
LEMMA StaysFit ==
  ASSUME at' = "shell", Good(sh'), ~sh'.startup, BagToSet(flight') \subseteq TaskType, Counters',
         FlagTrue(sh', flight', stranded')
  PROVE  Fit'
BY DEF Fit, PlanFit, Starting

\* A step that leaves the program, and one that is taken without any.
LEMMA LeavesFit ==
  ASSUME at' \in {"setup", "session", "action", "deleting", "next", "over"}, Good(sh'),
         sh'.startup => at' = "over" /\ sh'.flow = None,
         flight' = EmptyBag, Counters', PlanFit'
  PROVE  Fit'
BY NoCommands DEF Fit, Starting

\* What the actions of a program may use.
LEMMA Within ==
  ASSUME Fit, Running
  PROVE  /\ Good(sh) /\ Aside(sh, sh) /\ BagToSet(flight) \subseteq TaskType
         /\ FlagTrue(sh, flight, stranded) /\ stranded \in BOOLEAN
         /\ \A t \in BagToSet(flight) : t.kind \notin {"connect", "names", "ready"} => ~sh.startup
         /\ sh.flow # None => ~sh.startup
BY DEF Fit, Running, Aside, Starting, Counters

\* The user types a line.
LEMMA FitType ==
  ASSUME Fit, NEW c \in Lines, Type(c)
  PROVE  Fit'
<1>1. Running /\ sh.flow = None /\ ~sh.startup /\ lines' \in 0..MaxLines /\ Counters'
  BY ShellAssumption DEF Type, AtPrompt, Fit, Counters, Same
<1>2. PICK r \in Execute(sh, c, TRUE) :
        /\ sh' = IF r.s.flow # None THEN r.s
                 ELSE [r.s EXCEPT !.busy = r.task # None \/ r.s.pending # None]
        /\ IF r.task = Quit THEN Stops("over")
           ELSE at' = at /\ flight' = Launch(flight, r.task)
  BY DEF Type
<1>3. Handled(sh, r)
  BY <1>1, Within, HandledExecute
<1>4. Aside(r.s, sh')
  <2>1. Aside(r.s, r.s) /\ (r.task # None \/ r.s.pending # None) \in BOOLEAN
    BY <1>3 DEF Handled, Aside
  <2> QED
    BY <1>2, <2>1, Changed
<1>5. Good(sh') /\ ~sh'.startup
  BY <1>1, <1>3, <1>4 DEF Handled, Aside
<1>6. CASE r.task = Quit
  BY <1>1, <1>2, <1>5, <1>6, LeavesFit DEF Stops, PlanFit
<1>7. CASE r.task # Quit
  <2>1. FlagTrue(r.s, Launch(flight, r.task), stranded)
    BY <1>1, <1>3, Within, FlagHandled
  <2>2. FlagTrue(sh', flight', stranded')
    <3>1. FlagTrue(sh', Launch(flight, r.task), stranded)
      BY <1>4, <2>1, FlagSame DEF Aside
    <3> QED
      BY <1>2, <1>7, <3>1 DEF Type
  <2>3. BagToSet(flight') \subseteq TaskType
    BY <1>1, <1>2, <1>3, <1>7, Within, Launched DEF Handled
  <2> QED
    BY <1>1, <1>2, <1>5, <1>7, <2>2, <2>3, StaysFit DEF Running
<1> QED
  BY <1>6, <1>7

\* Keys outside the line editor.
LEMMA FitKeys ==
  ASSUME Fit, CtrlC \/ CtrlD \/ \E yes \in BOOLEAN : ConfirmDelete(yes)
  PROVE  Fit'
<1>1. Running /\ Counters'
  BY DEF CtrlC, CtrlD, ConfirmDelete, AtPrompt, Same, Fit, Counters
<1>2. CASE CtrlC
  <2>1. Aside(sh, sh')
    BY <1>1, <1>2, Within, Changed DEF CtrlC
  <2>2. FlagTrue(sh', flight', stranded')
    BY <1>1, <1>2, <2>1, Within, FlagSame DEF CtrlC, Aside
  <2>3. Good(sh') /\ Starting'
    <3>1. sh'.flow = sh.flow
      BY <1>1, <1>2, Within DEF CtrlC, Good, ShellState
    <3> QED
      BY <1>2, <2>1, <3>1 DEF CtrlC, Aside, Fit, Starting
  <2> QED
    BY <1>1, <1>2, <2>2, <2>3 DEF CtrlC, Fit, PlanFit, Running
<1>3. CASE CtrlD
  BY <1>1, <1>3, LeavesFit DEF CtrlD, Stops, Fit, PlanFit, AtPrompt
<1>4. ASSUME NEW yes \in BOOLEAN, ConfirmDelete(yes) PROVE Fit'
  <2>1. Aside(sh, sh')
    <3>1. Aside(sh, [sh EXCEPT !.confirm = FALSE])
      BY <1>1, Within, Changed
    <3>2. Aside(sh, [[sh EXCEPT !.confirm = FALSE] EXCEPT !.busy = yes])
      BY <3>1, Changed
    <3> QED
      BY <1>4, <3>2 DEF ConfirmDelete
  <2>2. PICK t \in TaskType \ SyncTasks : flight' \in {flight, BagAdd(flight, t)}
    <3>1. \A d \in Deleters : Task("delete", d) \in TaskType \ SyncTasks
      BY DEF Task, TaskType, SyncTasks
    <3>2. Task("result", None) \in TaskType \ SyncTasks
      BY DEF Task, TaskType, SyncTasks
    <3> QED
      BY <1>4, <3>1, <3>2 DEF ConfirmDelete, Free
  <2>3. FlagTrue(sh, flight', stranded)
    BY <1>1, <2>2, Within, FlagQuiet
  <2>4. FlagTrue(sh', flight', stranded')
    <3>1. FlagTrue(sh', flight', stranded)
      BY <2>1, <2>3, FlagSame DEF Aside
    <3> QED
      BY <1>4, <3>1 DEF ConfirmDelete
  <2>5. BagToSet(flight') \subseteq TaskType
    <3>1. BagToSet(flight) \subseteq TaskType
      BY <1>1, Within
    <3>2. BagToSet(BagAdd(flight, t)) \subseteq TaskType
      BY <2>2, <3>1, Added
    <3> QED
      BY <2>2, <3>1, <3>2
  <2>6. Good(sh') /\ ~sh'.startup
    BY <1>4, <2>1 DEF ConfirmDelete, Aside
  <2> QED
    BY <1>1, <1>4, <2>4, <2>5, <2>6, StaysFit DEF ConfirmDelete, Running
<1> QED
  BY <1>2, <1>3, <1>4

\* The user answers a dialog.
LEMMA FitAnswer ==
  ASSUME Fit, NEW a, Answer(a)
  PROVE  Fit'
<1>1. Running /\ ~sh.startup /\ Counters' /\ FlowOK(sh.flow) /\ sh.flow.end = "open"
  BY Within DEF Answer, Same, Fit, Counters, Good
<1>2. PICK f \in ApplyResult(sh.flow, a) :
        IF f.end = "open"
        THEN sh' = [sh EXCEPT !.flow = f] /\ UNCHANGED <<at, todo, flight>>
        ELSE /\ sh' = [sh EXCEPT !.flow = None]
             /\ todo' = ResultOf(f)
             /\ IF ResultOf(f) = None THEN UNCHANGED <<at, flight>>
                ELSE Stops(IF f.kind = "setup" THEN "setup" ELSE "action")
  BY DEF Answer
<1>3. f.end \in {"open", "plan"} =>
        FlowOK(f) /\ f.kind = sh.flow.kind /\ (f.kind = "setup" => f.host = sh.host)
  <2>1. sh.flow.kind = "setup" => sh.flow.host = sh.host
    BY <1>1, Within DEF Good, Answer
  <2> QED
    BY <1>1, <2>1, Answered DEF Answer, Keeps
<1>4. Aside(sh, sh')
  <2>1. CASE f.end = "open"
    <3>1. Aside(sh, sh) /\ FlowOK(f) /\ (f.kind = "setup" => f.host = sh.host)
      BY <1>1, <1>3, <2>1, Within
    <3>2. Aside(sh, [sh EXCEPT !.flow = f])
      BY <2>1, <3>1, Changed
    <3> QED
      BY <1>2, <2>1, <3>2
  <2>2. CASE f.end # "open"
    BY <1>1, <1>2, <2>2, Within DEF Aside, Good, ShellState
  <2> QED
    BY <2>1, <2>2
<1>5. Good(sh') /\ ~sh'.startup
  BY <1>1, <1>4 DEF Aside
<1>6. FlagTrue(sh', flight, stranded)
  BY <1>1, <1>4, Within, FlagSame DEF Aside
<1>7. CASE UNCHANGED <<at, flight>>
  BY <1>1, <1>5, <1>6, <1>7, StaysFit, Within DEF Answer, Running
<1>8. CASE ~UNCHANGED <<at, flight>>
  <2>1. f.end = "plan" /\ todo' = f /\ Stops(IF f.kind = "setup" THEN "setup" ELSE "action")
    BY <1>2, <1>8 DEF ResultOf
  <2>2. sh'.host = sh.host /\ sh'.flow = None
    BY <1>1, <1>2, <2>1, Within DEF Good, ShellState
  <2>3. PlanFit'
    BY <1>3, <2>1, <2>2 DEF PlanFit, Stops, FlowOK, FlowType
  <2> QED
    BY <1>1, <1>5, <2>1, <2>3, LeavesFit DEF Stops
<1> QED
  BY <1>7, <1>8

\* A command that is no sync goes, and another comes in its place.
LEMMA Exchanged ==
  ASSUME NEW s, NEW b, NEW dropped \in BOOLEAN, FlagTrue(s, b, dropped), BagToSet(b) \subseteq TaskType,
         NEW t \in BagToSet(b), t \notin SyncTasks, NEW next \in TaskType \cup {None}, next \notin SyncTasks
  PROVE  /\ FlagTrue(s, BagRemove(b, t), dropped) /\ BagToSet(BagRemove(b, t)) \subseteq TaskType
         /\ FlagTrue(s, Launch(BagRemove(b, t), next), dropped)
         /\ BagToSet(Launch(BagRemove(b, t), next)) \subseteq TaskType
         /\ next # None => /\ FlagTrue(s, BagAdd(BagRemove(b, t), next), dropped)
                           /\ BagToSet(BagAdd(BagRemove(b, t), next)) \subseteq TaskType
<1> DEFINE c == BagRemove(b, t)
<1>1. FlagTrue(s, c, dropped)
  BY FlagQuiet
<1>2. BagToSet(c) \subseteq TaskType
  BY Removed
<1> HIDE DEF c
<1>3. FlagTrue(s, Launch(c, next), dropped) /\ FlagTrue(s, BagAdd(c, next), dropped)
  BY <1>1, FlagQuiet
<1>4. BagToSet(Launch(c, next)) \subseteq TaskType
  BY <1>2, Launched
<1>5. next # None => BagToSet(BagAdd(c, next)) \subseteq TaskType
  BY <1>2, Added
<1> QED
  BY <1>1, <1>2, <1>3, <1>4, <1>5 DEF c

\* A state that differs in none of what Aside names.
LEMMA BesideIsAside ==
  ASSUME NEW s, NEW t, Aside(s, t), NEW u \in ShellState,
         u.startup = t.startup, u.syncing = t.syncing, u.flow = t.flow, u.host = t.host
  PROVE  Aside(s, u)
BY DEF Aside, Good

\* The states that messages lead to.
LEMMA Moods ==
  ASSUME NEW s, NEW t, Aside(s, t)
  PROVE  /\ Aside(s, Idle(t)) /\ Aside(s, Offline(t)) /\ Aside(s, NotSetUp(t)) /\ Aside(s, Listed(t))
         /\ Aside(s, [t EXCEPT !.listing = TRUE])
         /\ \A b \in BOOLEAN : Aside(s, [t EXCEPT !.stream = b])
         /\ \A l \in Logins \cup {None} : Aside(s, Online(t, l))
         /\ Idle(t).flow = t.flow /\ Idle(t).host = t.host /\ Listed(t).flow = t.flow
         /\ \A l \in Logins \cup {None} : Online(t, l).flow = t.flow
<1>1. Aside(s, Idle(t)) /\ Aside(s, Listed(t)) /\ Aside(s, [t EXCEPT !.listing = TRUE])
  BY Changed DEF Idle, Listed
<1> DEFINE c == Close(Idle(t))
<1>2. Aside(s, c)
  BY <1>1, Changed DEF Close
<1> HIDE DEF c
<1> DEFINE o == [c EXCEPT !.boot = FALSE, !.loaded = FALSE, !.pending = None]
<1>3. Aside(s, o)
  <2>1. c \in ShellState
    BY <1>2 DEF Aside, Good
  <2>2. o \in ShellState /\ o.startup = c.startup /\ o.syncing = c.syncing /\ o.flow = c.flow /\ o.host = c.host
    BY <2>1 DEF ShellState
  <2> HIDE DEF o
  <2> QED
    BY <1>2, <2>2, BesideIsAside
<1>4. Offline(t) = o
  BY DEF Offline, c
<1> HIDE DEF o
<1>5. Aside(s, [o EXCEPT !.setup = TRUE, !.listing = FALSE])
  <2> DEFINE n == [o EXCEPT !.setup = TRUE, !.listing = FALSE]
  <2>1. o \in ShellState
    BY <1>3 DEF Aside, Good
  <2>2. n \in ShellState /\ n.startup = o.startup /\ n.syncing = o.syncing /\ n.flow = o.flow /\ n.host = o.host
    BY <2>1 DEF ShellState
  <2> HIDE DEF n
  <2>3. Aside(s, n)
    BY <1>3, <2>2, BesideIsAside
  <2> QED
    BY <2>3 DEF n
<1>6. \A b \in BOOLEAN : Aside(s, [t EXCEPT !.stream = b])
  BY DEF Aside, Good, ShellState
<1>7. ASSUME NEW h \in Logins \cup {None} PROVE Aside(s, Online(t, h))
  <2> DEFINE d == [c EXCEPT !.gw = h]
             u == [d EXCEPT !.boot = TRUE, !.setup = FALSE]
  <2>1. Aside(s, d)
    BY <1>2, Changed
  <2>2. Online(t, h) = u
    BY DEF Online, Connect, c
  <2> HIDE DEF d
  <2>3. u \in ShellState
    BY <2>1 DEF Aside, Good, ShellState
  <2>4. u.startup = d.startup /\ u.syncing = d.syncing /\ u.flow = d.flow /\ u.host = d.host
    BY <2>1 DEF Aside, Good, ShellState
  <2> HIDE DEF u
  <2>5. Aside(s, u)
    BY <2>1, <2>3, <2>4, BesideIsAside
  <2> QED
    BY <2>2, <2>5
<1>8. Idle(t).flow = t.flow /\ Idle(t).host = t.host /\ Listed(t).flow = t.flow
  BY DEF Idle, Listed, Aside, Good, ShellState
<1>9. \A h \in Logins \cup {None} : Online(t, h).flow = t.flow
  BY DEF Online, Connect, Close, Idle, Aside, Good, ShellState
<1> QED
  BY <1>1, <1>3, <1>4, <1>5, <1>6, <1>7, <1>8, <1>9 DEF NotSetUp

\* A command that calls the server is carried out.
LEMMA FitCommands ==
  ASSUME Fit, Run \/ LoadApps
  PROVE  Fit'
<1>1. Running /\ UNCHANGED <<at, sh, todo, stranded>> /\ Counters'
  BY DEF Run, LoadApps, Fit, Counters
<1>2. PICK t \in BagToSet(flight) :
        /\ t.kind \in {"run", "load", "refresh"}
        /\ \/ t.kind = "run" /\ Becomes(t, Task("result", None))
           \/ t.kind \in {"load", "refresh"} /\ \E kind \in {"list", "nolist"} : Becomes(t, Task(kind, t.arg))
  BY DEF Run, LoadApps
<1>3. t \in TaskType \ SyncTasks /\ ~sh.startup
  BY <1>1, <1>2, Within DEF SyncTasks
<1>4. PICK next \in TaskType \ SyncTasks : Becomes(t, next)
  <2>1. t.kind \in {"load", "refresh"} => t.arg \in BOOLEAN
    BY <1>3 DEF TaskType
  <2>2. Task("result", None) \in TaskType \ SyncTasks
    BY DEF Task, TaskType, SyncTasks
  <2>3. t.kind \in {"load", "refresh"} =>
          Task("list", t.arg) \in TaskType \ SyncTasks /\ Task("nolist", t.arg) \in TaskType \ SyncTasks
    BY <2>1 DEF Task, TaskType, SyncTasks
  <2> QED
    BY <1>2, <2>2, <2>3
<1>5. FlagTrue(sh, flight', stranded) /\ BagToSet(flight') \subseteq TaskType
  <2>1. next # None
    BY <1>4, ShellAssumption
  <2> QED
    BY <1>1, <1>3, <1>4, <2>1, Within, Exchanged DEF Becomes
<1>6. Aside(sh, sh')
  BY <1>1, Within
<1>7. FlagTrue(sh', flight', stranded')
  BY <1>1, <1>5, <1>6, FlagSame DEF Aside
<1> QED
  BY <1>1, <1>3, <1>5, <1>6, <1>7, StaysFit DEF Aside, Running

\* What the handler of a message may use.
LEMMA Delivered ==
  ASSUME Fit, NEW kinds, NEW t, Delivers(kinds, t)
  PROVE  /\ Running /\ at = "shell" /\ sh.flow = None /\ t \in BagToSet(flight) /\ t \in TaskType
         /\ t.kind \in kinds /\ Good(sh) /\ Aside(sh, sh) /\ BagToSet(flight) \subseteq TaskType
         /\ FlagTrue(sh, flight, stranded) /\ stranded \in BOOLEAN /\ lines' = lines
         /\ lines' \in 0..MaxLines /\ events \in 0..MaxEvents
         /\ t.kind \notin {"connect", "names", "ready"} => ~sh.startup
         /\ t.kind \in {"connect", "names", "ready", "sync"} => t \in SyncsIn(flight)
         /\ t.kind \notin {"connect", "names", "ready", "sync"} => t \notin SyncTasks
         /\ BagToSet(BagRemove(flight, t)) \subseteq TaskType
<1>1. Running /\ sh.flow = None /\ t \in BagToSet(flight) /\ t.kind \in kinds /\ lines' = lines
  BY DEF Delivers, AtPrompt
<1>2. BagToSet(flight) \subseteq TaskType
  BY <1>1, Within
<1>3. lines' \in 0..MaxLines /\ events \in 0..MaxEvents
  BY <1>1 DEF Fit, Counters
<1>4. BagToSet(BagRemove(flight, t)) \subseteq TaskType
  BY <1>2, Removed
<1> QED
  BY <1>1, <1>2, <1>3, <1>4, Within DEF SyncsIn, SyncTasks, Running

\* While the shell starts, its one command is replaced by the next one.
LEMMA FitStartup ==
  ASSUME Fit, NEW t, StartupConnected(t) \/ StartupApps(t)
  PROVE  Fit'
<1>1. Delivers({"connect", "names"}, t) /\ Stays
  BY DEF StartupConnected, StartupApps, Delivers
<1>2. /\ at' = "shell" /\ t \in SyncsIn(flight) /\ stranded \in BOOLEAN
      /\ SyncsIn(BagRemove(flight, t)) = {} /\ BagToSet(BagRemove(flight, t)) \subseteq TaskType
      /\ lines' \in 0..MaxLines /\ events' \in 0..MaxEvents
      /\ sh.syncing /\ sh.flow = None /\ Aside(sh, sh)
  BY <1>1, Delivered, FlagEnds DEF Stays, FlagTrue
<1>3. CASE \E s \in {[sh EXCEPT !.startup = FALSE, !.syncing = FALSE],
                     [Offline(sh) EXCEPT !.startup = FALSE], [NotSetUp(sh) EXCEPT !.startup = FALSE]} :
             sh' = s /\ Goes(t) /\ stranded' \in BOOLEAN /\ (s.syncing => stranded')
  <2>1. Good(sh') /\ ~sh'.startup
    <3>1. \A u : Aside(sh, u) => LET v == [u EXCEPT !.startup = FALSE] IN Good(v) /\ ~v.startup
      BY DEF Aside, Good, ShellState
    <3>2. LET v == [sh EXCEPT !.startup = FALSE, !.syncing = FALSE] IN Good(v) /\ ~v.startup
      BY <1>2 DEF Aside, Good, ShellState
    <3> QED
      BY <1>2, <1>3, <3>1, <3>2, Moods
  <2>2. FlagTrue(sh', flight', stranded')
    BY <1>2, <1>3, <2>1, FlagDown DEF Goes
  <2> QED
    BY <1>2, <1>3, <2>1, <2>2, StaysFit DEF Goes, Counters
<1>4. CASE \E next \in SyncTasks :
             /\ next.kind \in {"names", "ready"} /\ sh' \in {sh, Online(sh, t.arg)}
             /\ GoesOn(t, next) /\ stranded' = stranded
  <2> PICK next \in SyncTasks :
        /\ next.kind \in {"names", "ready"} /\ sh' \in {sh, Online(sh, t.arg)}
        /\ GoesOn(t, next) /\ stranded' = stranded
    BY <1>4
  <2>1. t.arg \in Logins \cup {None}
    BY <1>1, Delivered DEF TaskType
  <2>2. Aside(sh, sh') /\ sh'.flow = None
    <3>1. Online(sh, t.arg).flow = sh.flow
      BY <1>2, <2>1, Moods
    <3>2. Aside(sh, Online(sh, t.arg))
      BY <1>2, <2>1, Moods
    <3> QED
      BY <1>2, <3>1, <3>2
  <2>3. next # None /\ flight' = BagAdd(BagRemove(flight, t), next)
    BY ShellAssumption DEF GoesOn, Launch, SyncTasks
  <2>4. FlagTrue(sh', flight', stranded')
    BY <1>2, <2>2, <2>3, FlagStarts DEF Aside
  <2>5. BagToSet(flight') \subseteq TaskType
    BY <1>2, <2>3, Added DEF SyncTasks
  <2>6. Starting'
    <3>1. SUFFICES ASSUME sh.startup PROVE \A x \in BagToSet(flight') : x.kind \in {"connect", "names", "ready"}
      BY <1>2, <2>2 DEF Starting, Aside
    <3>2. \A x \in BagToSet(flight) : x.kind \in {"connect", "names", "ready"}
      BY <3>1 DEF Fit, Starting
    <3> QED
      BY <2>3, <3>2, Added, Removed
  <2> QED
    BY <1>2, <1>4, <2>2, <2>4, <2>5, <2>6 DEF Fit, PlanFit, Counters, Aside
<1>5. CASE StartupConnected(t)
  <2>1. Task("names", None) \in SyncTasks /\ Task("names", None).kind = "names"
    BY DEF Task, SyncTasks, TaskType
  <2> QED
    BY <1>3, <1>4, <1>5, <2>1 DEF StartupConnected
<1>6. CASE StartupApps(t)
  <2>1. Task("ready", sh.gw) \in SyncTasks /\ Task("ready", sh.gw).kind = "ready"
    BY <1>2 DEF Task, SyncTasks, TaskType, Aside, Good, ShellState
  <2>2. ~[sh EXCEPT !.startup = FALSE, !.syncing = FALSE].syncing
    BY <1>2 DEF Aside, Good, ShellState
  <2> QED
    BY <1>2, <1>3, <1>4, <1>6, <2>1, <2>2 DEF StartupApps
<1> QED
  BY <1>5, <1>6

\* The command that waits for the stream is no sync.
LEMMA Streams ==
  ASSUME NEW s
  PROVE  StreamTask(s) \in TaskType \cup {None} /\ StreamTask(s) \notin SyncTasks
BY ShellAssumption DEF StreamTask, Task, TaskType, SyncTasks

\* A handled command is launched beside those that are under way.
LEMMA HandledFits ==
  ASSUME NEW s, NEW b, BagToSet(b) \subseteq TaskType, NEW dropped \in BOOLEAN,
         FlagTrue(s, b, dropped), ~s.startup, NEW r, Handled(s, r), NEW busy \in BOOLEAN
  PROVE  LET u == [r.s EXCEPT !.busy = busy]
         IN  /\ Good(u) /\ ~u.startup
             /\ FlagTrue(u, Launch(b, r.task), dropped) /\ BagToSet(Launch(b, r.task)) \subseteq TaskType
<1> DEFINE u == [r.s EXCEPT !.busy = busy]
<1>1. Aside(r.s, r.s)
  BY DEF Handled, Aside
<1>2. Aside(r.s, u)
  BY <1>1, Changed
<1> HIDE DEF u
<1>3. FlagTrue(r.s, Launch(b, r.task), dropped)
  BY FlagHandled
<1>4. FlagTrue(u, Launch(b, r.task), dropped)
  BY <1>2, <1>3, FlagSame DEF Aside
<1>5. BagToSet(Launch(b, r.task)) \subseteq TaskType
  BY Launched DEF Handled
<1>6. Good(u) /\ ~u.startup
  BY <1>2 DEF Aside, Handled
<1> QED
  BY <1>4, <1>5, <1>6 DEF u

\* The connection of the start is there, or has failed.
LEMMA FitStartupReady ==
  ASSUME Fit, NEW t, StartupReady(t)
  PROVE  Fit'
<1> DEFINE s == [sh EXCEPT !.startup = FALSE, !.syncing = FALSE]
           b == BagRemove(flight, t)
<1>1. Delivers({"ready"}, t) /\ Stays /\ UNCHANGED stranded
  BY DEF StartupReady
<1>2. /\ at' = "shell" /\ t \in SyncsIn(flight) /\ stranded \in BOOLEAN /\ stranded' = stranded
      /\ SyncsIn(b) = {} /\ BagToSet(b) \subseteq TaskType /\ Counters' /\ Aside(sh, sh)
  BY <1>1, Delivered, FlagEnds DEF Stays, Counters
<1>3. Aside(s, s) /\ Good(s) /\ ~s.startup /\ ~s.syncing /\ s.flow = None
  BY <1>1, <1>2, Delivered DEF Aside, Good, ShellState
<1>4. \/ sh' = s /\ flight' = b
      \/ \E r \in TakeUp(Listed(s)) :
           /\ sh' = [r.s EXCEPT !.busy = @ \/ r.task # None]
           /\ flight' = Launch(Launch(b, StreamTask(s)), r.task)
  BY DEF StartupReady, Goes
<1> HIDE DEF s, b
<1>5. FlagTrue(s, b, stranded)
  BY <1>2, <1>3, FlagDown
<1>6. CASE sh' = s /\ flight' = b
  BY <1>2, <1>3, <1>5, <1>6, StaysFit
<1>7. ASSUME NEW r \in TakeUp(Listed(s)),
             sh' = [r.s EXCEPT !.busy = @ \/ r.task # None],
             flight' = Launch(Launch(b, StreamTask(s)), r.task)
      PROVE  Fit'
  <2> DEFINE c == Launch(b, StreamTask(s))
  <2>1. FlagTrue(s, c, stranded) /\ BagToSet(c) \subseteq TaskType
    BY <1>2, <1>5, Streams, FlagQuiet, Launched
  <2> HIDE DEF c
  <2>2. Aside(s, Listed(s)) /\ Listed(s).flow = None
    BY <1>3, Moods
  <2>3. Handled(s, r)
    BY <1>7, <2>2, HandledTakeUp
  <2>4. (r.s.busy \/ r.task # None) \in BOOLEAN
    OBVIOUS
  <2>5. /\ Good(sh') /\ ~sh'.startup
        /\ FlagTrue(sh', Launch(c, r.task), stranded) /\ BagToSet(Launch(c, r.task)) \subseteq TaskType
    BY <1>2, <1>3, <1>7, <2>1, <2>3, <2>4, HandledFits
  <2> QED
    BY <1>2, <1>7, <2>5, StaysFit DEF c
<1> QED
  BY <1>4, <1>6, <1>7

\* A sync has its result.
LEMMA FitHostSynced ==
  ASSUME Fit, NEW t, HostSynced(t)
  PROVE  Fit'
<1> DEFINE s == [sh EXCEPT !.syncing = FALSE]
           b == BagRemove(flight, t)
<1>1. Delivers({"sync"}, t) /\ Stays /\ UNCHANGED stranded
  BY DEF HostSynced
<1>2. /\ at' = "shell" /\ t \in SyncsIn(flight) /\ stranded \in BOOLEAN /\ stranded' = stranded
      /\ SyncsIn(b) = {} /\ BagToSet(b) \subseteq TaskType /\ Counters' /\ Aside(sh, sh) /\ ~sh.startup
      /\ t.arg \in Logins \cup {None} /\ sh.flow = None
  BY <1>1, Delivered, FlagEnds DEF Stays, Counters, TaskType
<1>3. Aside(s, s) /\ ~s.startup /\ ~s.syncing /\ s.flow = None
  BY <1>2 DEF Aside, Good, ShellState
<1>4. \/ sh' \in {Offline(s), NotSetUp(s)} /\ flight' = b
      \/ \E r \in TakeUp(Listed(Online(s, t.arg))) :
           /\ sh' = [r.s EXCEPT !.busy = r.task # None]
           /\ flight' = Launch(b, IF r.task # None THEN r.task ELSE StreamTask(r.s))
  BY DEF HostSynced, Goes, GoesOn
<1> HIDE DEF s, b
<1>5. FlagTrue(s, b, stranded)
  BY <1>2, <1>3, FlagDown
<1>6. CASE sh' \in {Offline(s), NotSetUp(s)} /\ flight' = b
  <2>1. Aside(s, sh')
    BY <1>3, <1>6, Moods
  <2>2. FlagTrue(sh', b, stranded)
    BY <1>5, <2>1, FlagSame DEF Aside
  <2> QED
    BY <1>2, <1>3, <1>6, <2>1, <2>2, StaysFit DEF Aside
<1>7. ASSUME NEW r \in TakeUp(Listed(Online(s, t.arg))),
             sh' = [r.s EXCEPT !.busy = r.task # None],
             flight' = Launch(b, IF r.task # None THEN r.task ELSE StreamTask(r.s))
      PROVE  Fit'
  <2>1. Aside(s, Listed(Online(s, t.arg))) /\ Listed(Online(s, t.arg)).flow = None
    <3> DEFINE o == Online(s, t.arg)
    <3>1. Aside(s, o) /\ o.flow = None
      BY <1>2, <1>3, Moods
    <3> HIDE DEF o
    <3>2. Aside(s, Listed(o)) /\ Listed(o).flow = None
      BY <3>1, Moods
    <3> QED
      BY <3>2 DEF o
  <2>2. Handled(s, r)
    BY <1>7, <2>1, HandledTakeUp
  <2>3. /\ Good(sh') /\ ~sh'.startup
        /\ FlagTrue(sh', Launch(b, r.task), stranded) /\ BagToSet(Launch(b, r.task)) \subseteq TaskType
    BY <1>2, <1>3, <1>5, <1>7, <2>2, HandledFits
  <2>4. CASE r.task # None
    BY <1>2, <1>7, <2>3, <2>4, StaysFit
  <2>5. CASE r.task = None
    <3>1. FlagTrue(sh', b, stranded)
      BY <2>3, <2>5 DEF Launch
    <3>2. FlagTrue(sh', flight', stranded) /\ BagToSet(flight') \subseteq TaskType
      BY <1>2, <1>7, <2>5, <3>1, Streams, FlagQuiet, Launched
    <3> QED
      BY <1>2, <2>3, <3>2, StaysFit
  <2> QED
    BY <2>4, <2>5
<1> QED
  BY <1>4, <1>6, <1>7

\* A list, or none, has come.
LEMMA FitApps ==
  ASSUME Fit, NEW t, AppsLoaded(t) \/ AppsFailed(t)
  PROVE  Fit'
<1> DEFINE b == BagRemove(flight, t)
<1>1. Delivers({"list", "nolist"}, t) /\ Stays /\ UNCHANGED stranded
  BY DEF AppsLoaded, AppsFailed, Delivers
<1>2. /\ at' = "shell" /\ t \notin SyncTasks /\ stranded \in BOOLEAN /\ stranded' = stranded
      /\ BagToSet(b) \subseteq TaskType /\ Counters' /\ Aside(sh, sh) /\ ~sh.startup
  BY <1>1, Delivered DEF Stays, Counters
<1>3. FlagTrue(sh, b, stranded)
  BY <1>1, <1>2, Delivered, FlagQuiet
<1> DEFINE again == StartSync(Keep(Idle([sh EXCEPT !.listing = FALSE]), Line("global", "apps", None)))
           failed == Idle([sh EXCEPT !.listing = FALSE])
<1>4. \/ sh' = failed /\ flight' = b
      \/ sh' = again.s /\ flight' = Launch(b, again.task)
      \/ \E r \in TakeUp(Listed(Idle(sh))) :
           sh' = [r.s EXCEPT !.busy = r.task # None] /\ flight' = Launch(b, r.task)
  BY DEF AppsLoaded, AppsFailed, Goes, GoesOn
<1>5. Aside(sh, failed)
  <2>1. Aside(sh, [sh EXCEPT !.listing = FALSE])
    BY <1>2, Changed
  <2> QED
    BY <2>1, Moods
<1>6. Handled(sh, again)
  <2>1. Line("global", "apps", None) \in Lines
    BY DEF Line, Lines, Global
  <2> HIDE DEF failed
  <2>2. Handled(sh, StartSync(Keep(failed, Line("global", "apps", None))))
    BY <1>5, <2>1, HandledDefer
  <2> QED
    BY <2>2 DEF failed
<1> HIDE DEF b, again, failed
<1>7. CASE sh' = failed /\ flight' = b
  <2>1. FlagTrue(sh', b, stranded)
    BY <1>3, <1>5, <1>7, FlagSame DEF Aside
  <2> QED
    BY <1>2, <1>5, <1>7, <2>1, StaysFit DEF Aside
<1>8. CASE sh' = again.s /\ flight' = Launch(b, again.task)
  <2>1. FlagTrue(sh', flight', stranded) /\ BagToSet(flight') \subseteq TaskType
    BY <1>2, <1>3, <1>6, <1>8, FlagHandled, Launched DEF Handled
  <2> QED
    BY <1>2, <1>6, <1>8, <2>1, StaysFit DEF Handled
<1>9. ASSUME NEW r \in TakeUp(Listed(Idle(sh))),
             sh' = [r.s EXCEPT !.busy = r.task # None], flight' = Launch(b, r.task)
      PROVE  Fit'
  <2>1. Aside(sh, Idle(sh)) /\ Idle(sh).flow = None
    BY <1>1, <1>2, Delivered, Moods
  <2>2. Aside(sh, Listed(Idle(sh))) /\ Listed(Idle(sh)).flow = None
    BY <2>1, Moods
  <2>3. Handled(sh, r)
    BY <2>2, HandledTakeUp
  <2>4. /\ Good(sh') /\ ~sh'.startup
        /\ FlagTrue(sh', flight', stranded) /\ BagToSet(flight') \subseteq TaskType
    BY <1>2, <1>3, <1>9, <2>3, HandledFits
  <2> QED
    BY <1>2, <2>4, StaysFit
<1> QED
  BY <1>4, <1>7, <1>8, <1>9

\* The stream has started, or something has come on it; a command has answered.
LEMMA FitStream ==
  ASSUME Fit, NEW t, StreamStarted(t) \/ StreamUpdate(t) \/ Result(t)
  PROVE  Fit'
<1> DEFINE b == BagRemove(flight, t)
<1>1. Delivers({"open", "listen", "result"}, t) /\ UNCHANGED <<at, todo, stranded>>
  BY DEF StreamStarted, StreamUpdate, Result, Stays, Delivers
<1>2. /\ at' = "shell" /\ t \notin SyncTasks /\ stranded \in BOOLEAN /\ stranded' = stranded
      /\ BagToSet(b) \subseteq TaskType /\ Aside(sh, sh) /\ ~sh.startup
  BY <1>1, Delivered
<1>3. Counters'
  <2>1. lines' \in 0..MaxLines /\ events \in 0..MaxEvents /\ stranded' \in BOOLEAN
    BY <1>1, <1>2, Delivered
  <2>2. events' = events \/ (events < MaxEvents /\ events' = events + 1)
    <3>1. StreamStarted(t) \/ Result(t) => events' = events
      BY DEF StreamStarted, Result, Stays
    <3>2. StreamUpdate(t) => events' = events \/ (events < MaxEvents /\ events' = events + 1)
      BY DEF StreamUpdate
    <3> QED
      BY <3>1, <3>2
  <2> QED
    BY <2>1, <2>2, ShellAssumption DEF Counters
<1>4. FlagTrue(sh, b, stranded)
  BY <1>1, <1>2, Delivered, FlagQuiet
<1>5. /\ sh' \in {sh, Idle(sh), [sh EXCEPT !.listing = TRUE]} \cup {[sh EXCEPT !.stream = x] : x \in BOOLEAN}
      /\ \/ flight' \in {b, Launch(b, Task("listen", None))}
         \/ \E next \in {None, Task("listen", None)} :
              flight' = Launch(Launch(b, Task("refresh", FALSE)), next)
  BY DEF StreamStarted, StreamUpdate, Result, Goes, GoesOn
<1> HIDE DEF b
<1>6. Aside(sh, sh')
  <2>1. Aside(sh, Idle(sh)) /\ Aside(sh, [sh EXCEPT !.listing = TRUE])
    BY <1>2, Moods
  <2>2. \A x \in BOOLEAN : Aside(sh, [sh EXCEPT !.stream = x])
    BY <1>2, Moods
  <2> QED
    BY <1>2, <1>5, <2>1, <2>2
<1>7. /\ Task("listen", None) \in TaskType \ SyncTasks /\ Task("refresh", FALSE) \in TaskType \ SyncTasks
      /\ None \notin SyncTasks
  BY ShellAssumption DEF Task, TaskType, SyncTasks
<1>8. FlagTrue(sh, flight', stranded) /\ BagToSet(flight') \subseteq TaskType
  <2>1. \A next \in {Task("listen", None), Task("refresh", FALSE)} :
          FlagTrue(sh, Launch(b, next), stranded) /\ BagToSet(Launch(b, next)) \subseteq TaskType
    BY <1>2, <1>4, <1>7, FlagQuiet, Launched
  <2> DEFINE c == Launch(b, Task("refresh", FALSE))
  <2>2. FlagTrue(sh, c, stranded) /\ BagToSet(c) \subseteq TaskType
    BY <2>1
  <2> HIDE DEF c
  <2>3. \A next \in {None, Task("listen", None)} :
          FlagTrue(sh, Launch(c, next), stranded) /\ BagToSet(Launch(c, next)) \subseteq TaskType
    BY <1>2, <1>7, <2>2, FlagQuiet, Launched
  <2> QED
    BY <1>2, <1>4, <1>5, <2>1, <2>3 DEF c
<1>9. FlagTrue(sh', flight', stranded)
  BY <1>6, <1>8, FlagSame DEF Aside
<1> QED
  BY <1>2, <1>3, <1>6, <1>8, <1>9, StaysFit DEF Aside

\* The messages that end the program, or that only give the prompt back.
LEMMA FitAsked ==
  ASSUME Fit, NEW t, Prepared(t) \/ ActionAsked(t)
  PROVE  Fit'
<1>1. Delivers({"prepare", "remove", "edit"}, t) /\ UNCHANGED <<events, stranded>> /\ sh' = Idle(sh)
  BY DEF Prepared, ActionAsked, Delivers
<1>2. /\ at = "shell" /\ t \in TaskType \ SyncTasks /\ stranded \in BOOLEAN /\ Counters'
      /\ BagToSet(BagRemove(flight, t)) \subseteq TaskType /\ Aside(sh, sh) /\ ~sh.startup
  BY <1>1, Delivered DEF Counters
<1>3. Aside(sh, sh') /\ Good(sh') /\ ~sh'.startup
  <2>1. Aside(sh, Idle(sh))
    BY <1>2, Moods
  <2> QED
    BY <1>1, <1>2, <2>1 DEF Aside
<1>4. CASE at' = "shell" /\ Goes(t)
  <2>1. FlagTrue(sh, BagRemove(flight, t), stranded)
    BY <1>1, <1>2, Delivered, FlagQuiet
  <2>2. FlagTrue(sh', BagRemove(flight, t), stranded)
    BY <1>3, <2>1, FlagSame DEF Aside
  <2> QED
    BY <1>1, <1>2, <1>3, <1>4, <2>2, StaysFit DEF Goes
<1>5. CASE Stops("session")
  BY <1>2, <1>3, <1>5, LeavesFit DEF Stops, PlanFit
<1> DEFINE Asks == t.kind \in {"remove", "edit"} /\ todo' = [kind |-> t.kind, host |-> t.arg]
<1>6. CASE Stops("action") /\ (todo' = [kind |-> "attach"] \/ Asks)
  <2>1. t.kind \in {"remove", "edit"} => t.arg \in Hosts \cup {None}
    BY <1>2 DEF TaskType
  <2>2. CASE todo' = [kind |-> "attach"]
    <3>1. todo'.kind = "attach" /\ at' = "action"
      BY <1>6, <2>2 DEF Stops
    <3>2. PlanFit'
      BY <3>1 DEF PlanFit
    <3> QED
      BY <1>2, <1>3, <1>6, <3>2, LeavesFit DEF Stops
  <2>3. CASE Asks
    <3>1. todo'.kind \in {"remove", "edit"} /\ todo'.host \in Hosts \cup {None} /\ at' = "action"
      BY <1>6, <2>1, <2>3 DEF Stops
    <3>2. PlanFit'
      BY <3>1 DEF PlanFit
    <3> QED
      BY <1>2, <1>3, <1>6, <3>2, LeavesFit DEF Stops
  <2> QED
    BY <1>6, <2>2, <2>3
<1>7. \/ at' = "shell" /\ Goes(t)
      \/ Stops("session")
      \/ Stops("action") /\ (todo' = [kind |-> "attach"] \/ Asks)
  BY <1>2 DEF Prepared, ActionAsked, Delivers
<1> QED
  BY <1>4, <1>5, <1>6, <1>7

\* Whatever the prompt swallows, the flag is at worst left up without a sync.
LEMMA FitSwallowed ==
  ASSUME Fit, NEW t, Swallowed(t)
  PROVE  Fit'
<1>1. /\ Running /\ at' = "shell" /\ sh' = sh /\ Good(sh) /\ ~sh.startup /\ stranded' = TRUE
      /\ flight' = BagRemove(flight, t) /\ Counters' /\ t \in TaskType
      /\ BagToSet(flight) \subseteq TaskType /\ FlagTrue(sh, flight, stranded) /\ stranded \in BOOLEAN
  BY Within DEF Swallowed, Goes, Running, Fit, Counters
<1>2. BagToSet(flight') \subseteq TaskType
  BY <1>1, Removed
<1>3. CASE t \in SyncTasks
  <2>1. SyncsIn(flight') = {}
    BY <1>1, <1>3, FlagEnds DEF Swallowed, SyncsIn
  <2> QED
    BY <1>1, <1>2, <2>1, FlagDown, StaysFit
<1>4. CASE t \notin SyncTasks
  <2>1. FlagTrue(sh, flight', stranded)
    BY <1>1, <1>4, FlagQuiet
  <2>2. FlagTrue(sh', flight', stranded')
    BY <1>1, <2>1, FlagSame
  <2> QED
    BY <1>1, <1>2, <2>2, StaysFit
<1> QED
  BY <1>3, <1>4

\* What runShell does between two programs.
LEMMA FitBetween ==
  ASSUME Fit, RunSetup \/ RunSession \/ RunAction \/ RunDelete
  PROVE  Fit'
<1>1. /\ at \in {"setup", "session", "action"} /\ flight' = flight /\ Counters'
      /\ BagToSet(flight) \subseteq TaskType /\ Good(sh) /\ Aside(sh, sh) /\ ~sh.startup
  BY DEF RunSetup, RunSession, RunAction, RunDelete, Fit, Counters, Starting, Aside
<1>3. at' \in {"next", "deleting"}
  BY DEF RunSetup, RunSession, RunAction, RunDelete
<1>2. Aside(sh, sh')
  <2>1. CASE RunSetup
    <3>1. CASE UNCHANGED sh
      BY <1>1, <3>1
    <3>2. ASSUME NEW h \in {todo.to, sh.host},
                 sh' = [Close(sh) EXCEPT !.host = h, !.loaded = FALSE, !.listing = FALSE,
                                         !.setup = FALSE, !.ask = FALSE, !.boot = TRUE]
          PROVE  Aside(sh, sh')
      <4>1. h \in Hosts \cup {None}
        BY <2>1 DEF RunSetup, Fit, PlanFit, FlowOK, FlowType, Good, ShellState
      <4> DEFINE c == Close(sh)
      <4>2. Aside(sh, c)
        BY <1>1, Changed DEF Close
      <4> HIDE DEF c
      <4>3. c \in ShellState
        BY <4>2 DEF Aside, Good
      <4>4. c.flow = None
        BY <1>1, <2>1 DEF RunSetup, Fit, PlanFit, Close, Good, ShellState, c
      <4>5. /\ sh' \in ShellState
            /\ sh'.startup = c.startup /\ sh'.syncing = c.syncing /\ sh'.flow = c.flow
        BY <3>2, <4>1, <4>3 DEF ShellState, c
      <4> QED
        BY <4>2, <4>4, <4>5 DEF Aside, Good
    <3> QED
      BY <2>1, <3>1, <3>2 DEF RunSetup
  <2>2. CASE RunSession
    BY <1>1, <2>2, Changed DEF RunSession
  <2>3. CASE RunAction
    <3>1. CASE todo.kind = "attach"
      <4>1. sh' = [sh EXCEPT !.resume = TRUE]
        BY <2>3, <3>1 DEF RunAction
      <4> QED
        BY <1>1, <4>1, Changed
    <3>3. CASE todo.kind = "edit"
      <4>1. sh.host \in Hosts \cup {None} /\ \E r \in Reach(sh, sh.host) : sh' = r.s
        BY <1>1, <2>3, <3>3 DEF RunAction, Good, ShellState
      <4> QED
        BY <1>1, <4>1, Reached DEF Names
    <3>4. CASE todo.kind = "wipe"
      BY <1>1, <2>3, <3>4 DEF RunAction
    <3>5. CASE todo.kind \notin {"attach", "edit", "wipe"}
      <4>1. todo.host \in Names \cup {None}
        BY <2>3, <3>5 DEF RunAction, Fit, PlanFit, FlowOK, FlowType
      <4>2. \E r \in Reach(sh, todo.host) : sh' = r.s
        BY <2>3, <3>5 DEF RunAction
      <4> QED
        BY <1>1, <4>1, <4>2, Reached
    <3> QED
      BY <3>1, <3>3, <3>4, <3>5
  <2>4. CASE RunDelete
    <3>1. sh' = sh \/ sh' = [sh EXCEPT !.resume = TRUE]
      BY <2>4 DEF RunDelete
    <3>2. Aside(sh, [sh EXCEPT !.resume = TRUE])
      BY <1>1, Changed
    <3> QED
      BY <1>1, <3>1, <3>2
  <2> QED
    BY <2>1, <2>2, <2>3, <2>4
<1> QED
  BY <1>1, <1>2, <1>3 DEF Aside, Fit, PlanFit, Starting

\* A deletion may replace the shell's gateway and age its app list.
LEMMA DeletionAside ==
  ASSUME NEW s, NEW t, Aside(s, t), t.flow = s.flow, t.host = s.host
  PROVE  /\ LET u == [t EXCEPT !.loaded = FALSE, !.listing = FALSE]
            IN  Aside(s, u) /\ u.flow = s.flow /\ u.host = s.host
         /\ LET u == [t EXCEPT !.resume = TRUE]
            IN  Aside(s, u) /\ u.flow = s.flow /\ u.host = s.host
<1>1. /\ Aside(s, [t EXCEPT !.loaded = FALSE, !.listing = FALSE])
      /\ Aside(s, [t EXCEPT !.resume = TRUE])
  BY Changed
<1>2. t \in ShellState
  BY DEF Aside, Good
<1>3. /\ [t EXCEPT !.loaded = FALSE, !.listing = FALSE].flow = t.flow
      /\ [t EXCEPT !.loaded = FALSE, !.listing = FALSE].host = t.host
      /\ [t EXCEPT !.resume = TRUE].flow = t.flow
      /\ [t EXCEPT !.resume = TRUE].host = t.host
  BY <1>2 DEF ShellState
<1> QED
  BY <1>1, <1>3

\* A step of a deletion leaves the shell's server, prompt and sync alone.
LEMMA DeletionSteps ==
  ASSUME Fit, DelsFit, NEW d \in Deleters,
         ResolveDelete(d) \/ CheckDelete(d) \/ ConnectDelete(d) \/ DeleteApp(d)
  PROVE  /\ Aside(sh, sh') /\ sh'.flow = sh.flow /\ sh'.host = sh.host
         /\ at # "over" /\ UNCHANGED <<lines, events, stranded>>
         /\ \/ UNCHANGED <<at, todo, flight>>
            \/ at = "deleting" /\ at' = "next" /\ UNCHANGED flight
            \/ UNCHANGED <<at, todo>> /\ \E t \in BagToSet(flight) :
                 t = Task("delete", d) /\ Becomes(t, Task("result", None))
<1>1. Aside(sh, sh)
  BY DEF Fit, Aside
<1>2. at # "over" /\ UNCHANGED <<lines, events, stranded>>
  BY DEF ResolveDelete, CheckDelete, ConnectDelete, DeleteApp, Deleting
<1>3. PICK s : /\ Aside(sh, s) /\ s.flow = sh.flow /\ s.host = sh.host
               /\ \/ Finishes(d, s)
                  \/ sh' = s /\ UNCHANGED <<at, todo, flight>>
  <2> DEFINE Fits(s) == Aside(sh, s) /\ s.flow = sh.flow /\ s.host = sh.host
             c == Connect(sh, dels[d].to)
             gone == [sh EXCEPT !.loaded = FALSE, !.listing = FALSE]
  <2>1. dels[d].to \in Logins \cup {None}
    BY DEF DelsFit, Deletion
  <2>2. Fits(sh) /\ Fits(gone)
    BY <1>1, DeletionAside
  <2>3. Fits(c)
    BY <1>1, <2>1, Connected
  <2>4. \/ \E s \in {sh, gone} : Finishes(d, s)
        \/ sh' \in {sh, c} /\ UNCHANGED <<at, todo, flight>>
    BY DEF ResolveDelete, CheckDelete, ConnectDelete, DeleteApp, StepTo
  <2> HIDE DEF c, gone
  <2> QED
    BY <2>2, <2>3, <2>4
<1>4. CASE Finishes(d, s)
  <2> DEFINE u == [s EXCEPT !.resume = TRUE]
  <2>1. Aside(sh, u) /\ u.flow = sh.flow /\ u.host = sh.host
    BY <1>3, DeletionAside
  <2> HIDE DEF u
  <2>2. sh' \in {s, u}
    BY <1>4 DEF Finishes, u
  <2>3. \/ UNCHANGED <<at, todo, flight>>
        \/ at = "deleting" /\ at' = "next" /\ UNCHANGED flight
        \/ UNCHANGED <<at, todo>> /\ \E t \in BagToSet(flight) :
             t = Task("delete", d) /\ Becomes(t, Task("result", None))
    BY <1>4 DEF Finishes, BagIn
  <2> QED
    BY <1>2, <1>3, <2>1, <2>2, <2>3
<1> QED
  BY <1>2, <1>3, <1>4

\* A deletion takes a step, with or without a program.
LEMMA FitDelete ==
  ASSUME Fit, DelsFit, Delete
  PROVE  Fit'
<1>1. PICK d \in Deleters : ResolveDelete(d) \/ CheckDelete(d) \/ ConnectDelete(d) \/ DeleteApp(d)
  BY DEF Delete
<1>2. /\ Aside(sh, sh') /\ sh'.flow = sh.flow /\ sh'.host = sh.host
      /\ at # "over" /\ UNCHANGED <<lines, events, stranded>>
  BY <1>1, DeletionSteps
<1>3. Counters' /\ Good(sh') /\ sh'.startup = sh.startup
  BY <1>2 DEF Fit, Counters, Aside
<1>4. CASE UNCHANGED <<at, todo, flight>>
  <2>1. at = "shell" => FlagTrue(sh', flight, stranded)
    BY <1>2, FlagSame DEF Aside, Fit
  <2> QED
    BY <1>2, <1>3, <1>4, <2>1 DEF Fit, PlanFit, Starting
<1>5. CASE at = "deleting" /\ at' = "next" /\ UNCHANGED flight
  BY <1>2, <1>3, <1>5 DEF Fit, PlanFit, Starting
<1>6. ASSUME UNCHANGED <<at, todo>>, NEW t \in BagToSet(flight),
             t = Task("delete", d), Becomes(t, Task("result", None))
      PROVE  Fit'
  <2>1. t \in TaskType \ SyncTasks /\ t.kind = "delete" /\ ~sh.startup
    BY <1>6 DEF Task, TaskType, SyncTasks, Fit, Starting
  <2>2. Task("result", None) \in TaskType \ SyncTasks /\ Task("result", None) # None
    BY ShellAssumption DEF Task, TaskType, SyncTasks
  <2>3. BagToSet(flight') \subseteq TaskType
    <3> DEFINE b == BagRemove(flight, t)
    <3>1. BagToSet(b) \subseteq TaskType
      BY Removed DEF Fit
    <3> HIDE DEF b
    <3>2. BagToSet(BagAdd(b, Task("result", None))) \subseteq TaskType
      BY <2>2, <3>1, Added
    <3> QED
      BY <1>6, <3>2 DEF Becomes, b
  <2>4. at = "shell" => FlagTrue(sh', flight', stranded)
    <3>1. SUFFICES ASSUME at = "shell" PROVE FlagTrue(sh', flight', stranded)
      OBVIOUS
    <3>2. FlagTrue(sh, flight', stranded)
      BY <1>6, <2>1, <2>2, <3>1, Exchanged DEF Becomes, Fit, Counters
    <3> QED
      BY <1>2, <3>2, FlagSame DEF Aside
  <2> QED
    BY <1>2, <1>3, <1>6, <2>1, <2>3, <2>4 DEF Fit, PlanFit, Starting
<1> QED
  BY <1>1, <1>4, <1>5, <1>6, DeletionSteps


\* Init establishes it.
LEMMA InitFit == Init => Fit
<1> SUFFICES ASSUME Init PROVE Fit
  OBVIOUS
<1>1. PICK h \in Hosts \cup {None} :
        LET b == Begin([host |-> h, ask |-> h = None, setup |-> h = None, boot |-> FALSE,
                        gw |-> None, stream |-> FALSE, syncing |-> FALSE, loaded |-> FALSE,
                        listing |-> FALSE, pending |-> None, busy |-> FALSE,
                        startup |-> h # None, confirm |-> FALSE, flow |-> None,
                        resume |-> FALSE, scope |-> "global"])
        IN  sh = b.s /\ flight = b.tasks
  BY DEF Init
<1>2. at = "shell" /\ Counters /\ PlanFit
  <2>1. at = "shell" /\ lines = 0 /\ events = 0 /\ stranded = FALSE
    BY DEF Init
  <2>2. lines \in 0..MaxLines /\ events \in 0..MaxEvents
    BY <2>1, ShellAssumption
  <2>3. stranded \in BOOLEAN
    BY <2>1
  <2>4. PlanFit
    BY <2>1 DEF PlanFit
  <2> QED
    BY <2>1, <2>2, <2>3, <2>4 DEF Counters
<1>3. CASE h = None
  <2>1. flight = EmptyBag
    BY <1>1, <1>3 DEF Begin, Ready
  <2>2. Good(sh) /\ ~sh.startup /\ ~sh.syncing
    BY <1>1, <1>3 DEF Begin, Ready, Good, ShellState
  <2>3. SyncsIn(flight) = {}
    BY <2>1, NoCommands DEF SyncsIn
  <2>4. FlagTrue(sh, flight, stranded)
    BY <2>2, <2>3, FlagDown
  <2> QED
    BY <1>2, <2>1, <2>2, <2>4, NoCommands DEF Fit, Starting
<1>4. CASE h # None
  <2> DEFINE c == Task("connect", Login(h))
  <2>1. flight = SetToBag({c}) /\ Good(sh) /\ sh.startup /\ sh.syncing /\ sh.flow = None
    BY <1>1, <1>4 DEF Begin, Ready, Good, ShellState
  <2>2. c \in SyncTasks /\ c \in TaskType /\ c.kind = "connect"
    BY LoginType DEF Task, SyncTasks, TaskType, Names
  <2> HIDE DEF c
  <2>3. BagToSet(flight) = {c} /\ flight[c] = 1
    BY <2>1, OneCommand
  <2>4. SyncsIn(flight) = {c}
    BY <2>2, <2>3 DEF SyncsIn
  <2>5. FlagTrue(sh, flight, stranded)
    BY <2>1, <2>3, <2>4 DEF FlagTrue
  <2> QED
    BY <1>2, <2>1, <2>2, <2>3, <2>5 DEF Fit, Starting
<1> QED
  BY <1>3, <1>4

\* runShell starts its program again.
LEMMA FitNextProgram ==
  ASSUME Fit, NextProgram
  PROVE  Fit'
<1> DEFINE s == Idle(sh)
           b == Begin(s)
<1>1. /\ at = "next" /\ at' = "shell" /\ sh' = b.s /\ flight' = b.tasks
      /\ stranded' = ((stranded \/ sh.syncing) /\ ~BagIn(Task("connect", Login(sh.host)), b.tasks))
      /\ Counters'
  BY DEF NextProgram, Fit, Counters
<1>2. Good(sh) /\ ~sh.startup /\ stranded \in BOOLEAN
  BY <1>1 DEF Fit, Starting, Counters
<1>3. Aside(sh, s) /\ Good(s) /\ ~s.startup /\ s.syncing = sh.syncing /\ s.host = sh.host
  <2>1. Aside(sh, sh)
    BY <1>2 DEF Aside
  <2>2. Aside(sh, s)
    BY <2>1, Moods
  <2>3. s.host = sh.host
    BY <1>2 DEF Idle, Good, ShellState
  <2> QED
    BY <1>2, <2>2, <2>3 DEF Aside
<1> HIDE DEF s
<1>4. CASE s.resume /\ Ready(s)
  <2> DEFINE u == [s EXCEPT !.resume = FALSE, !.listing = TRUE]
             c == SetToBag({Task("load", FALSE)})
  <2>1. sh' = u /\ flight' = Launch(c, StreamTask(s))
    BY <1>1, <1>4 DEF Begin
  <2>2. Good(sh') /\ ~sh'.startup /\ sh'.syncing = sh.syncing
    BY <1>3, <2>1 DEF Good, ShellState
  <2>3. Task("load", FALSE) \in TaskType \ SyncTasks
    BY DEF Task, TaskType, SyncTasks
  <2>4. BagToSet(c) = {Task("load", FALSE)}
    BY OneCommand
  <2> HIDE DEF c
  <2>5. BagToSet(flight') \subseteq TaskType /\ BagToSet(flight') \subseteq {Task("load", FALSE), StreamTask(s)}
    <3>1. BagToSet(c) \subseteq TaskType
      BY <2>3, <2>4
    <3>2. BagToSet(Launch(c, StreamTask(s))) \subseteq TaskType
      BY <3>1, Streams, Launched
    <3>3. BagToSet(Launch(c, StreamTask(s))) \subseteq BagToSet(c) \cup {StreamTask(s)}
      BY <3>1, Streams, Launched
    <3> QED
      BY <2>1, <2>4, <3>2, <3>3
  <2>6. SyncsIn(flight') = {}
    BY <2>3, <2>5, Streams DEF SyncsIn
  <2>7. sh'.syncing => stranded'
    <3>1. Task("connect", Login(sh.host)) \in SyncTasks
      BY <1>2, LoginType DEF Task, SyncTasks, TaskType, Good, ShellState, Names
    <3>2. ~BagIn(Task("connect", Login(sh.host)), flight')
      BY <2>6, <3>1 DEF BagIn, SyncsIn
    <3> QED
      BY <1>1, <2>2, <3>2
  <2> QED
    BY <1>1, <2>2, <2>5, <2>6, <2>7, FlagDown, StaysFit
<1>5. CASE ~(s.resume /\ Ready(s)) /\ s.ask
  <2>1. sh' = s /\ flight' = EmptyBag
    BY <1>1, <1>5 DEF Begin
  <2>2. BagToSet(flight') = {} /\ SyncsIn(flight') = {}
    BY <2>1, NoCommands DEF SyncsIn
  <2>3. sh'.syncing => stranded'
    BY <1>1, <1>3, <2>1, <2>2 DEF BagIn
  <2> QED
    BY <1>1, <1>3, <2>1, <2>2, <2>3, FlagDown, StaysFit
<1>6. CASE ~(s.resume /\ Ready(s)) /\ ~s.ask
  <2> DEFINE c == Task("connect", Login(s.host))
  <2>1. sh' = [s EXCEPT !.loaded = FALSE, !.syncing = TRUE] /\ flight' = SetToBag({c})
    BY <1>1, <1>6 DEF Begin
  <2>2. Good(sh') /\ ~sh'.startup /\ sh'.syncing
    BY <1>3, <2>1 DEF Good, ShellState
  <2>3. c \in SyncTasks /\ c \in TaskType
    BY <1>3, LoginType DEF Task, SyncTasks, TaskType, Good, ShellState, Names
  <2> HIDE DEF c
  <2>4. BagToSet(flight') = {c} /\ flight'[c] = 1
    BY <2>1, OneCommand
  <2>5. FlagTrue(sh', flight', stranded')
    BY <2>2, <2>3, <2>4 DEF FlagTrue, SyncsIn
  <2> QED
    BY <1>1, <2>2, <2>3, <2>4, <2>5, StaysFit
<1> QED
  BY <1>4, <1>5, <1>6

\* Every step keeps it.
LEMMA NextFit == Fit /\ DelsFit /\ [Next]_vars => Fit'
<1> SUFFICES ASSUME Fit, DelsFit, [Next]_vars PROVE Fit'
  OBVIOUS
<1>1. CASE UNCHANGED vars
  BY <1>1 DEF vars, Fit, PlanFit, Starting, Counters
<1>2. CASE User
  BY <1>2, FitType, FitKeys, FitAnswer DEF User
<1>3. CASE Message
  BY <1>3, FitStartup, FitStartupReady, FitHostSynced, FitApps, FitStream, FitAsked, FitSwallowed
     DEF Message
<1>4. CASE Run \/ LoadApps
  BY <1>4, FitCommands
<1>5. CASE Delete
  BY <1>5, FitDelete
<1>6. CASE RunSetup \/ RunSession \/ RunAction \/ RunDelete
  BY <1>6, FitBetween
<1>7. CASE NextProgram
  BY <1>7, FitNextProgram
<1> QED
  BY <1>1, <1>2, <1>3, <1>4, <1>5, <1>6, <1>7 DEF Next

-----------------------------------------------------------------------------
(* Deletions                                                               *)

\* A step that sets the shell to another server tells the deletions that have
\* yet to look.
LEMMA MovedDels ==
  ASSUME DelsFit, HostMoves
  PROVE  DelsFit'
<1>1. ASSUME NEW d \in Deleters
      PROVE  Aimed(dels[d])' /\ dels'[d] \in Deletion
  <2>1. Aimed(dels[d]) /\ dels[d] \in Deletion
    BY DEF DelsFit
  <2>2. CASE dels[d].step = "resolve" /\ sh'.host # sh.host
    <3>1. dels'[d] = [dels[d] EXCEPT !.moved = TRUE]
      BY <2>2 DEF HostMoves
    <3> QED
      BY <2>1, <2>2, <3>1 DEF Aimed, Deletion
  <2>3. CASE ~(dels[d].step = "resolve" /\ sh'.host # sh.host)
    <3>1. dels'[d] = dels[d]
      BY <2>3 DEF HostMoves
    <3> QED
      BY <2>1, <2>3, <3>1 DEF Aimed
  <2> QED
    BY <2>2, <2>3
<1>2. dels' \in [Deleters -> Deletion]
  BY <1>1 DEF HostMoves
<1> QED
  BY <1>1, <1>2 DEF DelsFit

\* A step in which the shell stays with its server, and one deletion moves on.
LEMMA SteppedDels ==
  ASSUME DelsFit, sh'.host = sh.host, NEW d \in Deleters, NEW del, Aimed(del),
         dels' \in {dels, [dels EXCEPT ![d] = del]}
  PROVE  DelsFit'
<1>1. \A e \in Deleters : dels'[e] \in {dels[e], del}
  BY DEF DelsFit
<1>2. dels' \in [Deleters -> Deletion]
  BY DEF DelsFit, Aimed
<1>3. \A x : Aimed(x) => Aimed(x)'
  BY DEF Aimed
<1>4. \A e \in Deleters : Aimed(dels[e])'
  <2> TAKE e \in Deleters
  <2>1. Aimed(dels'[e])
    BY <1>1 DEF DelsFit
  <2> QED
    BY <2>1 DEF Aimed
<1> QED
  BY <1>2, <1>4 DEF DelsFit

\* No deletion.
LEMMA AimedNone == Aimed(NoDelete)
BY DEF Aimed, NoDelete, Deletion

\* Looking, checking, connecting and deleting.
LEMMA DelsDelete ==
  ASSUME Fit, DelsFit, Delete
  PROVE  DelsFit' /\ DeletedAsConfirmed'
<1>1. PICK d \in Deleters : ResolveDelete(d) \/ CheckDelete(d) \/ ConnectDelete(d) \/ DeleteApp(d)
  BY DEF Delete
<1>2. sh'.host = sh.host /\ Aimed(dels[d]) /\ dels[d] \in Deletion /\ Good(sh)
  BY <1>1, DeletionSteps DEF DelsFit, Fit
<1>3. \A s : Finishes(d, s) => dels' = [dels EXCEPT ![d] = NoDelete]
  BY DEF Finishes
<1>4. CASE ResolveDelete(d)
  <2> DEFINE del == [dels[d] EXCEPT !.step = "check", !.to = Login(sh.host)]
  <2>1. sh.host \in Names \cup {None}
    BY <1>2 DEF Good, ShellState, Names
  <2>2. Login(sh.host) \in Logins \cup {None}
    BY <2>1, LoginType
  <2>3. Aimed(del)
    BY <1>2, <1>4, <2>2 DEF ResolveDelete, Deleting, Aimed, Deletion
  <2>4. dels' = [dels EXCEPT ![d] = NoDelete] \/ dels' = [dels EXCEPT ![d] = del]
    BY <1>3, <1>4 DEF ResolveDelete, StepTo
  <2> HIDE DEF del
  <2>5. DelsFit'
    BY <1>2, <2>3, <2>4, AimedNone, SteppedDels
  <2> QED
    BY <1>4, <2>5 DEF ResolveDelete, NoDeed, Nothing, DeletedAsConfirmed
<1>5. CASE CheckDelete(d)
  <2> DEFINE same == Login(sh.host) = dels[d].to
             here == [dels[d] EXCEPT !.step = "delete", !.gw = sh.gw]
             there == [dels[d] EXCEPT !.step = "connect", !.same = same]
  <2>1. sh.gw \in Logins \cup {None}
    BY <1>2 DEF Good, ShellState
  <2>2. (same /\ sh.gw = dels[d].to => Aimed(here)) /\ Aimed(there)
    BY <1>2, <1>5, <2>1 DEF CheckDelete, Deleting, Aimed, Deletion
  <2>3. \/ same /\ sh.gw = dels[d].to /\ dels' = [dels EXCEPT ![d] = here]
        \/ dels' = [dels EXCEPT ![d] = there]
    BY <1>5 DEF CheckDelete, StepTo
  <2> HIDE DEF same, here, there
  <2>4. DelsFit'
    BY <1>2, <2>2, <2>3, SteppedDels
  <2> QED
    BY <1>5, <2>4 DEF CheckDelete, NoDeed, Nothing, DeletedAsConfirmed
<1>6. CASE ConnectDelete(d)
  <2> DEFINE del == [dels[d] EXCEPT !.step = "delete", !.gw = dels[d].to]
  <2>1. Aimed(del)
    BY <1>2, <1>6 DEF ConnectDelete, Deleting, Aimed, Deletion
  <2>2. dels' = [dels EXCEPT ![d] = NoDelete] \/ dels' = [dels EXCEPT ![d] = del]
    BY <1>3, <1>6 DEF ConnectDelete, StepTo
  <2> HIDE DEF del
  <2>3. DelsFit'
    BY <1>2, <2>1, <2>2, AimedNone, SteppedDels
  <2> QED
    BY <1>6, <2>3 DEF ConnectDelete, NoDeed, Nothing, DeletedAsConfirmed
<1>7. CASE DeleteApp(d)
  <2>1. dels' = [dels EXCEPT ![d] = NoDelete]
    BY <1>3, <1>7 DEF DeleteApp
  <2>2. DelsFit'
    BY <1>2, <2>1, AimedNone, SteppedDels
  <2>3. dels[d].gw = Login(dels[d].for) \/ dels[d].moved
    BY <1>2, <1>7 DEF DeleteApp, Deleting, Aimed
  <2>4. DeletedAsConfirmed'
    BY <1>7, <2>3 DEF DeleteApp, NoDeed, Nothing, DeletedAsConfirmed
  <2> QED
    BY <2>2, <2>4
<1> QED
  BY <1>1, <1>4, <1>5, <1>6, <1>7

\* A deletion is confirmed, for the server the shell is set to or another.
LEMMA DelsBegin ==
  ASSUME Fit, DelsFit, RunDelete \/ \E yes \in BOOLEAN : ConfirmDelete(yes)
  PROVE  DelsFit'
<1>1. sh.host \in Hosts \cup {None} /\ sh \in ShellState
  BY DEF Fit, Good, ShellState
<1>2. ASSUME NEW yes \in BOOLEAN, ConfirmDelete(yes) PROVE DelsFit'
  <2> DEFINE del == [NoDelete EXCEPT !.step = "resolve", !.for = sh.host]
  <2>1. sh'.host = sh.host
    BY <1>1, <1>2 DEF ConfirmDelete, ShellState
  <2>2. Aimed(del)
    BY <1>1 DEF Aimed, NoDelete, Deletion
  <2>3. \/ dels' = dels
        \/ \E d \in Deleters : dels' = [dels EXCEPT ![d] = del]
    BY <1>2 DEF ConfirmDelete, Free
  <2> HIDE DEF del
  <2>4. CASE dels' = dels
    BY <2>1, <2>4 DEF DelsFit, Aimed
  <2> QED
    BY <2>1, <2>2, <2>3, <2>4, SteppedDels
<1>3. CASE RunDelete
  <2> DEFINE for == IF todo.host = None THEN sh.host ELSE todo.host
             del == [NoDelete EXCEPT !.step = "check", !.for = for, !.to = Login(for)]
  <2>1. sh'.host = sh.host
    BY <1>1, <1>3 DEF RunDelete, ShellState
  <2>2. for \in Hosts \cup {None}
    BY <1>1, <1>3 DEF RunDelete, Fit, PlanFit
  <2>3. Login(for) \in Logins \cup {None}
    BY <2>2, LoginType DEF Names
  <2>4. Aimed(del)
    <3> HIDE DEF for
    <3> QED
      BY <2>2, <2>3 DEF Aimed, NoDelete, Deletion
  <2>5. \/ dels' = dels
        \/ \E d \in Deleters : dels' = [dels EXCEPT ![d] = del]
    BY <1>3 DEF RunDelete, Free
  <2> HIDE DEF del, for
  <2>6. CASE dels' = dels
    BY <2>1, <2>6 DEF DelsFit, Aimed
  <2> QED
    BY <2>1, <2>4, <2>5, <2>6, SteppedDels
<1> QED
  BY <1>2, <1>3

\* Everything else leaves the deletions alone.
LEMMA DelsRest ==
  ASSUME Fit, DelsFit,
         \/ CtrlC \/ CtrlD \/ \E a : Answer(a)
         \/ Run \/ LoadApps \/ RunSession \/ RunAction \/ NextProgram \/ UNCHANGED vars
  PROVE  DelsFit'
<1>1. dels' = dels
  BY DEF CtrlC, CtrlD, Answer, Run, LoadApps, RunSession, RunAction, NextProgram, vars
<1>2. sh \in ShellState /\ Aside(sh, sh) /\ sh.host \in Names \cup {None}
  BY DEF Fit, Good, Aside, ShellState, Names
<1>3. sh'.host = sh.host
  <2>1. CASE RunAction
    <3>1. CASE todo.kind = "attach"
      BY <1>2, <2>1, <3>1 DEF RunAction, ShellState
    <3>2. CASE todo.kind = "edit"
      <4>1. \E r \in Reach(sh, sh.host) : sh' = r.s
        BY <2>1, <3>2 DEF RunAction
      <4> QED
        BY <1>2, <4>1, Reached
    <3>3. CASE todo.kind = "wipe"
      BY <2>1, <3>3 DEF RunAction
    <3>4. CASE todo.kind \notin {"attach", "edit", "wipe"}
      <4>1. todo.host \in Names \cup {None}
        BY <2>1, <3>4 DEF RunAction, Fit, PlanFit, FlowOK, FlowType
      <4>2. \E r \in Reach(sh, todo.host) : sh' = r.s
        BY <2>1, <3>4 DEF RunAction
      <4> QED
        BY <1>2, <4>1, <4>2, Reached
    <3> QED
      BY <3>1, <3>2, <3>3, <3>4
  <2>2. CASE NextProgram
    <3> DEFINE s == Idle(sh)
    <3>1. sh' = Begin(s).s /\ s.host = sh.host /\ Aside(sh, s)
      BY <1>2, <2>2, Moods DEF NextProgram
    <3>2. s \in ShellState
      BY <3>1 DEF Aside, Good
    <3> HIDE DEF s
    <3>3. Begin(s).s.host = s.host
      BY <3>2 DEF Begin, ShellState
    <3> QED
      BY <3>1, <3>3
  <2>3. ASSUME NEW a, Answer(a) PROVE sh'.host = sh.host
    BY <1>2, <2>3 DEF Answer, ShellState
  <2>4. CASE CtrlC \/ CtrlD \/ Run \/ LoadApps \/ RunSession \/ UNCHANGED vars
    BY <1>2, <2>4 DEF CtrlC, CtrlD, Run, LoadApps, RunSession, vars, ShellState
  <2> QED
    BY <2>1, <2>2, <2>3, <2>4
<1> QED
  BY <1>1, <1>3 DEF DelsFit, Aimed

-----------------------------------------------------------------------------
(* What is done to the servers                                             *)

\* Only a carried-out plan wipes.
LEMMA NextWipes ==
  Fit /\ [Next]_vars => WipedAsAsked' \/ deed' = deed
<1> SUFFICES ASSUME Fit, [Next]_vars PROVE WipedAsAsked' \/ deed' = deed
  OBVIOUS
<1>1. CASE deed' = Nothing
  BY <1>1 DEF WipedAsAsked, Nothing
<1>2. CASE Run
  BY <1>2 DEF Run, WipedAsAsked, Nothing
<1>3. CASE Delete
  BY <1>3 DEF Delete, ResolveDelete, CheckDelete, ConnectDelete, DeleteApp, NoDeed, WipedAsAsked, Nothing
<1>4. CASE RunSetup
  <2>1. /\ FlowOK(todo) /\ todo.kind = "setup" /\ todo.host = sh.host
        /\ \E ok \in BOOLEAN : Wipes(todo, todo.wipe, ok)
    BY <1>4 DEF RunSetup, Fit, PlanFit
  <2> QED
    BY <2>1 DEF Wipes, FlowOK, WipedAsAsked, Nothing
<1>5. CASE RunAction
  <2>1. CASE todo.kind = "wipe"
    <3>1. FlowOK(todo) /\ \E ok \in BOOLEAN : Wipes(todo, Login(todo.wipe), ok)
      BY <1>5, <2>1 DEF RunAction, Fit, PlanFit
    <3> QED
      BY <2>1, <3>1 DEF Wipes, FlowOK, WipedAsAsked, Nothing
  <2>2. CASE todo.kind # "wipe"
    <3>1. deed' = Nothing
      <4>1. CASE todo.kind = "attach"
        BY <1>5, <4>1 DEF RunAction, NoDeed
      <4>2. CASE todo.kind = "edit"
        BY <1>5, <4>2 DEF RunAction, NoDeed
      <4>3. CASE todo.kind \notin {"attach", "edit"}
        BY <1>5, <2>2, <4>3 DEF RunAction, NoDeed
      <4> QED
        BY <4>1, <4>2, <4>3
    <3> QED
      BY <1>1, <3>1
  <2> QED
    BY <2>1, <2>2
<1>6. CASE UNCHANGED vars
  BY <1>6 DEF vars
<1>7. CASE User \/ LoadApps \/ RunSession \/ RunDelete \/ NextProgram
  BY <1>1, <1>7 DEF User, Type, ConfirmDelete, Answer, CtrlC, CtrlD, Same, NoDeed, LoadApps,
                    RunSession, RunDelete, NextProgram
<1>8. CASE Message
  BY <1>1, <1>8 DEF Message, Delivers, NoDeed, StartupConnected, StartupApps, StartupReady, HostSynced,
                    AppsLoaded, AppsFailed, StreamStarted, StreamUpdate, Result, Prepared,
                    ActionAsked, Swallowed
<1> QED
  BY <1>2, <1>3, <1>4, <1>5, <1>6, <1>7, <1>8 DEF Next

\* Only a deletion deletes.
LEMMA NextDeletes ==
  [Next]_vars => Delete \/ DeletedAsConfirmed' \/ deed' = deed
<1> SUFFICES ASSUME [Next]_vars, ~Delete, deed' # deed PROVE DeletedAsConfirmed'
  OBVIOUS
<1>1. CASE deed'.what # "delete"
  BY <1>1 DEF DeletedAsConfirmed
<1>2. \A f, on, ok : Wipes(f, on, ok) => deed'.what # "delete"
  BY DEF Wipes, Nothing
<1>3. NoDeed => deed'.what # "delete"
  BY DEF NoDeed, Nothing
<1>4. CASE Run
  BY <1>1, <1>4 DEF Run, Nothing
<1>5. CASE RunSetup \/ RunAction
  <2>1. NoDeed \/ \E f, on, ok : Wipes(f, on, ok)
    <3>1. CASE RunSetup
      BY <3>1 DEF RunSetup
    <3>2. CASE RunAction
      BY <3>2 DEF RunAction
    <3> QED
      BY <1>5, <3>1, <3>2
  <2> QED
    BY <1>1, <1>2, <1>3, <2>1
<1>6. CASE User \/ LoadApps \/ RunSession \/ RunDelete \/ NextProgram
  BY <1>1, <1>3, <1>6 DEF User, Type, ConfirmDelete, Answer, CtrlC, CtrlD, Same, LoadApps,
                          RunSession, RunDelete, NextProgram
<1>7. CASE Message
  BY <1>1, <1>3, <1>7 DEF Message, Delivers, StartupConnected, StartupApps, StartupReady, HostSynced,
                          AppsLoaded, AppsFailed, StreamStarted, StreamUpdate, Result, Prepared,
                          ActionAsked, Swallowed
<1> QED
  BY <1>4, <1>5, <1>6, <1>7 DEF Next, vars

\* Every step keeps the invariant.
LEMMA NextInv == ShellInv /\ [Next]_vars => ShellInv'
<1> SUFFICES ASSUME ShellInv, [Next]_vars PROVE ShellInv'
  OBVIOUS
<1> USE DEF ShellInv
<1>1. Fit'
  BY NextFit
<1>2. WipedAsAsked'
  <2>1. deed' = deed => WipedAsAsked'
    BY DEF WipedAsAsked
  <2> QED
    BY <2>1, NextWipes
<1>3. DelsFit'
  <2>1. CASE (\E c \in Lines : Type(c)) \/ Message \/ RunSetup
    <3>1. HostMoves
      BY <2>1 DEF Type, Message, RunSetup
    <3> QED
      BY <3>1, MovedDels
  <2>2. CASE Delete
    BY <2>2, DelsDelete
  <2>3. CASE RunDelete \/ \E yes \in BOOLEAN : ConfirmDelete(yes)
    BY <2>3, DelsBegin
  <2>4. CASE \/ CtrlC \/ CtrlD \/ \E a : Answer(a)
             \/ Run \/ LoadApps \/ RunSession \/ RunAction \/ NextProgram \/ UNCHANGED vars
    BY <2>4, DelsRest
  <2> QED
    BY <2>1, <2>2, <2>3, <2>4 DEF Next, User
<1>4. DeletedAsConfirmed'
  <2>1. deed' = deed => DeletedAsConfirmed'
    BY DEF DeletedAsConfirmed
  <2> QED
    BY <2>1, NextDeletes, DelsDelete
<1> QED
  BY <1>1, <1>2, <1>3, <1>4

\* It always holds.
LEMMA Invariant == Spec => []ShellInv
<1>1. Init => ShellInv
  <2>1. Init => DelsFit
    <3>1. NoDelete \in Deletion
      BY DEF NoDelete, Deletion
    <3> QED
      BY <3>1, AimedNone DEF Init, DelsFit
  <2>2. Init => WipedAsAsked /\ DeletedAsConfirmed
    BY DEF Init, WipedAsAsked, DeletedAsConfirmed, Nothing
  <2> QED
    BY <2>1, <2>2, InitFit DEF ShellInv
<1> QED
  BY <1>1, NextInv, PTL DEF Spec

\* The shell's state, its prompt and its commands have their types, and
\* runShell finds the plan it is to carry out (runShell, shellModel.Update).
THEOREM Typing == Spec => []TypeOK
<1>1. ShellInv => TypeOK
  BY FitSays DEF ShellInv
<1> QED
  BY <1>1, Invariant, PTL

\* What ssh is given to wipe is what the dialogs named, resolved by `wipe` and
\* as it stands by `setup`, which has it from the shell; it was confirmed and
\* WIPE typed, in a prompt that was not left (setupFlow, wipeFlow, runWipeFlow).
THEOREM WipesAsked == Spec => []WipedAsAsked
<1>1. ShellInv => WipedAsAsked
  BY DEF ShellInv
<1> QED
  BY <1>1, Invariant, PTL

\* An app is deleted on the server its deletion was confirmed for, through
\* every interleaving of deletions, syncs, command lines and setups, unless
\* the shell was moved before the deletion resolved its target
\* (runDeleteConfirmed, runShellDelete, gatewayForResolvedHost).
THEOREM DeletesThere == Spec => []DeletedAsConfirmed
<1>1. ShellInv => DeletedAsConfirmed
  BY DEF ShellInv
<1> QED
  BY <1>1, Invariant, PTL

\* `syncing` is up for the whole of the one sync there is, and comes down with
\* it unless its result was dropped (startHostSync, startupReadyMsg, hostSyncMsg).
THEOREM FlagTruthful == Spec => []SyncFlagIsTrue
<1>1. ShellInv => SyncFlagIsTrue
  BY FitSays DEF ShellInv
<1> QED
  BY <1>1, Invariant, PTL
=============================================================================
