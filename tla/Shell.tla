-------------------------------- MODULE Shell --------------------------------
(***************************************************************************)
(* The interactive shell of the viberun client: runShell's loop around one *)
(* terminal program after another, the Update of that program              *)
(* (shell_model.go), and what a command line does (shell_commands.go).     *)
(*                                                                         *)
(* Update runs on one goroutine; the commands it returns run on others and *)
(* come back as messages, in any order.  `flight` holds those not yet      *)
(* delivered.  sh is *shellState, which outlives the programs, with the    *)
(* model's `busy`; the flow inside it is a prompt of PromptFlows, and as   *)
(* long as it is there every message goes to its dialog.                   *)
(***************************************************************************)
EXTENDS Naturals, Bags, BagsExt, PromptFlows

CONSTANTS Resolve,    \* the login a name stands for, by the aliases of the config
          Deleters,   \* bound: the deletions under way at a time
          MaxLines,   \* command lines and answers typed at the shell's prompt
          MaxEvents   \* events the app list stream delivers

VARIABLES
  at,       \* "shell": a program runs; "setup", "session", "action": it has
            \* quit and runShell does what it left behind; "deleting": the
            \* action is a deletion in dels; "next": about to run another; "over"
  sh,       \* shellState
  todo,     \* setupAction or shellAction: a flow's plan, or the kind alone
  flight,   \* bag of the commands whose message Update has not seen
  dels,     \* the deletions under way, each on a goroutine of its own
  lines, events,   \* counters for MaxLines and MaxEvents
  deed,     \* history: what the last step did to which server, and what allowed it
  stranded  \* history: a result was dropped, or a start failed, since the
            \* last program began to connect

vars == <<at, sh, todo, flight, dels, lines, events, deed, stranded>>

Global == {"apps", "app", "cd", "vibe", "here", "shell", "run", "rm", "wipe",
           "proxy", "users", "setup", "config", "help", "exit"}
AppScope == {"vibe", "run", "delete", "edit", "leave", "cd"}

Line(scope, name, to) == [scope |-> scope, name |-> name, to |-> to]
Lines == {Line("global", n, None) : n \in Global \ {"wipe", "proxy", "users", "config"}}
         \cup {Line("global", n, h) : n \in {"wipe", "proxy", "users", "config"}, h \in Hosts}
         \cup {Line("app", n, None) : n \in AppScope}
         \cup {Line("app", "delete", h) : h \in Hosts}

Task(kind, arg) == [kind |-> kind, arg |-> arg]
TaskType ==
  [kind : {"connect", "ready", "sync"}, arg : Logins \cup {None}]
  \cup [kind : {"prepare", "run", "remove"}, arg : Hosts \cup {None}]
  \cup [kind : {"load", "refresh", "list", "nolist"}, arg : BOOLEAN]
  \cup [kind : {"delete"}, arg : Deleters]
  \cup [kind : {"names", "open", "listen", "result", "edit", "wait", "quit"}, arg : {None}]

\* None is nil: neither a server nor a command.  A login may be given as a name.
ASSUME ShellAssumption ==
  /\ MaxLines \in Nat /\ MaxEvents \in Nat
  /\ None \notin Names /\ None \notin TaskType
  /\ Resolve \in [Names -> Logins]

\* What a handler returns: the state it leaves and the command it hands back.
Reply(s, task) == [s |-> s, task |-> task]
Said(s) == Reply(s, None)               \* only output
Wait(s) == Reply(s, Task("wait", None)) \* waitCmd: a command whose message is nil
Quit == Task("quit", None)

Launch(b, t) == IF t = None \/ t.kind \in {"wait", "quit"} THEN b ELSE BagAdd(b, t)

-----------------------------------------------------------------------------
(* The gateway                                                             *)

\* ResolveHost: the alias is looked up, the default user put in front.
Login(h) == IF h = None THEN None ELSE Resolve[h]

\* gatewayReady: connected, and to the server the shell is set to.
Ready(s) == s.gw # None /\ s.gw = Login(s.host)

\* closeShellGateway
Close(s) == [s EXCEPT !.gw = None, !.stream = FALSE]

\* A new gateway, to login l, replaces whatever the shell held.
Connect(s, l) == [Close(s) EXCEPT !.gw = l]

\* ensureShellGatewayForHost, called by Update or between two programs: the
\* shell's gateway if it is the one wanted, else one opened now, which the
\* shell keeps when it is for its own server and closes again otherwise.
\* No task: it cannot be had.
Reach(s, h) ==
  LET l == Login(h)
      same == Login(s.host) = l
  IN  IF l = None THEN {Said(s)}
      ELSE IF same /\ s.gw = l THEN {Reply(s, l)}
      ELSE {Said(s), Reply(IF same THEN Connect(s, l) ELSE s, l)}

-----------------------------------------------------------------------------
(* Command lines                                                           *)

\* RequiresSync in the registry
NeedsSync(c) == c.name \notin {"cd", "setup", "config", "help", "exit", "leave"}
\* requiresGatewayForCommand
NeedsGateway(c) == c.name \notin {"apps", "app"}
\* requiresAppsListForCommand; "here" is ./app, or an app's bare name
NeedsList(c) == c.scope = "global" /\ c.name \in {"apps", "app", "here"}

\* Mutant: a sync is started whether or not one is running.
StartSyncAgain(s) == Reply([s EXCEPT !.syncing = TRUE], Task("sync", Login(s.host)))

\* startHostSync: one at a time.
StartSync(s) ==
  IF s.syncing THEN Said(s)
  ELSE Reply([s EXCEPT !.syncing = TRUE], Task("sync", Login(s.host)))

Load(s, render) == Reply([s EXCEPT !.listing = TRUE], Task("load", render))

Keep(s, c) == [s EXCEPT !.pending = c]

\* A line that needs the app list waits for the one being fetched.
AwaitList(s, render) == IF s.listing THEN Wait(s) ELSE Load(s, render)

\* The deferral of executeShellCommand
Defer(s, c) ==
  IF (NeedsGateway(c) /\ ~Ready(s)) \/ ~NeedsList(c) \/ s.loaded THEN StartSync(Keep(s, c))
  ELSE IF s.syncing THEN Wait(Keep(s, c))
  ELSE IF ~Ready(s) THEN StartSync(Keep(s, c))
  ELSE AwaitList(Keep(s, c), FALSE)

\* handleSetupShell
Setup(s) ==
  LET connected == s.boot /\ ~s.setup /\ s.host # None
  IN  [s EXCEPT !.pending = None, !.setup = @ \/ ~connected,
                !.flow = SetupFlow(s.host, connected)]

\* handleConfigShell: config set host.  The shell's fields have changed by
\* the time saving the file may fail.
SetHost(s, h) ==
  LET t == [s EXCEPT !.host = h, !.ask = FALSE, !.setup = FALSE]
  IN  {Said(t), StartSync(Close([t EXCEPT !.loaded = FALSE, !.pending = None]))}

\* An app that is not in the list is refused; without a list every app is.
IfKnown(s, r) == {Said(s)} \cup (IF s.loaded THEN {r} ELSE {})

\* dispatchGlobalCommand
Dispatch(s, c) ==
  CASE c.name = "apps"   -> {IF s.loaded THEN Said(s)
                             ELSE IF s.listing \/ Ready(s) THEN AwaitList(s, TRUE)
                             ELSE StartSync(Keep(s, c))}
    [] c.name = "app"    -> IfKnown(s, Said([s EXCEPT !.scope = "app"]))
    [] c.name = "vibe"   -> {Said(s), Reply(s, Task("prepare", s.host))}
    [] c.name \in {"here", "shell"} -> IfKnown(s, Reply(s, Task("prepare", s.host)))
    [] c.name = "run"    -> {Said(s), Reply(s, Task("run", s.host))}
    [] c.name = "rm"     -> IfKnown(s, Said([s EXCEPT !.confirm = TRUE]))
    [] c.name = "proxy"  -> {IF r.task = None THEN Said(r.s)
                             ELSE Wait([r.s EXCEPT !.flow = ProxyFlow(Login(c.to), b)]) :
                               r \in Reach(s, c.to), b \in BOOLEAN}
    [] c.name = "users"  -> {Wait([s EXCEPT !.flow = PasswordFlow(c.to)])}
    [] c.name = "wipe"   -> {Wait([s EXCEPT !.flow = WipeFlow(Login(c.to))])}
    [] c.name = "setup"  -> {Wait(Setup(s))}
    [] c.name = "config" -> SetHost(s, c.to)
    [] c.name = "exit"   -> {Reply(s, Quit)}
    [] OTHER             -> {Said(s)}

\* dispatchAppCommand.  `delete x@h` names another server than the shell's.
DispatchApp(s, c) ==
  CASE c.name = "vibe"   -> {Said(s), Reply(s, Task("prepare", s.host))}
    [] c.name = "run"    -> {Said(s), Reply(s, Task("run", s.host))}
    [] c.name = "delete" -> {Reply(s, Task("remove", c.to))}
    [] c.name = "edit"   -> {Reply(s, Task("edit", None))}
    [] c.name = "leave"  -> {Said([s EXCEPT !.scope = "global"])}

\* handleCDCommand.  `cd ..` leads out of an app; an app's name into it.
ChangeTo(s, c, typed) ==
  {Said([s EXCEPT !.scope = "global"])} \cup
  IF s.ask \/ s.setup THEN {Said(s)}
  ELSE IF typed /\ ~s.loaded
       THEN {IF Ready(s) THEN AwaitList(Keep(s, c), TRUE) ELSE StartSync(Keep(s, c))}
       ELSE IfKnown(s, Said([s EXCEPT !.scope = "app"]))

\* executeShellCommand.  A line that was deferred is not deferred again.
Execute(s, c, typed) ==
  LET early == s.syncing \/ (NeedsList(c) /\ ~s.loaded) \/ (NeedsGateway(c) /\ ~Ready(s))
  IN  IF c.name = "cd" THEN ChangeTo(s, c, typed)
      ELSE IF NeedsSync(c) /\ (s.ask \/ s.setup) THEN {Said(s)}
      ELSE IF NeedsSync(c) /\ typed /\ early THEN
        {Defer(s, c)} \cup  \* localAppValidationError
        IF s.loaded /\ c.name \in {"app", "here", "shell", "rm"} THEN {Said(s)} ELSE {}
      ELSE IF c.name = "apps" /\ (s.syncing \/ ~Ready(s)) THEN {StartSync(Keep(s, c))}
      ELSE IF c.scope = "app" THEN DispatchApp(s, c)
      ELSE Dispatch(s, c)

\* dispatchCommandWithScope: a deferred line is taken up in the global scope,
\* where one meant for an app is a usage error.
TakeUp(s) ==
  LET c == s.pending
      t == [s EXCEPT !.pending = None]
  IN  IF c = None THEN {Said(s)}
      ELSE IF c.scope = "app" /\ c.name # "cd" THEN {Said(t)}
      ELSE Execute(t, c, FALSE)

-----------------------------------------------------------------------------
(* Keys                                                                    *)

Nothing == [what |-> "nothing"]
NoDeed == deed' = Nothing
Same == UNCHANGED events /\ NoDeed
Running == at = "shell"
AtPrompt == Running /\ sh.flow = None

\* A program that ends leaves its commands running; nobody reads their messages.
Stops(where) == at' = where /\ flight' = EmptyBag

\* A deletion: the server meant, the login that stands for, whether the shell
\* will keep a gateway opened for it, and the gateway in hand.  moved, for the
\* properties: the shell was set to another server before it looked.
NoDelete ==
  [step |-> "none", for |-> None, to |-> None, same |-> FALSE, gw |-> None, moved |-> FALSE]
Free == {d \in Deleters : dels[d].step = "none"}

\* For the properties: the deletions that have yet to see which server it is.
HostMoves ==
  dels' = [d \in Deleters |-> IF dels[d].step = "resolve" /\ sh'.host # sh.host
                              THEN [dels[d] EXCEPT !.moved = TRUE] ELSE dels[d]]

\* enter, with a line
Type(c) ==
  /\ AtPrompt /\ ~sh.busy /\ ~sh.startup /\ ~sh.confirm
  /\ lines < MaxLines /\ lines' = lines + 1 /\ c.scope = sh.scope
  /\ \E r \in Execute(sh, c, TRUE) :
       /\ sh' = IF r.s.flow # None THEN r.s
                ELSE [r.s EXCEPT !.busy = r.task # None \/ r.s.pending # None]
       /\ IF r.task = Quit THEN Stops("over")
          ELSE at' = at /\ flight' = Launch(flight, r.task)
  /\ HostMoves /\ Same /\ UNCHANGED <<todo, stranded>>

\* enter, with the answer to "Delete app and all snapshots?"
ConfirmDelete(yes) ==
  /\ AtPrompt /\ ~sh.busy /\ ~sh.startup /\ sh.confirm
  /\ sh' = [sh EXCEPT !.confirm = FALSE, !.busy = yes]
  /\ IF yes THEN \E d \in Free :
                   /\ flight' = BagAdd(flight, Task("delete", d))
                   /\ dels' = [dels EXCEPT ![d] = [NoDelete EXCEPT !.step = "resolve",
                                                                  !.for = sh.host]]
     ELSE UNCHANGED <<flight, dels>>
  /\ Same /\ UNCHANGED <<at, todo, lines, stranded>>

\* ctrl+c gives the prompt back and stops nothing.
CtrlC ==
  /\ AtPrompt /\ sh.busy
  /\ sh' = [sh EXCEPT !.busy = FALSE]
  /\ Same /\ UNCHANGED <<at, todo, flight, dels, lines, stranded>>

CtrlD ==
  /\ AtPrompt
  /\ Stops("over")
  /\ Same /\ UNCHANGED <<sh, todo, dels, lines, stranded>>

\* A key that ends a dialog, while a prompt is open.
Answer(a) ==
  /\ Running /\ sh.flow # None /\ a \in AnswersAt(sh.flow.step)
  /\ \E f \in ApplyResult(sh.flow, a) :
       IF f.end = "open"
       THEN sh' = [sh EXCEPT !.flow = f] /\ UNCHANGED <<at, todo, flight>>
       ELSE /\ sh' = [sh EXCEPT !.flow = None]
            /\ todo' = ResultOf(f)
            /\ IF ResultOf(f) = None THEN UNCHANGED <<at, flight>>
               ELSE Stops(IF f.kind = "setup" THEN "setup" ELSE "action")
  /\ Same /\ UNCHANGED <<dels, lines, stranded>>

-----------------------------------------------------------------------------
(* Commands on their own goroutines                                        *)

Becomes(t, msg) == flight' = BagAdd(BagRemove(flight, t), msg)

\* A snapshot, restore, branch or url command, on whatever gateway there is
\* (runHostServerCommand, runAppServerCommand, and those that show or open a
\* URL).  users list and remove refuse another server's gateway: left out.
Run ==
  /\ Running /\ \E t \in BagToSet(flight) :
       /\ t.kind = "run"
       /\ deed' = IF sh.gw = None THEN Nothing
                  ELSE [what |-> "run", on |-> sh.gw, for |-> t.arg]
       /\ Becomes(t, Task("result", None))
  /\ UNCHANGED <<at, sh, todo, dels, lines, events, stranded>>

\* A deletion is over: its message is left for Update, if its program still
\* runs, or runShell goes on, to a shell brought back as it was.
Finishes(d, s) ==
  /\ dels' = [dels EXCEPT ![d] = NoDelete]
  /\ IF at = "deleting" /\ todo.by = d
     THEN at' = "next" /\ todo' = None /\ sh' = [s EXCEPT !.resume = TRUE] /\ UNCHANGED flight
     ELSE /\ sh' = s /\ UNCHANGED <<at, todo>>
          /\ LET t == Task("delete", d)
             IN  IF BagIn(t, flight) THEN Becomes(t, Task("result", None)) ELSE UNCHANGED flight

Deleting(d, step) ==
  at # "over" /\ dels[d].step = step /\ UNCHANGED <<lines, events, stranded>>

StepTo(d, del) == dels' = [dels EXCEPT ![d] = del] /\ UNCHANGED <<at, todo, flight>>

\* runDeleteConfirmed resolves its target when its goroutine runs.
ResolveDelete(d) ==
  /\ Deleting(d, "resolve") /\ NoDeed
  /\ IF sh.host = None THEN Finishes(d, sh)
     ELSE StepTo(d, [dels[d] EXCEPT !.step = "check", !.to = Login(sh.host)]) /\ UNCHANGED sh

\* Mutant: any gateway will do.
CheckDeleteAny(d) ==
  /\ Deleting(d, "check") /\ NoDeed /\ UNCHANGED sh
  /\ StepTo(d, [dels[d] EXCEPT !.step = "delete", !.gw = sh.gw])

\* gatewayForResolvedHost: the shell's gateway, if the shell is set to the
\* server meant and has it, else one that is opened now.
CheckDelete(d) ==
  LET same == Login(sh.host) = dels[d].to
  IN  /\ Deleting(d, "check") /\ NoDeed /\ UNCHANGED sh
      /\ StepTo(d, IF same /\ sh.gw = dels[d].to
                  THEN [dels[d] EXCEPT !.step = "delete", !.gw = sh.gw]
                  ELSE [dels[d] EXCEPT !.step = "connect", !.same = same])

\* The new gateway becomes the shell's if it was for the shell's server when
\* the shell was looked at.
ConnectDelete(d) ==
  /\ Deleting(d, "connect") /\ NoDeed
  /\ \/ Finishes(d, sh)
     \/ /\ StepTo(d, [dels[d] EXCEPT !.step = "delete", !.gw = dels[d].to])
        /\ sh' = IF dels[d].same THEN Connect(sh, dels[d].to) ELSE sh

\* The app goes, with its entry in the list (markAppsStale), unless the
\* gateway or the server fails.
DeleteApp(d) ==
  /\ Deleting(d, "delete")
  /\ \/ Finishes(d, sh) /\ NoDeed
     \/ /\ Finishes(d, [sh EXCEPT !.loaded = FALSE, !.listing = FALSE])
        /\ deed' = [what |-> "delete", on |-> dels[d].gw, for |-> dels[d].for,
                    moved |-> dels[d].moved]

Delete ==
  \E d \in Deleters : ResolveDelete(d) \/ CheckDelete(d) \/ ConnectDelete(d) \/ DeleteApp(d)

\* loadAppsCmd looks at the shell's flags when it runs, not when it is made;
\* refreshAppsFromStreamCmd needs a gateway only.
LoadApps ==
  /\ Running /\ \E t \in BagToSet(flight) :
       /\ t.kind \in {"load", "refresh"}
       /\ \/ Becomes(t, Task("nolist", t.arg))
          \/ /\ IF t.kind = "load" THEN ~sh.syncing /\ Ready(sh) ELSE sh.gw # None
             /\ Becomes(t, Task("list", t.arg))
  /\ NoDeed /\ UNCHANGED <<at, sh, todo, dels, lines, events, stranded>>

-----------------------------------------------------------------------------
(* Messages                                                                *)

Idle(s) == [s EXCEPT !.busy = FALSE]
\* Neither reachable nor set up: the gateway goes, and the deferred line.
Offline(s) ==
  [Close(Idle(s)) EXCEPT !.boot = FALSE, !.loaded = FALSE, !.pending = None]
NotSetUp(s) == [Offline(s) EXCEPT !.setup = TRUE, !.listing = FALSE]
Online(s, h) == [Connect(Idle(s), h) EXCEPT !.boot = TRUE, !.setup = FALSE]
Listed(s) == [s EXCEPT !.loaded = TRUE, !.listing = FALSE]

\* startAppsStreamCmd
StreamTask(s) == IF s.stream THEN None ELSE Task("open", None)

\* The message of t is the next one Update sees, and no prompt is open.
Delivers(kinds, t) ==
  /\ AtPrompt /\ t \in BagToSet(flight) /\ t.kind \in kinds
  /\ NoDeed /\ UNCHANGED lines

Goes(t) == flight' = BagRemove(flight, t)
GoesOn(t, next) == flight' = Launch(BagRemove(flight, t), next)
Stays == UNCHANGED <<at, todo, events>>

\* startupConnectMsg.  Only the success leads on to what ends the sync.
StartupConnected(t) ==
  /\ Delivers({"connect"}, t) /\ Stays
  /\ \/ /\ sh' \in {[s EXCEPT !.startup = FALSE] : s \in {Offline(sh), NotSetUp(sh)}}
        /\ Goes(t) /\ stranded' = TRUE
     \/ /\ t.arg # None /\ sh' = Online(sh, t.arg)
        /\ GoesOn(t, Task("names", None)) /\ UNCHANGED stranded

\* startupAppsMsg: the names, then startupForwardCmd with the gateway of now
StartupApps(t) ==
  /\ Delivers({"names"}, t) /\ Stays /\ UNCHANGED stranded
  /\ \/ sh' = [sh EXCEPT !.startup = FALSE, !.syncing = FALSE] /\ Goes(t)
     \/ UNCHANGED sh /\ GoesOn(t, Task("ready", sh.gw))

\* startupReadyMsg: the list is there and the deferred line is taken up.
StartupReady(t) ==
  /\ Delivers({"ready"}, t) /\ UNCHANGED stranded
  /\ LET s == [sh EXCEPT !.startup = FALSE, !.syncing = FALSE]
     IN  IF t.arg = None THEN sh' = s /\ Goes(t)
         ELSE \E r \in TakeUp(Listed(s)) :
                /\ sh' = [r.s EXCEPT !.busy = @ \/ r.task # None]
                /\ flight' = Launch(Launch(BagRemove(flight, t), StreamTask(s)), r.task)
  /\ Stays

\* hostSyncMsg.  A deferred line that starts something leaves the stream out.
HostSynced(t) ==
  /\ Delivers({"sync"}, t) /\ Stays /\ UNCHANGED stranded
  /\ LET s == [sh EXCEPT !.syncing = FALSE]
     IN  \/ sh' \in {Offline(s), NotSetUp(s)} /\ Goes(t)
         \/ \E r \in TakeUp(Listed(Online(s, t.arg))) :
              /\ t.arg # None
              /\ sh' = [r.s EXCEPT !.busy = r.task # None]
              /\ GoesOn(t, IF r.task # None THEN r.task ELSE StreamTask(r.s))

\* appsLoadedMsg with the list, of loadAppsCmd or of an event of the stream
AppsLoaded(t) ==
  /\ Delivers({"list"}, t) /\ Stays /\ UNCHANGED stranded
  /\ \E r \in TakeUp(Listed(Idle(sh))) :
       sh' = [r.s EXCEPT !.busy = r.task # None] /\ GoesOn(t, r.task)

\* appsLoadedMsg with an error.  A list asked for by `apps` or `cd` (arg) is
\* asked for again through a sync; a line that waited for any other stays
\* deferred.
AppsFailed(t) ==
  /\ Delivers({"nolist"}, t) /\ Stays /\ UNCHANGED stranded
  /\ LET s == Idle([sh EXCEPT !.listing = FALSE])
         again == StartSync(Keep(s, Line("global", "apps", None)))
     IN  IF t.arg /\ (sh.syncing \/ ~Ready(sh))
         THEN sh' = again.s /\ GoesOn(t, again.task)
         ELSE sh' = s /\ Goes(t)

\* appsStreamStartedMsg
StreamStarted(t) ==
  /\ Delivers({"open"}, t) /\ Stays /\ UNCHANGED stranded
  /\ \/ UNCHANGED sh /\ Goes(t)
     \/ sh' = [sh EXCEPT !.stream = TRUE] /\ GoesOn(t, Task("listen", None))

\* appsStreamUpdateMsg.  It does not say whose event it is: an error closes
\* the stream of now, and an event listens to the stream of now.
StreamUpdate(t) ==
  /\ Delivers({"listen"}, t) /\ UNCHANGED <<at, todo, stranded>>
  /\ \/ sh' = [sh EXCEPT !.stream = FALSE] /\ Goes(t) /\ UNCHANGED events
     \/ /\ events < MaxEvents /\ events' = events + 1
        /\ sh' = [sh EXCEPT !.listing = TRUE]
        /\ flight' = Launch(Launch(BagRemove(flight, t), Task("refresh", FALSE)),
                            IF sh.stream THEN Task("listen", None) ELSE None)

\* commandResultMsg
Result(t) ==
  /\ Delivers({"result"}, t) /\ Stays /\ UNCHANGED stranded
  /\ sh' = Idle(sh) /\ Goes(t)

\* interactivePreparedMsg: a session to attach to, an attach from scratch
\* (fallback), or an error.
Prepared(t) ==
  /\ Delivers({"prepare"}, t) /\ UNCHANGED <<events, stranded>>
  /\ sh' = Idle(sh)
  /\ \/ Goes(t) /\ UNCHANGED <<at, todo>>
     \/ Stops("session") /\ UNCHANGED todo
     \/ Stops("action") /\ todo' = [kind |-> "attach"]

\* shellActionMsg
ActionAsked(t) ==
  /\ Delivers({"remove", "edit"}, t) /\ UNCHANGED <<events, stranded>>
  /\ sh' = Idle(sh) /\ Stops("action") /\ todo' = [kind |-> t.kind, host |-> t.arg]

\* A message that arrives while a prompt is open goes to its dialog.
Swallowed(t) ==
  /\ Running /\ sh.flow # None /\ t \in BagToSet(flight)
  /\ t.kind \notin {"run", "delete", "load", "refresh"}
  /\ Goes(t) /\ stranded' = TRUE
  /\ NoDeed /\ UNCHANGED <<at, sh, todo, lines, events>>

-----------------------------------------------------------------------------
(* Between two programs: runShell                                          *)

\* runWipeFlow with a plan, on a gateway of its own to what ssh is given
Wipes(f, on, ok) ==
  deed' = IF f.wipe # None /\ ok
          THEN [what |-> "wipe", on |-> on, for |-> f, here |-> sh.host] ELSE Nothing

\* runShellSetup: wipe the old server if the plan says so, by the name the
\* plan has, bootstrap the new one, make it the default (which may not be
\* saved), offer its proxy, and start over without a gateway.  A wipe or a
\* bootstrap that fails ends it.
RunSetup ==
  /\ at = "setup" /\ at' = "next"
  /\ \/ /\ \E wiped \in BOOLEAN : Wipes(todo, todo.wipe, wiped)
        /\ UNCHANGED sh
     \/ /\ Wipes(todo, todo.wipe, TRUE)
        /\ \E h \in {todo.to, sh.host} :
             sh' = [Close(sh) EXCEPT !.host = h, !.loaded = FALSE, !.listing = FALSE,
                                     !.setup = FALSE, !.ask = FALSE, !.boot = TRUE]
  /\ HostMoves /\ todo' = None /\ UNCHANGED <<flight, lines, events, stranded>>

\* runPreparedInteractive: the attach subprocess, then its gateway closed
RunSession ==
  /\ at = "session" /\ at' = "next"
  /\ sh' = [sh EXCEPT !.resume = TRUE]
  /\ NoDeed /\ UNCHANGED <<todo, flight, dels, lines, events, stranded>>

\* runShellAction, but for a deletion.  A session brings the shell back as it
\* was (actionResumesShell), after anything else it connects anew.  wipe
\* resolves its login once more.
RunAction ==
  /\ at = "action" /\ todo.kind # "remove" /\ at' = "next" /\ todo' = None
  /\ CASE todo.kind = "attach" -> sh' = [sh EXCEPT !.resume = TRUE] /\ NoDeed
       [] todo.kind = "edit" -> (\E r \in Reach(sh, sh.host) : sh' = r.s) /\ NoDeed
       [] todo.kind = "wipe" -> (\E ok \in BOOLEAN : Wipes(todo, Login(todo.wipe), ok)) /\ UNCHANGED sh
       [] OTHER -> (\E r \in Reach(sh, todo.host) : sh' = r.s) /\ NoDeed
  /\ UNCHANGED <<flight, dels, lines, events, stranded>>

\* runShellDelete resolves its target, asks, and deletes as above.
RunDelete ==
  /\ at = "action" /\ todo.kind = "remove"
  /\ \/ /\ at' = "next" /\ todo' = None
        /\ sh' = [sh EXCEPT !.resume = TRUE] /\ UNCHANGED dels
     \/ LET for == IF todo.host = None THEN sh.host ELSE todo.host
        IN  /\ for # None
            /\ \E d \in Free :
                 /\ dels' = [dels EXCEPT ![d] = [NoDelete EXCEPT !.step = "check", !.for = for,
                                                                !.to = Login(for)]]
                 /\ at' = "deleting" /\ todo' = [kind |-> "remove", by |-> d]
            /\ UNCHANGED sh
  /\ NoDeed /\ UNCHANGED <<flight, lines, events, stranded>>

\* shellModel.Init: go on with the gateway there is, or connect.
Begin(s) ==
  IF s.resume /\ Ready(s)
  THEN [s |-> [s EXCEPT !.resume = FALSE, !.listing = TRUE],
        tasks |-> Launch(SetToBag({Task("load", FALSE)}), StreamTask(s))]
  ELSE IF s.ask THEN [s |-> s, tasks |-> EmptyBag]
  ELSE [s |-> [s EXCEPT !.loaded = FALSE, !.syncing = TRUE],
        tasks |-> SetToBag({Task("connect", Login(s.host))})]

NextProgram ==
  /\ at = "next" /\ at' = "shell"
  /\ LET b == Begin(Idle(sh))
     IN  /\ sh' = b.s /\ flight' = b.tasks
         /\ stranded' = ((stranded \/ sh.syncing) /\ ~BagIn(Task("connect", Login(sh.host)), b.tasks))
  /\ NoDeed /\ UNCHANGED <<todo, dels, lines, events>>

Init ==
  /\ at = "shell" /\ todo = None /\ lines = 0 /\ events = 0 /\ deed = Nothing /\ stranded = FALSE
  /\ dels = [d \in Deleters |-> NoDelete]
  /\ \E h \in Hosts \cup {None} :
       LET b == Begin([host |-> h, ask |-> h = None, setup |-> h = None, boot |-> FALSE,
                       gw |-> None, stream |-> FALSE, syncing |-> FALSE, loaded |-> FALSE,
                       listing |-> FALSE, pending |-> None, busy |-> FALSE,
                       startup |-> h # None, confirm |-> FALSE, flow |-> None,
                       resume |-> FALSE, scope |-> "global"])
       IN  sh = b.s /\ flight = b.tasks

User ==
  \/ \E c \in Lines : Type(c)
  \/ \E yes \in BOOLEAN : ConfirmDelete(yes)
  \/ \E a \in Hosts \cup {"cancel", "text", "yes", "no"} : Answer(a)
  \/ CtrlC \/ CtrlD

Message ==
  /\ \E t \in BagToSet(flight) :
       \/ StartupConnected(t) \/ StartupApps(t) \/ StartupReady(t) \/ HostSynced(t)
       \/ AppsLoaded(t) \/ AppsFailed(t) \/ StreamStarted(t) \/ StreamUpdate(t)
       \/ Result(t) \/ Prepared(t) \/ ActionAsked(t) \/ Swallowed(t)
  /\ HostMoves

Next ==
  User \/ Message \/ Run \/ Delete \/ LoadApps
  \/ RunSetup \/ RunSession \/ RunAction \/ RunDelete \/ NextProgram

Spec == Init /\ [][Next]_vars

-----------------------------------------------------------------------------
(* Properties                                                              *)

ShellState ==
  [host : Hosts \cup {None}, ask : BOOLEAN, setup : BOOLEAN, boot : BOOLEAN,
   gw : Logins \cup {None}, stream : BOOLEAN, syncing : BOOLEAN, loaded : BOOLEAN,
   listing : BOOLEAN, pending : Lines \cup {None}, busy : BOOLEAN,
   startup : BOOLEAN, confirm : BOOLEAN, flow : FlowType \cup {None},
   resume : BOOLEAN, scope : {"global", "app"}]

Deletion ==
  [step : {"none", "resolve", "check", "connect", "delete"}, for : Hosts \cup {None},
   to : Logins \cup {None}, same : BOOLEAN, gw : Logins \cup {None}, moved : BOOLEAN]

\* Every variable has its type; only a flow that ended with a plan is left
\* for runShell, and only when runShell is to act on it.
TypeOK ==
  /\ at \in {"shell", "setup", "session", "action", "deleting", "next", "over"}
  /\ sh \in ShellState /\ BagToSet(flight) \subseteq TaskType
  /\ sh.flow # None => sh.flow.end = "open"
  /\ at = "setup" => todo \in FlowType /\ todo.kind = "setup" /\ todo.end = "plan"
  /\ at = "action" /\ todo.kind \notin {"attach", "remove", "edit"} =>
       todo \in FlowType /\ todo.kind # "setup" /\ todo.end = "plan"
  /\ at = "action" /\ todo.kind = "remove" => todo.host \in Hosts \cup {None}
  /\ dels \in [Deleters -> Deletion]
  /\ lines \in 0..MaxLines /\ events \in 0..MaxEvents /\ stranded \in BOOLEAN

\* A server is wiped only after its name was shown and confirmed, WIPE was
\* typed, and no dialog that followed was left: what ssh is given is the name
\* the dialogs showed, resolved by `wipe` and as it stands by `setup`, which
\* wipes only by the name of the server the shell is still set to.
WipedAsAsked ==
  deed.what = "wipe" =>
    /\ {<<"confirm", "yes">>, <<"token", "text">>} \subseteq deed.for.said
    /\ \A x \in deed.for.said : x[2] # "cancel"
    /\ IF deed.for.kind = "setup" THEN deed.on = deed.for.host /\ deed.on = deed.here
       ELSE deed.on = Login(deed.for.host)

\* An app is deleted on the server the shell was set to when the deletion was
\* confirmed, or the one its target named, whichever gateway the shell held
\* then and whatever became of the shell while the deletion looked, connected
\* and asked: only a shell set to another server before the deletion had
\* looked at all takes it there.
DeletedAsConfirmed ==
  deed.what = "delete" => deed.on = Login(deed.for) \/ deed.moved

Syncs == {t \in BagToSet(flight) : t.kind \in {"connect", "names", "ready", "sync"}}

\* At most one sync runs, the flag that makes the others wait is up for all of
\* it, and the flags come down with it: only a start that failed or a result
\* that was dropped leaves `syncing` up, and nothing leaves the keys ignored.
SyncFlagIsTrue ==
  at = "shell" =>
    /\ \A t \in Syncs : sh.syncing /\ Syncs = {t} /\ flight[t] = 1
    /\ sh.startup => Syncs # {}
    /\ sh.syncing => Syncs # {} \/ stranded

\* Known not to hold (see README): a line the shell has deferred is waiting
\* for something that is under way.
DeferredIsServed ==
  at = "shell" /\ sh.busy /\ sh.pending # None => \E t \in BagToSet(flight) : t.kind # "listen"

\* Known not to hold (see README): a command for the server runs on the server
\* the shell was set to when it was taken up.
RunsHere == deed.what = "run" => deed.on = Login(deed.for)

\* Known not to hold (see README): the server setup wipes is the one the shell
\* was connected to under that name.
SetupWipesHere ==
  deed.what = "wipe" /\ deed.for.kind = "setup" => deed.on = Login(deed.for.host)

\* Known not to hold (see README): no command typed after a deletion was
\* confirmed takes it to another server.
DeletedThere == deed.what = "delete" => deed.on = Login(deed.for)
==============================================================================
