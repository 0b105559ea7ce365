------------------------------ MODULE Session ------------------------------
(***************************************************************************)
(* `viberun attach`: one terminal that works in one app after another.     *)
(*                                                                         *)
(* For each app the client makes a connection of its own, a gateway        *)
(* process on the host, with an "open" stream for events and a "pty"       *)
(* stream for the session process (AttachSession.Run, handlePtyStream).    *)
(* A program in the container can ask the client to go on to another app,  *)
(* alone (vrctl host attach), after a branch was created or applied, or    *)
(* with its deletion (vrctl host branch); a callback on the                *)
(* client notes the request and closes the pty.  Ctrl-V uploads the        *)
(* clipboard's image into the container and types its path into the pty.   *)
(* Requests are made one at a time, and an image is pasted once.           *)
(***************************************************************************)
EXTENDS Integers, Sequences

CONSTANTS
  MaxConns,   \* bound: connections over time
  MaxEvents,  \* bound: events on their way to the client
  MaxAsks     \* bound: requests of the containers' programs

ASSUME AttachAssumption ==
  {MaxConns, MaxEvents, MaxAsks} \subseteq Nat \ {0}

Conns == 1..MaxConns
Apps == {"base", "branch"}    \* an app, and its branch environment
NoApp == "none"

VARIABLES
  main,       \* the client's main goroutine
  conn,       \* the connection it works with
  next,       \* handleAttach: the app to attach to, NoApp to return
  switchReq,  \* the request the callback has noted
  ptyVar,     \* the variable ptyStream is set
  cb,         \* the open stream's goroutine: [pc, app]
  link,       \* link[c]: "none", "up", "down"
  gate,       \* gate[c]: the gateway process on the host runs
  listens,    \* listens[c]: handleOpenStream has run
  clogged,    \* clogged[c]: the gateway's read loop waits for ever for the pty's copy
  inbox,      \* inbox[c]: requests on their way to the client
  pty,        \* pty[c]: the pty stream: "none", "open", "closed"
  sess,       \* sess[c]: the session process: "none", "running", "ended"
  app,        \* app[c]: the app the session is of
  job,        \* the request of a container's program: [conn, kind, app, pc]
  asks,       \* requests so far, for the bound
  envs,       \* the branch environments that exist
  clip,       \* the paste: [pc, conn]
  put,        \* its upload on the host: "none", "copying", "ok", "error"
  reply,      \* the upload stream: the result message is under way, it is closed
  inserted    \* history: the path was typed into this session, 0 for none

client == <<main, conn, next, switchReq, ptyVar>>
host == <<gate, listens, clogged, sess>>
asked == <<job, asks, envs>>
paste == <<clip, put, reply, inserted>>
attachVars == <<client, cb, link, inbox, pty, host, app, asked, paste>>

NoJob == [pc |-> "off", kind |-> "attach", conn |-> 1, app |-> NoApp]
Idle == [pc |-> "idle", app |-> NoApp]
NoReply == [msg |-> FALSE, closed |-> FALSE]

AttachInit ==
  /\ main = "dial" /\ conn = 1 /\ next \in Apps /\ switchReq = NoApp /\ ptyVar = FALSE
  /\ cb = Idle
  /\ link = [c \in Conns |-> "none"] /\ gate = [c \in Conns |-> FALSE]
  /\ listens = [c \in Conns |-> FALSE] /\ clogged = [c \in Conns |-> FALSE]
  /\ inbox = [c \in Conns |-> <<>>]
  /\ pty = [c \in Conns |-> "none"] /\ sess = [c \in Conns |-> "none"]
  /\ app = [c \in Conns |-> NoApp] /\ job = NoJob /\ asks = 0 /\ envs = {"branch"}
  /\ clip = [pc |-> "off", conn |-> 1] /\ put = "none" /\ reply = NoReply /\ inserted = 0

-----------------------------------------------------------------------------
(* The client's main goroutine: handleAttach, runShellInteractive and      *)
(* AttachSession.Run                                                       *)

\* The frame that Close writes before it closes the stream is taken not to
\* block.
ClosePty(c) == pty' = [pty EXCEPT ![c] = IF @ = "open" THEN "closed" ELSE @]

\* startAttachGateway, and what runShellInteractive asks the host and the user
\* before it attaches.
Dial ==
  /\ main = "dial"
  /\ \/ /\ main' = "open" /\ next' = NoApp /\ app' = [app EXCEPT ![conn] = next]
        /\ link' = [link EXCEPT ![conn] = "up"] /\ gate' = [gate EXCEPT ![conn] = TRUE]
     \/ main' = "exit" /\ next' = NoApp /\ UNCHANGED <<link, gate, app>>
  /\ UNCHANGED <<conn, switchReq, ptyVar, cb, listens, clogged, inbox, pty, sess, asked, paste>>

\* startOpenStream: from here on the callback can run.
OpenEvents ==
  /\ main = "open"
  /\ \/ link[conn] = "up" /\ main' = "pty"
     \/ link[conn] = "down" /\ main' = "leave"
  /\ UNCHANGED <<conn, next, switchReq, ptyVar, cb, link, inbox, pty, host, app, asked, paste>>

\* The pty stream is open before the variable ptyStream says so.
OpenPty ==
  /\ main = "pty"
  /\ \/ link[conn] = "up" /\ main' = "assign" /\ pty' = [pty EXCEPT ![conn] = "open"]
     \/ link[conn] = "down" /\ main' = "leave" /\ UNCHANGED pty
  /\ UNCHANGED <<conn, next, switchReq, ptyVar, cb, link, inbox, host, app, asked, paste>>

AssignPty ==
  /\ main = "assign" /\ main' = "check" /\ ptyVar' = TRUE
  /\ UNCHANGED <<conn, next, switchReq, cb, link, inbox, pty, host, app, asked, paste>>

\* Mutant: Run does not look for a request that came before the pty.
NoCheck ==
  /\ main = "check" /\ main' = "run"
  /\ UNCHANGED <<pty, conn, next, switchReq, ptyVar, cb, link, inbox, host, app, asked, paste>>

\* A request that came before ptyStream was set could not close it.
CheckRequest ==
  /\ main = "check" /\ main' = "run"
  /\ IF switchReq # NoApp THEN ClosePty(conn) ELSE UNCHANGED pty
  /\ UNCHANGED <<conn, next, switchReq, ptyVar, cb, link, inbox, host, app, asked, paste>>

\* runPTY returns when the stream is closed; the request, if any, wins over
\* what it returned.
SessionOver ==
  /\ main = "run" /\ pty[conn] = "closed"
  /\ main' = "leave" /\ next' = switchReq
  /\ UNCHANGED <<conn, switchReq, ptyVar, cb, link, inbox, pty, host, app, asked, paste>>

\* Mutant: the connection is left open.
LeaveOpen ==
  /\ main = "leave"
  /\ IF next = NoApp \/ conn = MaxConns
       THEN main' = "exit" /\ UNCHANGED conn
       ELSE main' = "dial" /\ conn' = conn + 1
  /\ UNCHANGED <<link, pty, next, switchReq, ptyVar, cb, inbox, host, app, asked, paste>>

\* The deferred gateway.Close; then the next app of the loop.
Leave ==
  /\ main = "leave"
  /\ link' = [link EXCEPT ![conn] = "down"] /\ ClosePty(conn)
  /\ IF next = NoApp \/ conn = MaxConns
       THEN main' = "exit" /\ UNCHANGED conn
       ELSE main' = "dial" /\ conn' = conn + 1
  /\ inbox' = [inbox EXCEPT ![conn] = <<>>]
  /\ switchReq' = NoApp /\ ptyVar' = FALSE /\ cb' = Idle
  /\ UNCHANGED <<next, host, app, asked, paste>>

-----------------------------------------------------------------------------
(* The callback, run by the open stream's goroutine                        *)

Connected == main \in {"pty", "assign", "check", "run"}

TakeRequest ==
  /\ cb.pc = "idle" /\ Connected /\ inbox[conn] # <<>>
  /\ cb' = [pc |-> "note", app |-> Head(inbox[conn])]
  /\ inbox' = [inbox EXCEPT ![conn] = Tail(@)]
  /\ UNCHANGED <<client, link, pty, host, app, asked, paste>>

\* Under switchMu; the first request stands.
NoteRequest ==
  /\ cb.pc = "note" /\ cb' = [cb EXCEPT !.pc = "close"]
  /\ switchReq' = (IF switchReq = NoApp THEN cb.app ELSE switchReq)
  /\ UNCHANGED <<main, conn, next, ptyVar, link, inbox, pty, host, app, asked, paste>>

\* After it: ptyStream is read without the lock.
CloseForRequest ==
  /\ cb.pc = "close" /\ cb' = Idle
  /\ IF ptyVar THEN ClosePty(conn) ELSE UNCHANGED pty
  /\ UNCHANGED <<client, link, inbox, host, app, asked, paste>>

-----------------------------------------------------------------------------
(* The host: the gateway process, the session process and the program in   *)
(* the container                                                           *)

LinkBreaks(c) ==
  /\ link[c] = "up" /\ link' = [link EXCEPT ![c] = "down"] /\ ClosePty(c)
  /\ UNCHANGED <<client, cb, inbox, host, app, asked, paste>>

\* handleOpenStream, in a goroutine of its own.
RegisterOpen(c) ==
  /\ gate[c] /\ link[c] = "up" /\ ~listens[c] /\ (c < conn \/ main \notin {"dial", "open"})
  /\ listens' = [listens EXCEPT ![c] = TRUE]
  /\ UNCHANGED <<client, cb, link, inbox, pty, gate, clogged, sess, app, asked, paste>>

\* handlePtyStream: the app's open socket, then the session process; either
\* can fail.
StartSession(c) ==
  /\ gate[c] /\ pty[c] # "none" /\ sess[c] = "none"
  /\ \/ sess' = [sess EXCEPT ![c] = "running"] /\ UNCHANGED pty
     \/ sess' = [sess EXCEPT ![c] = "ended"] /\ ClosePty(c)
  /\ UNCHANGED <<client, cb, link, inbox, gate, listens, clogged, app, asked, paste>>

\* The user detaches, or the agent exits: the copy to the stream ends and
\* closes it, which lets a push to it go; the bridge goes with the session, and
\* a request made through it.
Cut(c) == job' = IF job.conn = c THEN NoJob ELSE job
SessionEnds(c) ==
  /\ sess[c] = "running" /\ sess' = [sess EXCEPT ![c] = "ended"]
  /\ clogged' = [clogged EXCEPT ![c] = FALSE] /\ ClosePty(c) /\ Cut(c)
  /\ UNCHANGED <<client, cb, link, inbox, gate, listens, app, asks, envs, paste>>

\* The gateway's read loop pushes to the full channel of the pty stream, whose
\* copy is stuck because the session does not read its terminal any more: it
\* will not read the connection's end.  A push that goes on is only a delay.
Clog(c) ==
  /\ gate[c] /\ link[c] = "down" /\ sess[c] = "running"
  /\ clogged' = [clogged EXCEPT ![c] = TRUE]
  /\ UNCHANGED <<client, cb, link, inbox, pty, gate, listens, sess, app, asked, paste>>

\* Mutant: the session process survives the gateway that started it.
GatewayExitsAlone(c) ==
  /\ gate[c] /\ link[c] = "down" /\ ~clogged[c] /\ gate' = [gate EXCEPT ![c] = FALSE]
  /\ app' = [app EXCEPT ![c] = NoApp]
  /\ Cut(c)
  /\ put' = (IF put = "copying" /\ clip.conn = c THEN "error" ELSE put)
  /\ listens' = [listens EXCEPT ![c] = FALSE]
  /\ UNCHANGED <<client, cb, link, inbox, pty, clogged, sess, asks, envs, clip, reply, inserted>>

\* runGateway returns once its read loop reads that the connection is gone; the
\* terminal it held for the session process goes with it, and the process gets
\* SIGHUP.  Closing the pty stream alone does nothing to the process.
GatewayExits(c) ==
  /\ gate[c] /\ link[c] = "down" /\ ~clogged[c] /\ gate' = [gate EXCEPT ![c] = FALSE]
  /\ sess' = [sess EXCEPT ![c] = "ended"] /\ app' = [app EXCEPT ![c] = NoApp]
  /\ Cut(c)
  /\ put' = (IF put = "copying" /\ clip.conn = c THEN "error" ELSE put)
  /\ listens' = [listens EXCEPT ![c] = FALSE]
  /\ UNCHANGED <<client, cb, link, inbox, pty, clogged, asks, envs, clip, reply, inserted>>

\* The environment that app and the one branch name in use stand for.
Derived(a) == IF a = "base" THEN "branch" ELSE "branch of branch"

\* A program in the container: vrctl host attach, or vrctl host branch create,
\* delete or apply with --attach.  vrctl sends no delete without a name.
Ask(c, k) ==
  /\ sess[c] = "running" /\ job.pc = "off" /\ asks < MaxAsks /\ asks' = asks + 1
  /\ \E a \in Apps :
       job' = [pc |-> IF k = "attach" THEN "send" ELSE "work", kind |-> k, conn |-> c,
               app |-> IF k = "attach" THEN a ELSE NoApp]
  /\ UNCHANGED <<client, cb, link, inbox, pty, host, app, envs, paste>>

\* handleBranchCreate; vrctl then asks for the new environment itself.
CreateBranch ==
  /\ job.pc = "work" /\ job.kind = "create" /\ app[job.conn] = "base"
  /\ envs' = envs \cup {Derived("base")}
  /\ job' = [job EXCEPT !.pc = "send", !.app = Derived("base")]
  /\ UNCHANGED <<client, cb, link, inbox, pty, host, app, asks, paste>>

\* handleBranchApply, named in the base and without a name in the branch: the
\* switch to the base is asked for afterwards, unless the session is the base's.
ApplyBranch ==
  /\ job.pc = "work" /\ job.kind = "apply" /\ "branch" \in envs
  /\ job' = (IF app[job.conn] = "base" THEN NoJob
                                       ELSE [job EXCEPT !.pc = "send", !.app = "base"])
  /\ UNCHANGED <<client, cb, link, inbox, pty, host, app, asks, envs, paste>>

\* handleBranchDelete with a name: the base is taken to be the session's app,
\* so the switch is never asked for, and a branch's own session deletes a
\* branch of the branch.
DeleteBranch ==
  /\ job.pc = "work" /\ job.kind = "delete"
  /\ envs' = envs \ {Derived(app[job.conn])} /\ job' = [job EXCEPT !.pc = "answered"]
  /\ UNCHANGED <<client, cb, link, inbox, pty, host, app, asks, paste>>

\* A request that fails, or a deletion that has its answer.
JobOver ==
  /\ job.pc \in {"work", "answered"} /\ job' = NoJob
  /\ UNCHANGED <<client, cb, link, inbox, pty, host, app, asks, envs, paste>>

\* sendAttachEvent: dropped as long as there is no open stream.
SendRequest ==
  /\ job.pc = "send" /\ gate[job.conn] /\ Len(inbox[job.conn]) < MaxEvents
  /\ job' = NoJob
  /\ inbox' = (IF listens[job.conn] /\ link[job.conn] = "up"
                 THEN [inbox EXCEPT ![job.conn] = Append(@, job.app)] ELSE inbox)
  /\ UNCHANGED <<client, cb, link, pty, host, app, asks, envs, paste>>

-----------------------------------------------------------------------------
(* Pasting an image: handleClipboardImagePasteMux, uploadContainerFile     *)

\* Ctrl-V in a session; the goroutine keeps that session's connection.
PressPaste ==
  /\ main = "run" /\ clip.pc = "off" /\ link[conn] = "up"
  /\ clip' = [pc |-> "wait", conn |-> conn] /\ put' = "copying"
  /\ UNCHANGED <<client, cb, link, inbox, pty, host, app, asked, reply, inserted>>

\* handleUploadStream: the copy ends, well or not, ...
UploadEnds ==
  /\ put = "copying" /\ clip.pc = "wait" /\ gate[clip.conn]
  /\ put' \in {"ok", "error"} /\ reply' = [reply EXCEPT !.msg = TRUE]
  /\ UNCHANGED <<client, cb, link, inbox, pty, host, app, asked, clip, inserted>>

\* ... the result is sent, and the stream is closed.
UploadCloses ==
  /\ reply.msg /\ ~reply.closed /\ clip.pc = "wait" /\ gate[clip.conn]
  /\ reply' = [reply EXCEPT !.closed = TRUE]
  /\ UNCHANGED <<client, cb, link, inbox, pty, host, app, asked, clip, put, inserted>>

\* Mutant: the upload is not waited for.
WaitUploadNot ==
  /\ clip.pc = "wait" /\ clip' = [clip EXCEPT !.pc = "type"]
  /\ UNCHANGED <<client, cb, link, inbox, pty, host, app, asked, put, reply, inserted>>

\* waitForUpload: the result message; or the end of the stream, which is taken
\* for success and may be seen first; or ten seconds are over.
WaitUpload ==
  /\ clip.pc = "wait" /\ reply' = NoReply
  /\ \/ reply.msg /\ put = "ok" /\ clip' = [clip EXCEPT !.pc = "type"]
     \/ reply.msg /\ put = "error" /\ clip' = [clip EXCEPT !.pc = "end"]
     \/ (reply.closed \/ link[clip.conn] = "down") /\ clip' = [clip EXCEPT !.pc = "type"]
     \/ clip' = [clip EXCEPT !.pc = "verify"]
  /\ UNCHANGED <<client, cb, link, inbox, pty, host, app, asked, put, inserted>>

\* verifyContainerUpload: the file's size, asked over the same connection; the
\* stream was closed, so a copy that was not through is not any more.
VerifyUpload ==
  /\ clip.pc = "verify"
  /\ \/ /\ link[clip.conn] = "up" /\ put = "copying" /\ put' \in {"ok", "error"}
        /\ UNCHANGED clip
     \/ /\ clip' = [clip EXCEPT !.pc =
              IF link[clip.conn] = "up" /\ put = "ok" THEN "type" ELSE "end"]
        /\ UNCHANGED put
  /\ UNCHANGED <<client, cb, link, inbox, pty, host, app, asked, reply, inserted>>

\* The path is written to the pty stream the goroutine was given.
TypePath ==
  /\ clip.pc = "type" /\ clip' = [clip EXCEPT !.pc = "end"]
  /\ inserted' = (IF pty[clip.conn] = "open" THEN clip.conn ELSE 0)
  /\ UNCHANGED <<client, cb, link, inbox, pty, host, app, asked, put, reply>>

\* The goroutine ends.
EndPaste ==
  /\ clip.pc = "end" /\ clip' = [pc |-> "over", conn |-> 1]
  /\ put' = "none" /\ inserted' = 0
  /\ UNCHANGED <<client, cb, link, inbox, pty, host, app, asked, reply>>

-----------------------------------------------------------------------------
MainStep ==
  Dial \/ OpenEvents \/ OpenPty \/ AssignPty \/ CheckRequest \/ SessionOver \/ Leave
CallbackStep == TakeRequest \/ NoteRequest \/ CloseForRequest
GatewayStep(c) == RegisterOpen(c) \/ StartSession(c) \/ Clog(c) \/ GatewayExits(c)
JobStep == CreateBranch \/ ApplyBranch \/ DeleteBranch \/ JobOver \/ SendRequest
PasteStep == UploadEnds \/ UploadCloses \/ WaitUpload \/ VerifyUpload \/ TypePath \/ EndPaste

AttachNext ==
  \/ MainStep \/ CallbackStep \/ JobStep \/ PressPaste \/ PasteStep
  \/ \E c \in Conns :
       \/ GatewayStep(c) \/ LinkBreaks(c) \/ SessionEnds(c)
       \/ \E k \in {"attach", "create", "apply", "delete"} : Ask(c, k)

AttachSpec == AttachInit /\ [][AttachNext]_attachVars

\* Goroutines of the client that can go on do, and a gateway whose read loop
\* sees the end of its connection ends; the user, the programs in the container,
\* the network and the streams that hold up a read loop need not.
AttachFairness ==
  /\ WF_attachVars(MainStep) /\ WF_attachVars(CallbackStep)
  /\ \A c \in Conns : WF_attachVars(GatewayExits(c))
AttachFairSpec == AttachSpec /\ AttachFairness

-----------------------------------------------------------------------------
(* Properties                                                              *)

\* Every variable has its type, and the client dials only for an app.
AttachTypeOK ==
  /\ main \in {"dial", "open", "pty", "assign", "check", "run", "leave", "exit"}
  /\ conn \in Conns /\ {next, switchReq} \subseteq Apps \cup {NoApp}
  /\ main = "dial" => next \in Apps
  /\ ptyVar \in BOOLEAN /\ cb \in [pc : {"idle", "note", "close"}, app : Apps \cup {NoApp}]
  /\ link \in [Conns -> {"none", "up", "down"}] /\ {gate, listens, clogged} \subseteq [Conns -> BOOLEAN]
  /\ inbox \in [Conns -> Seq(Apps)] /\ \A c \in Conns : Len(inbox[c]) <= MaxEvents
  /\ pty \in [Conns -> {"none", "open", "closed"}]
  /\ sess \in [Conns -> {"none", "running", "ended"}] /\ app \in [Conns -> Apps \cup {NoApp}]
  /\ job \in [pc : {"off", "send", "work", "answered"}, conn : Conns,
              kind : {"attach", "create", "apply", "delete"}, app : Apps \cup {NoApp}]
  /\ asks \in 0..MaxAsks /\ envs \subseteq {"branch"}
  /\ clip \in [pc : {"off", "wait", "verify", "type", "end", "over"}, conn : Conns]
  /\ put \in {"none", "copying", "ok", "error"}
  /\ reply \in [msg : BOOLEAN, closed : BOOLEAN] /\ inserted \in 0..MaxConns

\* A request noted while the pty is opened or in use is followed: the session
\* ends and the client goes on to that app, however the callback and the main
\* goroutine interleave around ptyStream, which they share without a lock.
RequestIsFollowed ==
  \A a \in Apps : main \in {"assign", "check", "run"} /\ switchReq = a ~> main = "leave" /\ next = a

\* Its safety half: once Run waits for the pty to end, a request that has been
\* noted has closed it, or the callback is about to, with ptyStream set.
RequestNotLost ==
  main = "run" /\ switchReq # NoApp => pty[conn] = "closed" \/ (cb.pc = "close" /\ ptyVar)

\* Nothing on the host but the gateway's end stops a session process whose
\* client has gone.  No process stays behind for ever, except with a gateway
\* whose read loop waits for ever to push to the pty of that same process.
NoSessionLeftBehind ==
  \A c \in Conns :
    sess[c] = "running" /\ (c < conn \/ main = "exit") ~> sess[c] # "running" \/ clogged[c]

\* Its safety half: a session process always has a gateway to end with, and
\* that gateway has lost its connection as soon as the client has left it.
SessionHasGateway ==
  \A c \in Conns : sess[c] = "running" =>
    gate[c] /\ (c < conn \/ main = "exit" => link[c] = "down")

\* A path is typed only into the session Ctrl-V was pressed in, and only after
\* the host has done with the upload, whatever became of the connection, the
\* time limit and the session in between.
PathAfterUpload ==
  inserted # 0 => inserted = clip.conn /\ put \in {"ok", "error"}

\* Known not to hold (see README): what src/README.md says of Ctrl-V.  The
\* image is uploaded when its path is inserted.
PathNamesImage == inserted # 0 => put = "ok"

\* Known not to hold (see README): what the agent's instructions
\* (src/config/AGENTS.app.md) say of deleting this branch from inside it.  When
\* vrctl has its answer, the branch is deleted.
DeleteThisBranch ==
  job.pc = "answered" /\ job.kind = "delete" /\ app[job.conn] = "branch"
    => "branch" \notin envs
=============================================================================
