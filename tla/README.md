# A formal model of viberun

viberun runs apps in containers on a host one reaches over ssh. The client
(`cmd/viberun`) starts `viberun-server gateway` on the host and multiplexes
everything over that one connection; the gateway runs `viberun-server <app>
<action>` for what the client asks. This directory holds TLA+ modules of the
parts whose correctness depends on the order of things, the TLC instances that
check them, and proofs checked by TLAPS.

Paths below are relative to the repository. `PROJECT.json` maps every definition
to the lines it models, and lists the hazards the properties were written for.

## The system

| Part | State it keeps | Operations | Hard because |
| --- | --- | --- | --- |
| Multiplexer, `internal/mux` | stream table, next id, per stream two channels, closed flags | open, read, write, close; the read loop's handlers; `Mux.Close` | many goroutines, a sync.Once and two mutexes; one read loop that blocks on the slowest stream |
| Gateway calls, `cmd/viberun/gateway.go`, `cmd/viberun-server/gateway.go` | pending calls, request counter | `rpc`, `readResponses`, `failAll`, `Close`; `handleControlStream` | calls race with the end of the connection |
| Server state, `internal/server`, `runServer` | app-to-port table in `server-state.json`; docker's containers | every command loads, reconciles, writes back; port, open, update, restore, delete | processes without a lock, crashes, a second source of truth (docker) |
| Sessions and host RPC, `hostrpc.go`, `runInteractiveSession` | socket and token file per app; restore queue | start, restore request, exec, restore, close | two sessions of an app share files and the container; an HTTP handler races with the session loop |
| Home volumes, `btrfs_home.go`, `btrfs_snapshot.go` | file, loop device, mounts, subvolumes, snapshots | ensure, snapshot, restore, delete | ten external commands, any of which may fail or be the last one |
| Branches, `branch_*.go` | derived volumes, `branch.json`, shadow git repository | create, apply, delete | multi-step, three-way merge, edits going on meanwhile |
| App list and port forwards, `apps_stream.go`, `forward_manager.go` | last snapshot, listeners per app | poll, compare, forward | snapshots dropped on purpose, listeners that must follow them |
| Client sessions and uploads, `attach.go`, `mux_session.go`, `gateway_upload.go`, `handlePtyStream` | the app attached to, a switch request, the pty, the session process; a partial file | attach, switch, leave; copy, result, timeout, size check | a callback and the attaching goroutine share variables; connections end at either side; the result races with the close of its stream |
| App URLs and login service, `cmd/viberun-server/proxy.go`, `internal/proxy`, `cmd/viberun-auth` | `proxy.toml`, caddy's routes | set up, access, users, domain; sync; verify a request | a second unlocked file, and a configuration derived from two files that caddy forgets when it restarts |
| Client shell, `cmd/viberun/shell_*.go` | one big model record | messages and commands | results arrive after the state they were asked for has changed |
| Prompts of the shell, `prompt_flow*.go`, `tui/dialogs` | a flow with its step and its plan | setup, wipe, proxy, password | plans are put together over several dialogs, any of which can be left; while one is open no other message gets through |

How they interact: the gateway calls, the app list, uploads, ptys and forwards
are streams of the multiplexer. A gateway call runs a server command, a process
of its own. Commands share nothing but files (`server-state.json`, the volume,
the socket and token of an app, `proxy.toml`) and docker. Nothing in the code
locks any of these, so two clients, or a client and a session, or the two second
poll of the app list and any command, interleave freely.

What would make each part correct: a stream delivers in order, at most once and
without gaps, and closing it cannot hurt the process; a call returns its own
answer or an error; two apps never share a port and an entry is the port the
container really has; a session performs exactly the restores it accepted and
can be reached as long as it lasts; what an app writes is in its home, and a
restore that succeeds has restored; the forwards follow the host's table and no
listener is left behind; a request to switch apps is followed and no session
process outlives its client; caddy serves what the files say and nobody reaches
an app who was not let in; a server is wiped or an app deleted only where and as
it was asked. Those are the properties below.

## Modules

* `MuxLanes` is the abstract promise of the multiplexer: per stream, direction
  and kind of payload a *lane* that delivers in order, at most once, without
  gaps until the reading end closes, and that may stop short at any time.
* `Mux` models `internal/mux` at both ends, goroutine by goroutine. `loop[e]` is
  the read loop with the frame it works on, `st[e][id]` says how far a stream's
  shutdown has come in the order of the statements of `Close` and `remoteClose`
  (closeCh closed, flag set, channels closed, Once left), `owner` who took the
  Once, `streamMu` the mutex where it is held across steps, `muxClose` each
  caller's progress through `Mux.Close`. A send on a closed channel and a double
  close are actions that kill the process, as they do. `OpenStream` is three
  steps, as other goroutines see it: the test of the connection (`OpenCheck`,
  after which `opening[e]` is `Entering`), the id and the entry in the table
  under the mutex (`OpenRegister`), the open frame (`OpenAnnounce`). Payloads are
  numbers; the encoding of frames is left out. `Mux` implements `MuxLanes`
  (`KeepsPromise`).
* `MuxProofs` holds the theorems about `Mux`, the refinement among them.
* `GatewayRpc` models calls over the control stream, using two lanes as
  `MuxLanes` promises them (a lane cut short is `ReadEOF`, which does not
  wait for the queue to be empty). It splits the closing of the stream the way
  `Mux` does, because `SendMsg` tests the flag and `readResponses` the channel.
  The other streams of the connection reach it in two ways. `blocked` holds the
  ends whose read loop waits to push into another stream's full channel: while an
  end is there it takes no message and does not see the connection's end.
  `sweep` is the pass of `Mux.Close`, which `SweepHangs` lets wait for ever for a
  stream whose `Close` waits for `streamMu`, the lock cycle of `Mux`.
* `GatewayProofs` holds the theorems about `GatewayRpc` and `Forwards`, the two
  users of a gateway connection, and extends both.
* `ServerState` models the port table. Each process `p` has its copy `mem[p]`;
  a save is a truncation and a write, as `os.WriteFile` is, and a shorter text
  over a longer one leaves a file that does not parse. `container[a]` is what
  docker knows. Names of apps have one length, so the length of the file is
  proportional to the number of entries.
* `ServerStateProofs` holds the theorems about `ServerState`.
* `HostSession` models the sessions of one app: the files of the host RPC
  directory, the container, and per session the restore queue with its one-slot
  channel, the docker exec, the handler of a restore request and the steps of
  `runInteractiveSession` and `performRestore`.
* `SessionProofs` holds the theorems about `HostSession` and `Session`, the two
  ends of a session, and extends both.
* `HomeVolume` models the volume of one app, one step per external command.
  A `@home` subvolume is a number with a version of the app's files, a container
  that runs has a `view` (the subvolume it was started on). It is the other side
  of the restore in `HostSession`, where the volume's part only works or fails.
  The failures of `umount` and `losetup`, which the code ignores, are outcomes of
  their steps (`UmountHome`, `UmountAll`, `DetachLoop`): a mount can outlive the
  `@home` it is of (`kept`, history) or the whole file (`Old`). What the kernel
  then does is a choice: `btrfs subvolume delete` may refuse a mounted subvolume
  or delete it, and the mount of a deleted one may still show the option
  `subvol=@home` that `ensureSubvolumeMounted` looks for, or not. The mount of
  `@snapshots` that `deleteHomeVolume` also looks for is left out: nothing makes
  it.
* `HomeVolumeProofs` holds the theorems about `HomeVolume`.
* `Branches` models the branch environments of one base app. App directories are
  functions from files to contents, a "file" being what git merges as one piece.
  `job` is the command under way with its next step `at`, the files `left` to
  copy or remove, and the trees it has committed. What git does is modelled from
  how the code calls it: `Commit` leaves out ignored files, `Merged` is the
  three-way merge and what it writes on a conflict, `MergeAllowed` its refusal to
  overwrite files edited since the checkout. The base's commit is on the git
  branch `Main`; a branch of that name has its commit on the same ref
  (`CommitBranch`). Users edit at any step; `Abort` ends a command at any step as
  an error return or a crash. `good` and `since` are history that only the
  properties read.
* `BranchesProofs` holds the theorems about `Branches`.
* `Forwards` models the app list from the host's `table` (the ports of the
  server state) to the client's `listening` sockets: `handleAppsStream` sends
  what changed since `lastSent`, `reader` is the goroutine of `startAppsStream`
  with its three selects on the one-slot channel `box`, `mgr` the loop of the
  forward manager, `forwards` its map, `refresh` the shell's own way to the same
  map (`syncFromSummaries`). `syncFromSnapshots` is one step, as the manager
  holds its mutex: a recursive function over the apps in the order of the list
  (`Syncing`). Ports can be taken by other programs. `consumeStream` ends in two
  steps, what it saw (`Consume`, `SeesStop`) and the deferred close of its stream
  (`CloseStream`). That close writes a frame and takes `streamMu`, so it waits
  while `stuck` holds, and opening a stream as well: frames do not go out, or the
  locks of the mux are taken, for a while or for good. `orphans` is history:
  listeners whose entry was dropped without closing them, as the code does when
  an app has no port.
* `Session` models `viberun attach` over several connections in a row: the main
  goroutine (`main`, in the order of `AttachSession.Run`), the callback of the open
  stream (`cb`), the gateway and session processes of each connection, the
  request a program in the container makes (`job`; `vrctl host attach` and
  `vrctl host branch`), and the paste of an image (`clip`, `put`, `reply`). It
  composes what `Mux` and `HostSession` model from the inside: a stream here is
  open or closed, a session runs or has ended. `clogged` says of a gateway that
  its read loop waits for good to push to the pty stream, because the copy to the
  terminal is stuck on a session that no longer reads it: such a gateway never
  sees the end of its connection.
* `AppUrls` models `proxy.toml` beside the server state, and what is posted to
  caddy: each command loads, changes, truncates, writes, loads the ports and
  posts, or saves the ports and then posts, as a process of its own. `Routes` is
  `BuildCaddyConfig`; `Admits` the decision of the login service. `granted` and
  `opened` are history, what users were promised. Two commands at once may tear
  `proxy.toml`; the server state is written in one step here, since
  `ServerState` models its tearing.
* `AppUrlsProofs` holds the theorems about `AppUrls`.
* `PromptFlows` is the four prompt machines as operators: `ApplyResult` gives the
  flows a dialog's answer can lead to, `ResultOf` what the shell then does. No
  state of its own; `Shell` has the flow in its record.
* `Shell` models the interactive shell: `sh` is `*shellState`, `flight` the bag of
  commands whose messages `Update` has not seen (they return in any order), `at`
  where `runShell`'s loop is. A message is an action, its early returns
  disjuncts; `Execute` is `executeShellCommand` with its deferral. Servers have
  names, which is what users type and the shell is set to (`Hosts`), and logins,
  which is what ssh and a gateway lead to (`Logins`); `Resolve` is the
  configuration's aliases and default user, `Login` is `ResolveHost`. `setup`
  hands ssh the name, everything else the login. A deletion is a process of its
  own (`dels`): it finds out its server, looks at the shell's host and gateway,
  connects if it must, which may put its gateway in the place of the shell's, and
  deletes. It goes on when ctrl+c has given the prompt back and when its program
  has ended. Where the code tests `state.gateway` and reads it again on the next
  line (`shell_actions.go:553-554`), the model reads it once. `deed` is history: what the last step did to which
  server, and what allowed it; `moved` says of a deletion that the shell was set
  to another server before the deletion looked.
* `ShellProofs` holds the theorems about `Shell` and the prompts it drives.
* `MCMux`, `MCGatewayRpc`, `MCServerState`, `MCHostSession`, `MCHomeVolume`,
  `MCBranches`, `MCForwards`, `MCSession`, `MCAppUrls`, `MCShell` are the
  instances for TLC.

## Runs

| Run | Instance | Shows |
| --- | --- | --- |
| `mux_safety` | one stream, two payloads one way, channels of 1, wire of 2 | `KeepsPromise`; ids are handed out once (in `TypeOK`); only this end's own close can make the read loop's send panic; `Mux.Close` leaves no stream open behind it; a sweep waits for no Once of its own goroutine (`SweepNotSelfBlocked`) |
| `mux_liveness` | one stream, one message, wire of 1 | a sent message is read, `Mux.Close` ends, unless the lock cycle (`LockCycle`) is entered |
| `gateway_rpc` | two callers, three calls | answers go to their callers, one result per channel, every call returns but for the two named kinds if the other streams do not hold up the connection for good |
| `server_state` | one process, three apps | unique ports, entries that match containers, no container without an entry unless the file was deleted |
| `host_session` | two sessions, two snapshots | the restore performed is the one accepted, detached before the swap; reachable while alone; an accepted restore keeps its token until it is taken (`AcceptedNotLost`), and ends |
| `home_volume` | one process at a time, all commands, four subvolumes, two versions, two snapshots | writes reach the home unless docker refused to stop or a restore deleted the home under a mount it could not remove, an empty home only after a restore cut short, restores deliver, commands leave a usable volume |
| `home_volume_two` | a restore and a snapshot listing | violated: the restore ends on an empty home |
| `branches` | one branch, one tracked and one ignored file, three edits, two applies | the base before an apply is never lost, `branch.json` stands for a whole copy, a first apply loses no edit and settles no conflict by itself, unless the branch is named `main` |
| `forwards` | two apps, two ports, one of them contended, two table changes, one refresh, two managers | every listener belongs to one entry or is one of the dropped; the newest list is under way or applied (`NewestListKept`), and the forwards come to follow the table; `Stop` returns unless the connection stays stuck |
| `session` | two connections, two requests, one event in flight, one paste | a request to switch is not lost around `ptyStream` (`RequestNotLost`) and followed; a session process has a gateway to end with (`SessionHasGateway`), and none stays behind but with a clogged gateway; a path is typed only after its upload and into its session |
| `app_urls` | two apps, two users, two processes, three commands, one fault | a command that ran alone leaves caddy with what the files say, whatever went before; nobody reaches an app who was not let in |
| `shell` | two names for two servers, one an alias, three lines, two deletions at a time, one stream event | a wipe only after its whole confirmation and by the name confirmed, a deletion on the server it was confirmed for, the `syncing` and startup flags up only while something will take them down |

Why the bounds are enough. In `Mux` every hazard is between two or three
goroutines and one stream (or one stream and `Mux.Close`); channels of 1 make
full channels normal; two payloads show reordering, loss and duplication. The
wire holds 2 so that a close frame and a payload can be in flight together.
After the connection broke the ends have nothing in common, so the instance
explores one order of their remaining steps (`ServerFirstWhenDown`). Only the client
calls `OpenStream` (`gateway.go`, `attach.go`, `apps_stream.go`,
`mux_forward.go`, `gateway_upload.go`; nothing in `cmd/viberun-server` does), so
`Openers` is the client. One stream does not show a full channel holding up another
stream; a second multiplies the states beyond a run's time. In `GatewayRpc` three calls by two callers give one a second call
while the other's is still in flight. In `ServerState` three apps let one be
deleted between two that stay, which is when "first free" differs from "next";
`Ports` has one port more than apps, all the assignment can reach. In
`HomeVolume` four subvolumes allow three restores in a row; the `VIEW` of the
instance forgets the files of subvolumes nothing leads to any more, and the last
command of an idle process. In `Branches` git merges file by file, so one tracked
file has every combination of the three sides (absent counts as a content), and
the ignored one shows what the sync carries along; two applies are a failed one
and its rerun, three edits are one on each side and one after. In `Forwards` the
table starts empty, so two changes make an app come and move to another port
(when the old listener must be closed), come and go, or bring a second app, and
the second list can reach the slot while the first is in it. In `Session` two
connections are one switch, with the first gateway still about. In `AppUrls` the
apps are interchangeable, the first primary user is always the same one, and
`Bounds` lets only the first two of three commands overlap, without a fault then: the
third shows what a command alone makes of what they left. In `Shell` one name is
its own login and the other an alias for the second server, which is enough to
tell a name from its login; three lines are enough for a deferred line, one that
changes the server and one that opens a prompt or confirms a deletion, and two
deletions for one that replaces the gateway another has looked at. It is the
largest instance, some 1.5 million states.

Deadlock is checked in `server_state` and `host_session`. It
is off in `mux_*` and `gateway_rpc` (a connection that is closed is at its end,
and the lock cycle of `Mux` is named and followed by the liveness properties)
and in `home_volume` and `branches` (the bounds on versions, snapshots, edits and
applies end a behaviour; in `Branches` a torn `branch.json` does too, since
neither a creation nor a deletion goes past it), and in `forwards`, `session`,
`app_urls` and `shell`, where the program ends or the bounds on changes,
connections, commands and lines are used up.

Each property is also run against a mutant of the code, defined next to the
definition it replaces ("Mutant: ..."), and is violated by it.

### Fairness

`Mux`: the Go scheduler runs every goroutine that can run, so each read loop,
each reader, each closer that has begun has weak fairness; users are not
obliged to open, send or close. `HostSession`: a session's main goroutine goes on
and docker and btrfs commands end; users and programs in the container owe
nothing.

What goes over a shared connection is only as live as its other streams let it
be, and the code does not keep them from holding it up: a read loop blocks on one
full channel (`stream.go:119`), and a `Close` can wait for the peer or in the
lock cycle (`stream.go:98-110`, `mux.go:83-86`). The liveness properties of the
components above the multiplexer say so themselves:

* `GatewayRpc`: callers, readers and a command the gateway runs go on; the
  replies, the server's steps and the written close frame are fair only while
  `Unhindered` (no read loop blocked, no sweep hung), and the sweep, the blocked
  loops and a request's write owe nothing. `CallReturns` has `<>[]Unhindered` as
  its premise. Without it a call in flight may wait for ever, and does in the
  model.
* `Forwards`: the poll, whose ticker goes off every two seconds, and the reader
  are fair while nothing is `stuck`; the manager goes on where it can.
  `ForwardsFollowTable` and `StopReturns` are for a connection that does not stay
  stuck: otherwise the manager stays in the deferred close of its stream, and
  `Stop` and the shell that waits for it with it. Nobody need change the table,
  stop the manager or keep the connection up.
* `Session`: the client's main goroutine and the callback, and the exit of a
  gateway whose connection is gone, unless it is `clogged`, which
  `NoSessionLeftBehind` names as its exception: then the session process stays
  for as long as it does not read its terminal. A user need not leave, a program
  need not ask, a connection need not break. On the client's side the frame that
  `ptyStream.Close` writes before it closes is taken not to block.

No strong fairness is assumed anywhere. `ServerState`, `HomeVolume`, `Branches`,
`AppUrls` and `Shell` state safety only: a command may die anywhere, and the
shell's results may be as late as the network makes them.

## What is proved

The theorems hold for every value of the constants that the named assumption of
the module allows; TLC evaluates each assumption in the runs. None of the
properties is inductive by itself. Each proof states an inductive invariant as a
conjunction of named parts, shows that `Init` establishes it and that every
action preserves it, one lemma per action, and reads the theorems off it. TLC
has checked the conjuncts on the instance of the run before they were proved. The
type invariants of `ServerState`, `HomeVolume`, `Branches`, `Session`, `AppUrls`
and `Shell` are proved and no longer in a cfg: the parts of the inductive
invariants are stated over them, and the runs ask what is not about types.

**`MuxProofs`**, for any `MaxId`, channel and wire lengths and number of
payloads, either end opening and writing (`MuxAssumption`):

* `Typing`: Spec => []TypeOK, which says that ids are handed out once.
* `PushSafe`: Spec => []PeerCannotPanicPush.
* `Promised`: Spec => KeepsPromise, the step simulation of `MuxLanes`: every step
  of a goroutine is a step of one lane or leaves the lanes alone.
* `SweepWaits`: Spec => []SweepNotSelfBlocked.
* `NothingOutlives`: Spec => []NoStreamOutlivesMux, where only the client opens
  streams, as in the program. If both ends opened, the peer's open frame could
  come in after the sweep of an application's `Mux.Close`.

`MuxInv` has four parts. `Types`. `IdInv`: an end's own ids have the parity of
the end and are below `nextID` exactly when they have a stream (`OwnIds`), an
open frame is on the wire once and for a stream the receiver does not have
(`OpenFrames`), any other frame comes behind it (`LaterFrames`), a stream one
end can send on is one the other knows or is about to (`Known`), and nobody
writes to an end that has stopped reading (`Deaf`). `StageInv`: who holds the
Once of a stream at which point of its shutdown. `LaneInv`: what the channel,
the read loop's hand and the wire hold of a lane is in order (`Order`) and, as
long as the reading end is open, without a gap (`Gapless`). The lanes of
`MuxLanes` are functions of these, so the simulation needs no history.
`SweepInv` adds that after a sweep the only open stream is one whose open frame
cannot be written any more. `CloserInv` says that whoever sweeps is who has
`streamMu`, after closing `m.closed`, and that the read loop calls `Mux.Close`
only when it has stopped; with `StageInv`, a Once the loop has taken is then left.

**`GatewayProofs`**, about `GatewayRpc`, for any set of callers and any
`MaxCalls` (`RpcAssumption`):

* `Typing`: Spec => []TypeOK.
* `OwnAnswer`: Spec => []AnswersItsCaller.
* `OneResult`: Spec => []OneResultPerCall.
* `OnlyLateStranded`: Spec => []OnlyLateCallsStranded, for as long as
  `readResponses` is gone; what holds up the connection does not matter to it.

The invariant `IInv` adds what ties a message to its caller: `Carried` collects
everything that names a call (the requests and replies in flight and the one
being served), `Fresh` says it names only ids handed out, `Owned` that it and
the results in the channels belong to the caller that registered the id, and
`Tracked` what is in `pending` and in the channel at each point of a call. A
response can then only be for the call whose channel it enters.

And about `Forwards`, for any list of apps, any ports, any of them contended,
and any bounds (`ForwardsAssumption`):

* `ForwardsTyping`: ForwardsSpec => []ForwardsTypeOK.
* `Listeners`: ForwardsSpec => []ListenersAccountedFor.
* `Newest`: ForwardsSpec => []NewestListKept.

`Accounted` says of a map of forwards and a set of listeners what the property
says of the variables, so that it can be said of the intermediate results of
`syncFromSnapshots` too: `CloseUnlistedKept` and `SyncAppKept` show it for the
first loop and for one pass of the second, `SyncedKept` for the whole by
induction over the list. `SyncingIs` shows that the recursive function exists at
all. Both inductions go through a least counterexample (`LeastNumber`, from the
library's `WFMin`). `Told` says that a manager that has stopped was told to, so
that the shell, which waits for it, has no refresh to apply. For `Newest`,
`SyncedSets` shows by the same induction that a list which knows every port
leaves every entry with its port; `Sending` adds what makes the property
inductive: nothing is under way without a manager that reads it, a reader in its
third select finds the slot empty, and none receives after an error.

**`ServerStateProofs`**, for any finite set of apps and any base port
(`StateAssumption`):

* `Typing`: Spec => []TypeOK, for any number of commands at once: a table only
  holds ports from the range that the assignment can reach. `SomePortFree` and
  `LeastPort` show, by counting, that among the first n + 1 ports one is free
  and that the code's search finds the least.
* `PortsDistinct`: Spec /\ []OneAtATime => []UniquePorts.
* `EntriesTrue`: Spec /\ []OneAtATime => []EntryMatchesContainer.

`OneAtATime`, no two commands under way together, is what the code is written
for and does nothing to ensure; two commands do break `UniquePorts` (see "What
the code does not do"). Everything else may happen: a command may die at any
step, the file may be torn or deleted, any container may stop.
`SoundInv` says of a table that its ports are distinct and those of docker's
containers, and that a container it has lost holds no port of another
(`Sound`), and says it of the file (`FileSound`) and of what the command has in
memory (`InMemory`); `OnDisk` says at which steps the two agree, `InDocker` what
the command still knows of its container, `Bound` that docker binds a port once.

**`SessionProofs`**, about `HostSession`, for any sets of sessions and snapshots
(`SessionAssumption`):

* `Typing`: Spec => []TypeOK.
* `InOrder`: Spec => []RestoreInOrder.
* `BridgeAlone`: Spec => []ReachableAlone.
* `Accepted`: Spec => []AcceptedNotLost.

`QueueSound` says that the fields of the restore queue change together and that
its channel is empty while a restore is performed. `Noticed` says that two
sessions that are there together both know it (`shared`), `BridgeUp` which of
the files a session that was never shared finds to be its own at each step.
`AcceptedNotLost` needs the types alone.

And about `Session`, for any bounds (`AttachAssumption`):

* `AttachTyping`: AttachSpec => []AttachTypeOK.
* `PathUploaded`: AttachSpec => []PathAfterUpload.
* `NotLost`: AttachSpec => []RequestNotLost.
* `HasGateway`: AttachSpec => []SessionHasGateway.

A stream that ends without a result counts as success in `waitForUpload`, so the
property rests on two facts: no pty is open over a connection that is down
(`DownClosed`), and the connection of the paste is never one the client is about
to open a pty on (`PasteBehind`). `PasteAt` then says at each step that the
upload has ended or nothing can be typed. The types are proved part by part
(`TypeParts`): a request that is sent names an app, which keeps `inbox` and `cb`
typed. `RequestNotLost` needs `PtyUsed`: past `OpenPty` there is a pty, and past
`AssignPty` the variable says so, so a request the callback notes too late for
`CheckRequest` is one whose callback will find `ptyStream` set. `HasGateway`
needs `LinkUse`: connections before the one in use are down, those after it were
never made, and nothing runs where no connection was made.

**`HomeVolumeProofs`**, for any bounds and any of the commands
(`VolumeAssumption`), all under []OneAtATime, as above:

* `Typing`: []TypeOK, which says that `@home` and the root volume are mounted
  from the loop device of a file with a filesystem, unless that file was removed,
  and is therefore about the order of steps too.
* `HomeKept`: []WritesReachHome.
* `Delivered`: []RestoreDelivers.
* `LeftUsable`: []UsableBetweenCommands.

Any step may fail, the calls whose failure the code ignores included, and any
command may die. `VolumeInv` has `Stack` (what is mounted lies on a loop device
with a filesystem, and is `@home` or was left by an umount that failed before
`@home` was deleted), `HalfDone` (an absent home, a paused container, a blank
file have somebody who is at it or died at it) and `Achieved`, what a command
has reached by each of its steps. What two commands do is the run `home_volume_two`.

**`BranchesProofs`**, for any finite set of files, any set of ignored files, any
branches and contents and any bounds (`BranchAssumption`):

* `Recoverable`: Spec => []BaseRecoverable. Not inductive alone, since an edit
  that races with an apply changes the base without changing what the apply
  must keep: `BackedUp` adds that an apply past its snapshot has it among the
  snapshots, and one before it has changed nothing.
* `Typing`: Spec => []TypeOK, with the fact that an apply has a volume to work on.
* `CompleteCopies`: Spec => BranchIsCopy. `Bare` says a volume that does not
  exist is empty, `Filling` that a creation has copied every file but those left
  to copy; an edit cannot interfere, because no one works in a branch before its
  `branch.json`.
* `FirstEdits`: Spec => FirstApplyKeepsEdits, for every branch not named `main`
  (see `EveryNameKeepsEdits` below). `Recorded` says that the history
  names every file that differs from the snapshot the branch was made from,
  `Found` that an apply has found both sides so, `Undisturbed` what has become of
  that at each step if nobody edits meanwhile: the commits stand for it, the
  branch holds the merge, and the base is the branch but for the files left. The
  rest is a fact about three-way merges (`SameMerge`): a file changed on one
  side only has that side's content.

**`AppUrlsProofs`**, for any finite sets of apps and ports, any users, processes
and bounds (`AppUrlsAssumption`):

* `Typing`: Spec => []TypeOK.
* `FollowsFiles`: Spec => []RoutesFollowFiles.
* `ReachedAsked`: Spec => []ReachedAsAsked.

`Solo` says of a command that has run alone so far that what it loaded is still
what the files hold, step by step (`UpToDate`), and of any command that has
changed something (`Dirty`) that caddy is not settled. `Asked` says, as long as
no two commands overlapped, that the file and the configuration in a command's
hands give no access beyond `granted` and `opened`, as they are or, past the
change, as they will be.

**`ShellProofs`**, for any names and logins, any aliases, any number of deletions
at a time and any order of results (`ShellAssumption`):

* `Typing`: Spec => []TypeOK.
* `WipesAsked`: Spec => []WipedAsAsked.
* `DeletesThere`: Spec => []DeletedAsConfirmed.
* `FlagTruthful`: Spec => []SyncFlagIsTrue.

`FlowOK` is the invariant of a prompt: at the step that asks for the token the
confirmation was given, and a plan that wipes names the flow's own host and has
both answers; a lemma per prompt machine shows that `ApplyResult` keeps it.
`PlanFit` carries it from the prompt to the action `runShell` performs, and with
it that the shell is still set to the name a setup prompt was opened with, which
takes that no line can be typed while one is open. `DelsFit` says of a deletion
at each of its steps what it is aimed at (`Aimed`): past its first step its login
is the one its server stands for, unless the shell was moved before, and past the
check the gateway in its hand leads to that login, whatever has become of the
shell's since. `FlagTrue` says that a command which will take the flag down is under way, and
only one: each handler is shown to leave the flag alone, to launch the one sync,
or to take it down (`Handled`). `Starting` is needed for the startup: nothing
else is under way then.

## Only model-checked

For the sizes above:

* Liveness, which the prover does not do: `SentIsRead`, `MuxCloseEnds`,
  `CallReturns`, `RestoreEnds`, `ForwardsFollowTable`, `StopReturns`,
  `RequestIsFollowed`, `NoSessionLeftBehind`. What has to be true at each moment
  for them is stated as an invariant of its own and proved where one says
  something new: `KeepsPromise` and `SweepNotSelfBlocked` for the first two,
  `OnlyLateCallsStranded`, `AcceptedNotLost`, `NewestListKept`, `RequestNotLost`
  and `SessionHasGateway` for the others. What remains of each is that fair
  steps are taken.
* What recursive definitions compute is proved where it is needed, through
  `LeastNumber`, as the provers cannot use the library's induction theorems.

## What the code does not do

One run ends in a counterexample, `home_volume_two`: a restore with a listing
beside it succeeds and leaves an empty home.

The following definitions say what a document or a comment says, and TLC refutes
each one; they are kept beside the properties, marked "Known not to hold". To see
the counterexample, put the definition into the cfg named here in place of its
invariants and properties.

| Definition | Says | Where it says so | Refuted with |
| --- | --- | --- | --- |
| `ServerState!UniquePorts`, two processes | the port is assigned per app | README.md:279 | `MCServerState.cfg`, `Procs <- TwoProcs`, `Apps <- TwoApps` |
| `HostSession!BridgeWhileOpen` | a session can be reached from the container | README.md:323 | `MCHostSession.cfg` |
| `Branches!ResolvedApplies` | after a conflict is resolved the rerun applies | config/AGENTS.app.md:62 | `MCBranches.cfg`, `Files = {code}`, `Ignored = {}`, `Versions = {v1, v2, v3}` |
| `Session!PathNamesImage` | the path Ctrl-V inserts is that of the uploaded image | README.md:78 | `MCSession.cfg`, `SPECIFICATION AttachSpec` |
| `Session!DeleteThisBranch` | a branch can be deleted from inside it | config/AGENTS.app.md:56, against hostrpc.go:396-419 | `MCSession.cfg`, `SPECIFICATION AttachSpec` |
| `AppUrls!NewAppNeedsLogin` | access requires login by default | README.md:281 | `MCAppUrls.cfg` |
| `Branches!EveryNameKeepsEdits` | base and branch are merged | docs/plans/2026-01-25-branch-envs-plan.md:7 | `MCBranches.cfg`, `Names <- NamedMain` |
| `HomeVolume!RestoredIsUsed` | the current `@home` is replaced by the snapshot, for the app too | README.md:318, against btrfs_snapshot.go:56 | `MCHomeVolume.cfg` |
| `HomeVolume!NothingLeftMounted` | a deleted app leaves nothing mounted | btrfs_home.go:343-355 | `MCHomeVolume.cfg` |
| `Shell!SetupWipesHere` | the server setup wipes is the one the shell is connected to under that name | prompt_flow.go:171 and shell_setup.go:51, against target.go:58-70 | `MCShell.cfg` |
| `Shell!DeletedThere` | an app is deleted on the server the shell was set to when it was confirmed | shell_model.go:264-268, against shell_actions.go:348-352 | `MCShell.cfg` |
| `Shell!DeferredIsServed` | a command waits for the initial sync to complete | shell_registry.go:27 | `MCShell.cfg` |
| `Shell!RunsHere` | a command runs on the server the shell is set to | shell_commands.go:1125, :1163 against `ensureShellGatewayForHost` | `MCShell.cfg` |

The branch named `main` is worth a word: nothing refuses it (`branch.go:15-22`),
and `buildShadowCommits` pushes the base's commit to `refs/heads/main` and then
the branch's to the ref of its name (`branch_apply.go:156,183-186`). The merge is
of main with itself, the apply succeeds, and what the base had changed since the
branch was made is gone from it, without a conflict; only the snapshot taken
before the apply has it (`BaseRecoverable` holds for every name).

Further behaviour the models have and the properties name as exceptions: the
send on a closed channel and the double close of `Mux` end the process
(`PushPanics`, `MuxCloseSignal`); the lock cycle between `Stream.Close` and
`Mux.Close`; calls that are never answered (`late`, `tooLarge`, and any while
the connection is held up); a `Stop` that waits for a stuck close; a session
process kept by a gateway whose read loop waits for that process's terminal
(`clogged`); an empty home after a restore that was cut short; a container on a
deleted `@home` after a failed umount (`kept`); the base's edits, lost to a
branch named `main`; a branch's change taken back after a first apply, which the
next apply restores; ignored files of the base, which an apply
replaces by the branch's; a paused container or a volume without a filesystem
after a command died at the wrong moment; listeners of apps whose port could not
be found out, which stay open until the shell ends (`orphans`); a list the
shell's refresh applies after a newer one of the stream (`lastBy`); two apps that
claim the custom domain (`OneClaim`); a proxy that an empty `proxy.toml` turns
off while caddy goes on serving; a `syncing` flag that a failed start or a result
swallowed by a prompt leaves up (`stranded`).

## Not modelled

`AppUrls` writes the server state in one step; `ServerState` has its tearing and
its lost updates. Text: frame encoding, JSON, TOML, names, banners, themes, what
commands print.
Ownership and ACLs of the home. The ssh process of a gateway, terminal modes and
resizing. The bytes of forwarded connections. Cookies, certificates and
redirects of the login service (no state between requests). Update check, host
setup and wipe (straight-line commands; what asks for a wipe is modelled). The
removal of the client's configuration by a wipe. In the shell: history, theme,
`cd -`, and the goroutines of a program that has ended, whose messages nobody
reads, except deletions. Two clients' shells. Several branch commands at once (the repository's
HEAD, index and refs as shared state), the base app removed beneath a branch
command, opening a branch whose creation was cut short. Two processes that both
create a volume.

## Plan

1. `Branches` with several commands at once.
2. A larger `Mux` instance with two streams.
