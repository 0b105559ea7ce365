---------------------------- MODULE HostSession ----------------------------
(***************************************************************************)
(* Interactive sessions of one app on the host: each is a `viberun-server  *)
(* <app>` process that starts the host RPC server (startHostRPC), attaches *)
(* to the container (runInteractiveSession) and performs the restores the  *)
(* container asks for through that server (restoreQueue, performRestore).  *)
(*                                                                         *)
(* In one process run the session loop, the docker exec it waits for, and  *)
(* an HTTP handler.  Processes share the container and the files of the    *)
(* host RPC directory, a socket and a token, with no coordination.  The    *)
(* volume's side of a restore is in HomeVolume; here it works or fails.    *)
(***************************************************************************)
CONSTANTS
  Sessions,   \* server processes with a session of the app
  Refs        \* snapshots of the app

ASSUME SessionAssumption == "none" \notin Sessions \cup Refs

None == "none"

VARIABLES
  container,   \* "running" or "stopped"
  socket,      \* whose listener rpc.sock leads to
  token,       \* whose token is in the token file
  pc,          \* pc[s]: where the session's main goroutine is
  exec,        \* exec[s]: its docker exec: "none", "running", "done"
  inProgress,  \* restoreQueue.inProgress
  ref,         \* restoreQueue.ref
  full,        \* restoreQueue.ch holds its token
  cur,         \* cur[s]: the ref performRestore works on
  handler,     \* handler[s]: ref of the restore request being handled
  shared       \* history: another session of the app overlapped with s

queue == <<inProgress, ref, full>>
rpc == <<socket, token, handler>>
vars == <<container, rpc, pc, exec, queue, cur, shared>>

Init ==
  /\ container \in {"running", "stopped"}
  /\ socket = None /\ token = None
  /\ pc = [s \in Sessions |-> "off"]
  /\ exec = [s \in Sessions |-> "none"]
  /\ inProgress = [s \in Sessions |-> FALSE]
  /\ ref = [s \in Sessions |-> None]
  /\ full = [s \in Sessions |-> FALSE]
  /\ cur = [s \in Sessions |-> None]
  /\ handler = [s \in Sessions |-> None]
  /\ shared = [s \in Sessions |-> FALSE]

Gone == {"off", "killed"}
Restoring == {"stop", "drain", "restop", "swap", "restart", "restored", "failed"}
Attached == {"loop", "wait", "await"} \cup Restoring

Goto(s, l) == pc' = [pc EXCEPT ![s] = l]
\* docker stop ends every docker exec in the container.
StopContainer ==
  /\ container' = "stopped"
  /\ exec' = [s \in Sessions |-> IF exec[s] = "running" THEN "done" ELSE exec[s]]

-----------------------------------------------------------------------------
(* The start of a session                                                  *)

\* newRestoreQueue, or a process that is no more.
EmptyQueue(s) ==
  /\ inProgress' = [inProgress EXCEPT ![s] = FALSE]
  /\ ref' = [ref EXCEPT ![s] = None]
  /\ full' = [full EXCEPT ![s] = FALSE]

\* A client opens the app: runServer looks whether the container runs.
Open(s) ==
  /\ pc[s] \in Gone
  /\ Goto(s, IF container = "running" THEN "rpc" ELSE "start")
  /\ EmptyQueue(s)
  /\ UNCHANGED cur
  /\ LET others == {t \in Sessions \ {s} : pc[t] \notin Gone} IN
       shared' = [t \in Sessions |-> IF t = s THEN others # {}
                                     ELSE shared[t] \/ t \in others]
  /\ UNCHANGED <<container, rpc, exec>>

DockerStart(s) ==
  /\ pc[s] = "start"
  /\ \/ container' = "running" /\ Goto(s, "rpc")
     \/ UNCHANGED container /\ Goto(s, "off")
  /\ UNCHANGED <<rpc, exec, queue, cur, shared>>

\* startHostRPC: the old socket is removed, whoever listens there; ...
RemoveSocket(s) ==
  /\ pc[s] = "rpc"
  /\ IF container = "running"
     THEN socket' = None /\ Goto(s, "token")
     ELSE UNCHANGED socket /\ Goto(s, "off")
  /\ UNCHANGED <<container, token, handler, exec, queue, cur, shared>>

\* ... the token file is overwritten; ...
WriteToken(s) ==
  /\ pc[s] = "token"
  /\ token' = s
  /\ Goto(s, "listen")
  /\ UNCHANGED <<container, socket, handler, exec, queue, cur, shared>>

\* Mutant: the listener is not started on the path of the socket.
ListenElsewhere(s) ==
  /\ pc[s] = "listen"
  /\ Goto(s, "agent")
  /\ UNCHANGED <<socket, container, token, handler, exec, queue, cur, shared>>

\* ... and the socket is made, which fails when the path exists again.
Listen(s) ==
  /\ pc[s] = "listen"
  /\ IF socket = None
     THEN socket' = s /\ Goto(s, "agent")
     ELSE UNCHANGED socket /\ Goto(s, "off")
  /\ UNCHANGED <<container, token, handler, exec, queue, cur, shared>>

\* checkCustomAgent
CheckAgent(s) ==
  /\ pc[s] = "agent"
  /\ Goto(s, "loop") \/ Goto(s, "unlink")
  /\ UNCHANGED <<container, rpc, exec, queue, cur, shared>>

-----------------------------------------------------------------------------
(* The host RPC server                                                     *)

Serving(s) == pc[s] \in Attached \cup {"agent"}

\* A program in the container reads the token file and posts /restore; the
\* server that answers is the one the socket leads to.
Request(s, r) ==
  /\ container = "running" /\ socket = s /\ Serving(s)
  /\ token = s
  /\ handler[s] = None
  /\ handler' = [handler EXCEPT ![s] = r]
  /\ UNCHANGED <<container, socket, token, pc, exec, queue, cur, shared>>

\* handleRestore's restoreFn: Enqueue under the queue's lock; refused with
\* errRestoreInProgress.
Enqueue(s) ==
  /\ handler[s] # None /\ pc[s] \notin Gone
  /\ handler' = [handler EXCEPT ![s] = None]
  /\ IF inProgress[s]
     THEN UNCHANGED queue
     ELSE /\ inProgress' = [inProgress EXCEPT ![s] = TRUE]
          /\ ref' = [ref EXCEPT ![s] = handler[s]]
          /\ full' = [full EXCEPT ![s] = TRUE]
  /\ UNCHANGED <<container, socket, token, pc, exec, cur, shared>>

-----------------------------------------------------------------------------
(* runInteractiveSession                                                   *)

\* The head of the loop: docker exec, which fails when nothing runs.
Exec(s) ==
  /\ pc[s] = "loop"
  /\ exec' = [exec EXCEPT ![s] = IF container = "running" THEN "running" ELSE "done"]
  /\ Goto(s, "wait")
  /\ UNCHANGED <<container, rpc, queue, cur, shared>>

\* The user detaches, or the agent exits.
ExecEnds(s) ==
  /\ exec[s] = "running"
  /\ exec' = [exec EXCEPT ![s] = "done"]
  /\ UNCHANGED <<container, rpc, pc, queue, cur, shared>>

\* The select receives the queue's token while the exec may still run.
TakeRestore(s) ==
  /\ pc[s] = "wait" /\ full[s]
  /\ full' = [full EXCEPT ![s] = FALSE]
  /\ cur' = [cur EXCEPT ![s] = ref[s]]
  /\ Goto(s, "stop")
  /\ UNCHANGED <<container, rpc, exec, inProgress, ref, shared>>

\* performRestore: docker stop, its failure ignored, ...
StopForRestore(s) ==
  /\ pc[s] = "stop"
  /\ StopContainer \/ UNCHANGED <<container, exec>>
  /\ Goto(s, "drain")
  /\ UNCHANGED <<rpc, queue, cur, shared>>

\* Mutant: performRestore does not wait for the exec.
DrainAtOnce(s) ==
  /\ pc[s] = "drain"
  /\ Goto(s, "restop")
  /\ UNCHANGED <<container, rpc, exec, queue, cur, shared>>

\* ... then the exec's end is awaited.
Drain(s) ==
  /\ pc[s] = "drain" /\ exec[s] = "done"
  /\ Goto(s, "restop")
  /\ UNCHANGED <<container, rpc, exec, queue, cur, shared>>

\* Mutant: the queue's token is left behind.
ExecDoneKeepingToken(s) ==
  /\ pc[s] = "wait" /\ exec[s] = "done"
  /\ IF inProgress[s]
     THEN /\ cur' = [cur EXCEPT ![s] = ref[s]]
          /\ Goto(s, "restop")
     ELSE /\ Goto(s, "unlink")
          /\ UNCHANGED cur
  /\ UNCHANGED <<container, rpc, exec, inProgress, ref, full, shared>>

\* The select receives the exec's end: a pending restore is performed, else
\* the session is over.
ExecDone(s) ==
  /\ pc[s] = "wait" /\ exec[s] = "done"
  /\ IF inProgress[s]
     THEN /\ full' = [full EXCEPT ![s] = FALSE]
          /\ cur' = [cur EXCEPT ![s] = ref[s]]
          /\ Goto(s, "restop")
     ELSE /\ Goto(s, "unlink")
          /\ UNCHANGED <<full, cur>>
  /\ UNCHANGED <<container, rpc, exec, inProgress, ref, shared>>

\* restoreSnapshot: volume and snapshot are looked up, the container is
\* stopped again, the volume replaced, the container started.
RestoreStop(s) ==
  /\ pc[s] = "restop"
  /\ \/ (StopContainer \/ UNCHANGED <<container, exec>>) /\ Goto(s, "swap")
     \/ UNCHANGED <<container, exec>> /\ Goto(s, "failed")
  /\ UNCHANGED <<rpc, queue, cur, shared>>

RestoreSwap(s) ==
  /\ pc[s] = "swap"
  /\ Goto(s, "restart") \/ Goto(s, "failed")
  /\ UNCHANGED <<container, rpc, exec, queue, cur, shared>>

RestoreStart(s) ==
  /\ pc[s] = "restart"
  /\ \/ container' = "running" /\ Goto(s, "restored")
     \/ UNCHANGED container /\ Goto(s, "failed")
  /\ UNCHANGED <<rpc, exec, queue, cur, shared>>

\* Mutant: a successful restore does not call Finish.
FinishOnlyFailed(s) ==
  /\ pc[s] \in {"restored", "failed"}
  /\ IF pc[s] = "failed"
     THEN /\ inProgress' = [inProgress EXCEPT ![s] = FALSE]
          /\ ref' = [ref EXCEPT ![s] = None]
     ELSE UNCHANGED <<inProgress, ref>>
  /\ cur' = [cur EXCEPT ![s] = None]
  /\ Goto(s, IF pc[s] = "restored" THEN "await" ELSE "unlink")
  /\ UNCHANGED <<container, rpc, exec, full, shared>>

\* restores.Finish(), after success and failure alike.
Finish(s) ==
  /\ pc[s] \in {"restored", "failed"}
  /\ inProgress' = [inProgress EXCEPT ![s] = FALSE]
  /\ ref' = [ref EXCEPT ![s] = None]
  /\ cur' = [cur EXCEPT ![s] = None]
  /\ Goto(s, IF pc[s] = "restored" THEN "await" ELSE "unlink")
  /\ UNCHANGED <<container, rpc, exec, full, shared>>

\* waitForContainerRunning: around the loop again, or 30 seconds are over.
AwaitRunning(s) ==
  /\ pc[s] = "await"
  /\ Goto(s, IF container = "running" THEN "loop" ELSE "unlink")
  /\ UNCHANGED <<container, rpc, exec, queue, cur, shared>>

-----------------------------------------------------------------------------
(* The end of a session                                                    *)

\* hostRPCServer.Close: closing the listener unlinks the path it was made
\* with, whoever listens there now; ...
Unlink(s) ==
  /\ pc[s] = "unlink"
  /\ socket' = None
  /\ Goto(s, "untoken")
  /\ UNCHANGED <<container, token, handler, exec, queue, cur, shared>>

\* ... a handler still running has a second to end; the token file is
\* removed, and the process exits.
RemoveToken(s) ==
  /\ pc[s] = "untoken"
  /\ token' = None
  /\ handler' = [handler EXCEPT ![s] = None]
  /\ exec' = [exec EXCEPT ![s] = "none"]
  /\ Goto(s, "off")
  /\ UNCHANGED <<container, socket, queue, cur, shared>>

\* The gateway is gone and the process gets SIGHUP: nothing is cleaned up.
Killed(s) ==
  /\ pc[s] \notin Gone
  /\ Goto(s, "killed")
  /\ handler' = [handler EXCEPT ![s] = None]
  /\ exec' = [exec EXCEPT ![s] = "none"]
  /\ EmptyQueue(s) /\ cur' = [cur EXCEPT ![s] = None]
  /\ UNCHANGED <<container, socket, token, shared>>

\* Another command, a crash or a reboot stops the container, or a command
\* starts it.
ContainerStops ==
  /\ container = "running"
  /\ StopContainer
  /\ UNCHANGED <<rpc, pc, queue, cur, shared>>
ContainerStarts ==
  /\ container = "stopped"
  /\ container' = "running"
  /\ UNCHANGED <<rpc, pc, exec, queue, cur, shared>>

-----------------------------------------------------------------------------
StartStep(s) ==
  DockerStart(s) \/ RemoveSocket(s) \/ WriteToken(s) \/ Listen(s) \/ CheckAgent(s)
LoopStep(s) ==
  \/ Exec(s) \/ TakeRestore(s) \/ ExecDone(s) \/ StopForRestore(s) \/ Drain(s)
  \/ RestoreStop(s) \/ RestoreSwap(s) \/ RestoreStart(s) \/ Finish(s) \/ AwaitRunning(s)
EndStep(s) == Unlink(s) \/ RemoveToken(s)
Main(s) == StartStep(s) \/ LoopStep(s) \/ EndStep(s)

Next ==
  \/ \E s \in Sessions :
       \/ Open(s) \/ Main(s) \/ ExecEnds(s) \/ Enqueue(s) \/ Killed(s)
       \/ \E r \in Refs : Request(s, r)
  \/ ContainerStops \/ ContainerStarts

Spec == Init /\ [][Next]_vars

\* The main goroutine goes on when it can; docker and btrfs commands end.
FairSpec == Spec /\ \A s \in Sessions : WF_vars(Main(s))

-----------------------------------------------------------------------------
(* Properties                                                              *)

\* Every variable has its type, and the queue holds a token only for a restore
\* that was accepted.
TypeOK ==
  /\ container \in {"running", "stopped"}
  /\ socket \in Sessions \cup {None} /\ token \in Sessions \cup {None}
  /\ pc \in [Sessions -> Gone \cup Attached \cup
              {"start", "rpc", "token", "listen", "agent", "unlink", "untoken"}]
  /\ exec \in [Sessions -> {"none", "running", "done"}]
  /\ inProgress \in [Sessions -> BOOLEAN] /\ full \in [Sessions -> BOOLEAN]
  /\ ref \in [Sessions -> Refs \cup {None}] /\ cur \in [Sessions -> Refs \cup {None}]
  /\ handler \in [Sessions -> Refs \cup {None}]
  /\ shared \in [Sessions -> BOOLEAN]
  /\ \A s \in Sessions : full[s] => inProgress[s] /\ ref[s] # None

\* The ref a session restores is the one whose request it accepted, and
\* stays so until Finish, whatever requests arrive meanwhile; and the session
\* has detached from the container before it replaces the volume.
RestoreInOrder ==
  \A s \in Sessions :
    /\ pc[s] \in Restoring => inProgress[s] /\ cur[s] # None /\ cur[s] = ref[s]
    /\ pc[s] \in {"restop", "swap", "restart"} => exec[s] # "running"

\* While no other session of the app overlaps with it, a session can be
\* reached from the container as long as it lasts, through restores too: the
\* socket leads to it and the token is its own.
Reachable(s) == socket = s /\ token = s
ReachableAlone ==
  \A s \in Sessions : pc[s] \in Attached /\ ~shared[s] => Reachable(s)

\* An accepted restore comes to its end, unless the process ends first or a
\* failed docker stop leaves the session waiting for its user to detach.
RestoreEnds ==
  \A s \in Sessions :
    inProgress[s] ~> \/ ~inProgress[s] \/ pc[s] \in Gone
                     \/ pc[s] = "drain" /\ exec[s] = "running"

\* Its safety half: an accepted restore that is not being performed has its
\* token in the queue's channel, where the session's select will find it.
AcceptedNotLost ==
  \A s \in Sessions : inProgress[s] /\ pc[s] \notin Restoring => full[s]

\* Known not to hold (see README): what src/README.md says of the host RPC
\* bridge.  As long as a session of the app is open, and none is just starting
\* or ending, the container can reach one with the token it finds.
Quiet == \A s \in Sessions : pc[s] \in Attached \cup {"off"}
BridgeWhileOpen ==
  Quiet /\ (\E s \in Sessions : pc[s] \in Attached)
    => \E s \in Sessions : pc[s] \in Attached /\ Reachable(s)

=============================================================================
