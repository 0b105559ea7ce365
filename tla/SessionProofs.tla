-------------------------- MODULE SessionProofs ----------------------------
(***************************************************************************)
(* The two sides of a session.  HostSession for any number of sessions of  *)
(* the app and any snapshots: a restore is the one that was accepted and   *)
(* happens detached, and a session that has the app to itself can be       *)
(* reached as long as it lasts.  Session for any number of connections: a  *)
(* path is typed only after its upload, and only where it was asked for.   *)
(***************************************************************************)
EXTENDS HostSession, Session, TLAPS

\* The queue of a session: its three fields change together, its token is
\* gone while a restore is performed.
QueueSound ==
  \A s \in Sessions :
    /\ inProgress[s] <=> ref[s] # None
    /\ pc[s] \in Restoring => ~full[s]

\* Two sessions that are there at a time both know.
Noticed ==
  \A s, t \in Sessions :
    s # t /\ pc[s] \notin Gone /\ pc[t] \notin Gone => shared[s]

\* How far a session that is alone has come with the files of its bridge.
BridgeUp ==
  \A s \in Sessions : ~shared[s] =>
    /\ pc[s] \in {"token", "listen"} => socket = None
    /\ pc[s] \in Attached \cup {"listen", "agent"} => token = s
    /\ pc[s] \in Attached \cup {"agent"} => socket = s

RestoreInv == TypeOK /\ QueueSound /\ RestoreInOrder
BridgeInv == TypeOK /\ Noticed /\ BridgeUp

-----------------------------------------------------------------------------
(* Types                                                                   *)

\* Init establishes it.
LEMMA InitRestoreInv == Init => RestoreInv
BY SessionAssumption
   DEF Init, RestoreInv, TypeOK, QueueSound, RestoreInOrder, None, Gone, Attached, Restoring

\* Every action keeps the types.
LEMMA TypeStep == TypeOK /\ QueueSound /\ [Next]_vars => TypeOK'
<1> SUFFICES ASSUME TypeOK, QueueSound, [Next]_vars PROVE TypeOK'
  OBVIOUS
<1> USE SessionAssumption DEF TypeOK, QueueSound, Gone, Attached, Restoring, Goto, queue, rpc,
        vars, None
<1>1. ASSUME NEW s \in Sessions, Open(s) PROVE TypeOK'
  <2>1. pc' \in [Sessions -> Gone \cup Attached \cup
                   {"start", "rpc", "token", "listen", "agent", "unlink", "untoken"}]
    BY <1>1 DEF Open
  <2>2. shared' \in [Sessions -> BOOLEAN]
    BY <1>1 DEF Open
  <2>3. /\ inProgress' \in [Sessions -> BOOLEAN] /\ full' \in [Sessions -> BOOLEAN]
        /\ ref' \in [Sessions -> Refs \cup {None}]
        /\ \A t \in Sessions : full'[t] => inProgress'[t] /\ ref'[t] # None
    BY <1>1 DEF Open, EmptyQueue
  <2> QED
    BY <1>1, <2>1, <2>2, <2>3 DEF Open
<1>2. ASSUME NEW s \in Sessions, DockerStart(s) PROVE TypeOK'
  BY <1>2 DEF DockerStart
<1>3. ASSUME NEW s \in Sessions, RemoveSocket(s) PROVE TypeOK'
  BY <1>3 DEF RemoveSocket
<1>4. ASSUME NEW s \in Sessions, WriteToken(s) PROVE TypeOK'
  BY <1>4 DEF WriteToken
<1>5. ASSUME NEW s \in Sessions, Listen(s) PROVE TypeOK'
  BY <1>5 DEF Listen
<1>6. ASSUME NEW s \in Sessions, CheckAgent(s) PROVE TypeOK'
  BY <1>6 DEF CheckAgent
<1>7. ASSUME NEW s \in Sessions, Exec(s) PROVE TypeOK'
  BY <1>7 DEF Exec
<1>8. ASSUME NEW s \in Sessions, TakeRestore(s) PROVE TypeOK'
  BY <1>8 DEF TakeRestore
<1>9. ASSUME NEW s \in Sessions, ExecDone(s) PROVE TypeOK'
  <2>1. /\ full' = full \/ full' = [full EXCEPT ![s] = FALSE]
        /\ cur' = cur \/ cur' = [cur EXCEPT ![s] = ref[s]]
        /\ pc' = [pc EXCEPT ![s] = "restop"] \/ pc' = [pc EXCEPT ![s] = "unlink"]
        /\ UNCHANGED <<container, socket, token, handler, exec, inProgress, ref, shared>>
    BY <1>9 DEF ExecDone
  <2>2. full' \in [Sessions -> BOOLEAN]
    BY <2>1
  <2>3. \A t \in Sessions : full'[t] => full[t]
    BY <2>1
  <2>4. cur' \in [Sessions -> Refs \cup {None}]
    BY <2>1
  <2>5. pc' \in [Sessions -> Gone \cup Attached \cup
                   {"start", "rpc", "token", "listen", "agent", "unlink", "untoken"}]
    BY <2>1
  <2> QED
    BY <2>1, <2>2, <2>3, <2>4, <2>5
<1>10. ASSUME NEW s \in Sessions, StopForRestore(s) PROVE TypeOK'
  BY <1>10 DEF StopForRestore, StopContainer
<1>11. ASSUME NEW s \in Sessions, Drain(s) PROVE TypeOK'
  BY <1>11 DEF Drain
<1>12. ASSUME NEW s \in Sessions, RestoreStop(s) PROVE TypeOK'
  BY <1>12 DEF RestoreStop, StopContainer
<1>13. ASSUME NEW s \in Sessions, RestoreSwap(s) PROVE TypeOK'
  BY <1>13 DEF RestoreSwap
<1>14. ASSUME NEW s \in Sessions, RestoreStart(s) PROVE TypeOK'
  BY <1>14 DEF RestoreStart
<1>15. ASSUME NEW s \in Sessions, Finish(s) PROVE TypeOK'
  BY <1>15 DEF Finish
<1>16. ASSUME NEW s \in Sessions, AwaitRunning(s) PROVE TypeOK'
  BY <1>16 DEF AwaitRunning
<1>17. ASSUME NEW s \in Sessions, Unlink(s) PROVE TypeOK'
  BY <1>17 DEF Unlink
<1>18. ASSUME NEW s \in Sessions, RemoveToken(s) PROVE TypeOK'
  BY <1>18 DEF RemoveToken
<1>19. ASSUME NEW s \in Sessions, ExecEnds(s) PROVE TypeOK'
  BY <1>19 DEF ExecEnds
<1>20. ASSUME NEW s \in Sessions, Enqueue(s) PROVE TypeOK'
  <2>1. /\ handler' \in [Sessions -> Refs \cup {None}]
        /\ UNCHANGED <<container, socket, token, pc, exec, cur, shared>>
    BY <1>20 DEF Enqueue
  <2>2. CASE inProgress[s]
    BY <1>20, <2>1, <2>2 DEF Enqueue
  <2>3. CASE ~inProgress[s]
    <3>1. /\ inProgress' = [inProgress EXCEPT ![s] = TRUE]
          /\ ref' = [ref EXCEPT ![s] = handler[s]]
          /\ full' = [full EXCEPT ![s] = TRUE]
          /\ handler[s] # None
      BY <1>20, <2>3 DEF Enqueue
    <3>2. inProgress' \in [Sessions -> BOOLEAN] /\ full' \in [Sessions -> BOOLEAN]
      BY <3>1
    <3>3. ref' \in [Sessions -> Refs \cup {None}]
      BY <3>1
    <3>4. \A t \in Sessions : full'[t] => inProgress'[t] /\ ref'[t] # None
      BY <3>1
    <3> QED
      BY <2>1, <3>2, <3>3, <3>4
  <2> QED
    BY <2>2, <2>3
<1>21. ASSUME NEW s \in Sessions, Killed(s) PROVE TypeOK'
  BY <1>21 DEF Killed, EmptyQueue
<1>22. ASSUME NEW s \in Sessions, NEW r \in Refs, Request(s, r) PROVE TypeOK'
  BY <1>22 DEF Request
<1>23. CASE ContainerStops
  BY <1>23 DEF ContainerStops, StopContainer
<1>24. CASE ContainerStarts
  BY <1>24 DEF ContainerStarts
<1>25. CASE UNCHANGED vars
  BY <1>25
<1> QED
  BY <1>1, <1>2, <1>3, <1>4, <1>5, <1>6, <1>7, <1>8, <1>9, <1>10, <1>11, <1>12, <1>13, <1>14,
       <1>15, <1>16, <1>17, <1>18, <1>19, <1>20, <1>21, <1>22, <1>23, <1>24, <1>25
     DEF Next, Main, StartStep, LoopStep, EndStep

-----------------------------------------------------------------------------
(* Restores                                                                *)

\* Every step keeps the queue sound and the restores in order.
LEMMA RestoreStep == RestoreInv /\ [Next]_vars => QueueSound' /\ RestoreInOrder'
<1> SUFFICES ASSUME TypeOK, QueueSound, RestoreInOrder, [Next]_vars
             PROVE  QueueSound' /\ RestoreInOrder'
  BY DEF RestoreInv
<1> USE SessionAssumption DEF TypeOK, QueueSound, RestoreInOrder, Gone, Attached, Restoring,
        Goto, queue, rpc, vars, None
<1>1. ASSUME NEW s \in Sessions, Open(s) PROVE QueueSound' /\ RestoreInOrder'
  BY <1>1 DEF Open, EmptyQueue
<1>2. ASSUME NEW s \in Sessions, DockerStart(s) PROVE QueueSound' /\ RestoreInOrder'
  BY <1>2 DEF DockerStart
<1>3. ASSUME NEW s \in Sessions, RemoveSocket(s) PROVE QueueSound' /\ RestoreInOrder'
  BY <1>3 DEF RemoveSocket
<1>4. ASSUME NEW s \in Sessions, WriteToken(s) PROVE QueueSound' /\ RestoreInOrder'
  BY <1>4 DEF WriteToken
<1>5. ASSUME NEW s \in Sessions, Listen(s) PROVE QueueSound' /\ RestoreInOrder'
  BY <1>5 DEF Listen
<1>6. ASSUME NEW s \in Sessions, CheckAgent(s) PROVE QueueSound' /\ RestoreInOrder'
  BY <1>6 DEF CheckAgent
<1>7. ASSUME NEW s \in Sessions, Exec(s) PROVE QueueSound' /\ RestoreInOrder'
  BY <1>7 DEF Exec
<1>8. ASSUME NEW s \in Sessions, TakeRestore(s) PROVE QueueSound' /\ RestoreInOrder'
  BY <1>8 DEF TakeRestore
<1>9. ASSUME NEW s \in Sessions, ExecDone(s) PROVE QueueSound' /\ RestoreInOrder'
  BY <1>9 DEF ExecDone
<1>10. ASSUME NEW s \in Sessions, StopForRestore(s) PROVE QueueSound' /\ RestoreInOrder'
  BY <1>10 DEF StopForRestore, StopContainer
<1>11. ASSUME NEW s \in Sessions, Drain(s) PROVE QueueSound' /\ RestoreInOrder'
  BY <1>11 DEF Drain
<1>12. ASSUME NEW s \in Sessions, RestoreStop(s) PROVE QueueSound' /\ RestoreInOrder'
  BY <1>12 DEF RestoreStop, StopContainer
<1>13. ASSUME NEW s \in Sessions, RestoreSwap(s) PROVE QueueSound' /\ RestoreInOrder'
  BY <1>13 DEF RestoreSwap
<1>14. ASSUME NEW s \in Sessions, RestoreStart(s) PROVE QueueSound' /\ RestoreInOrder'
  BY <1>14 DEF RestoreStart
<1>15. ASSUME NEW s \in Sessions, Finish(s) PROVE QueueSound' /\ RestoreInOrder'
  BY <1>15 DEF Finish
<1>16. ASSUME NEW s \in Sessions, AwaitRunning(s) PROVE QueueSound' /\ RestoreInOrder'
  BY <1>16 DEF AwaitRunning
<1>17. ASSUME NEW s \in Sessions, Unlink(s) PROVE QueueSound' /\ RestoreInOrder'
  BY <1>17 DEF Unlink
<1>18. ASSUME NEW s \in Sessions, RemoveToken(s) PROVE QueueSound' /\ RestoreInOrder'
  BY <1>18 DEF RemoveToken
<1>19. ASSUME NEW s \in Sessions, ExecEnds(s) PROVE QueueSound' /\ RestoreInOrder'
  BY <1>19 DEF ExecEnds
<1>20. ASSUME NEW s \in Sessions, Enqueue(s) PROVE QueueSound' /\ RestoreInOrder'
  BY <1>20 DEF Enqueue
<1>21. ASSUME NEW s \in Sessions, Killed(s) PROVE QueueSound' /\ RestoreInOrder'
  BY <1>21 DEF Killed, EmptyQueue
<1>22. ASSUME NEW s \in Sessions, NEW r \in Refs, Request(s, r) PROVE QueueSound' /\ RestoreInOrder'
  BY <1>22 DEF Request
<1>23. CASE ContainerStops
  BY <1>23 DEF ContainerStops, StopContainer
<1>24. CASE ContainerStarts
  BY <1>24 DEF ContainerStarts
<1>25. CASE UNCHANGED vars
  BY <1>25
<1> QED
  BY <1>1, <1>2, <1>3, <1>4, <1>5, <1>6, <1>7, <1>8, <1>9, <1>10, <1>11, <1>12, <1>13, <1>14,
       <1>15, <1>16, <1>17, <1>18, <1>19, <1>20, <1>21, <1>22, <1>23, <1>24, <1>25
     DEF Next, Main, StartStep, LoopStep, EndStep

\* Every step keeps the token of an accepted restore until it is taken.
LEMMA AcceptedStep == TypeOK /\ AcceptedNotLost /\ [Next]_vars => AcceptedNotLost'
<1> SUFFICES ASSUME TypeOK, AcceptedNotLost, [Next]_vars PROVE AcceptedNotLost'
  OBVIOUS
<1> USE SessionAssumption DEF TypeOK, AcceptedNotLost, Gone, Attached, Restoring,
        Goto, queue, rpc, vars, None
<1>1. ASSUME NEW s \in Sessions, Open(s) PROVE AcceptedNotLost'
  BY <1>1 DEF Open, EmptyQueue
<1>2. ASSUME NEW s \in Sessions, DockerStart(s) PROVE AcceptedNotLost'
  BY <1>2 DEF DockerStart
<1>3. ASSUME NEW s \in Sessions, RemoveSocket(s) PROVE AcceptedNotLost'
  BY <1>3 DEF RemoveSocket
<1>4. ASSUME NEW s \in Sessions, WriteToken(s) PROVE AcceptedNotLost'
  BY <1>4 DEF WriteToken
<1>5. ASSUME NEW s \in Sessions, Listen(s) PROVE AcceptedNotLost'
  BY <1>5 DEF Listen
<1>6. ASSUME NEW s \in Sessions, CheckAgent(s) PROVE AcceptedNotLost'
  BY <1>6 DEF CheckAgent
<1>7. ASSUME NEW s \in Sessions, Exec(s) PROVE AcceptedNotLost'
  BY <1>7 DEF Exec
<1>8. ASSUME NEW s \in Sessions, TakeRestore(s) PROVE AcceptedNotLost'
  BY <1>8 DEF TakeRestore
<1>9. ASSUME NEW s \in Sessions, ExecDone(s) PROVE AcceptedNotLost'
  BY <1>9 DEF ExecDone
<1>10. ASSUME NEW s \in Sessions, StopForRestore(s) PROVE AcceptedNotLost'
  BY <1>10 DEF StopForRestore, StopContainer
<1>11. ASSUME NEW s \in Sessions, Drain(s) PROVE AcceptedNotLost'
  BY <1>11 DEF Drain
<1>12. ASSUME NEW s \in Sessions, RestoreStop(s) PROVE AcceptedNotLost'
  BY <1>12 DEF RestoreStop, StopContainer
<1>13. ASSUME NEW s \in Sessions, RestoreSwap(s) PROVE AcceptedNotLost'
  BY <1>13 DEF RestoreSwap
<1>14. ASSUME NEW s \in Sessions, RestoreStart(s) PROVE AcceptedNotLost'
  BY <1>14 DEF RestoreStart
<1>15. ASSUME NEW s \in Sessions, Finish(s) PROVE AcceptedNotLost'
  BY <1>15 DEF Finish
<1>16. ASSUME NEW s \in Sessions, AwaitRunning(s) PROVE AcceptedNotLost'
  BY <1>16 DEF AwaitRunning
<1>17. ASSUME NEW s \in Sessions, Unlink(s) PROVE AcceptedNotLost'
  BY <1>17 DEF Unlink
<1>18. ASSUME NEW s \in Sessions, RemoveToken(s) PROVE AcceptedNotLost'
  BY <1>18 DEF RemoveToken
<1>19. ASSUME NEW s \in Sessions, ExecEnds(s) PROVE AcceptedNotLost'
  BY <1>19 DEF ExecEnds
<1>20. ASSUME NEW s \in Sessions, Enqueue(s) PROVE AcceptedNotLost'
  BY <1>20 DEF Enqueue
<1>21. ASSUME NEW s \in Sessions, Killed(s) PROVE AcceptedNotLost'
  BY <1>21 DEF Killed, EmptyQueue
<1>22. ASSUME NEW s \in Sessions, NEW r \in Refs, Request(s, r) PROVE AcceptedNotLost'
  BY <1>22 DEF Request
<1>23. CASE ContainerStops
  BY <1>23 DEF ContainerStops, StopContainer
<1>24. CASE ContainerStarts
  BY <1>24 DEF ContainerStarts
<1>25. CASE UNCHANGED vars
  BY <1>25
<1> QED
  BY <1>1, <1>2, <1>3, <1>4, <1>5, <1>6, <1>7, <1>8, <1>9, <1>10, <1>11, <1>12, <1>13, <1>14,
       <1>15, <1>16, <1>17, <1>18, <1>19, <1>20, <1>21, <1>22, <1>23, <1>24, <1>25
     DEF Next, Main, StartStep, LoopStep, EndStep

-----------------------------------------------------------------------------
(* The bridge                                                              *)

\* Every step keeps the bridge of a session that is alone.
LEMMA BridgeStep == BridgeInv /\ [Next]_vars => Noticed' /\ BridgeUp'
<1> SUFFICES ASSUME TypeOK, Noticed, BridgeUp, [Next]_vars
             PROVE  Noticed' /\ BridgeUp'
  BY DEF BridgeInv
<1> USE SessionAssumption DEF TypeOK, Noticed, BridgeUp, Gone, Attached, Restoring, Goto, queue,
        rpc, vars, None
<1>1. ASSUME NEW s \in Sessions, Open(s) PROVE Noticed' /\ BridgeUp'
  <2> DEFINE others == {t \in Sessions \ {s} : pc[t] \notin Gone}
  <2>1. /\ socket' = socket /\ token' = token
        /\ pc' = [pc EXCEPT ![s] = IF container = "running" THEN "rpc" ELSE "start"]
        /\ shared' = [t \in Sessions |-> IF t = s THEN others # {}
                                         ELSE shared[t] \/ t \in others]
    BY <1>1 DEF Open
  <2>2. \A t \in others : shared'[t] /\ shared'[s]
    BY <2>1
  <2>3. \A t \in Sessions \ others : t # s => pc[t] \in Gone /\ pc'[t] = pc[t]
    BY <2>1
  <2>4. pc'[s] \in {"rpc", "start"} /\ \A t \in Sessions \ {s} : pc'[t] = pc[t]
    BY <2>1
  <2>5. \A t \in Sessions \ {s} : shared[t] => shared'[t]
    BY <2>1
  <2>6. Noticed'
    BY <2>2, <2>3, <2>4, <2>5
  <2>7. BridgeUp'
    BY <2>1, <2>4, <2>5
  <2> QED
    BY <2>6, <2>7
<1>2. ASSUME NEW s \in Sessions, DockerStart(s) PROVE Noticed' /\ BridgeUp'
  BY <1>2 DEF DockerStart
<1>3. ASSUME NEW s \in Sessions, RemoveSocket(s) PROVE Noticed' /\ BridgeUp'
  BY <1>3 DEF RemoveSocket
<1>4. ASSUME NEW s \in Sessions, WriteToken(s) PROVE Noticed' /\ BridgeUp'
  BY <1>4 DEF WriteToken
<1>5. ASSUME NEW s \in Sessions, Listen(s) PROVE Noticed' /\ BridgeUp'
  BY <1>5 DEF Listen
<1>6. ASSUME NEW s \in Sessions, CheckAgent(s) PROVE Noticed' /\ BridgeUp'
  BY <1>6 DEF CheckAgent
<1>7. ASSUME NEW s \in Sessions, Exec(s) PROVE Noticed' /\ BridgeUp'
  BY <1>7 DEF Exec
<1>8. ASSUME NEW s \in Sessions, TakeRestore(s) PROVE Noticed' /\ BridgeUp'
  BY <1>8 DEF TakeRestore
<1>9. ASSUME NEW s \in Sessions, ExecDone(s) PROVE Noticed' /\ BridgeUp'
  BY <1>9 DEF ExecDone
<1>10. ASSUME NEW s \in Sessions, StopForRestore(s) PROVE Noticed' /\ BridgeUp'
  BY <1>10 DEF StopForRestore, StopContainer
<1>11. ASSUME NEW s \in Sessions, Drain(s) PROVE Noticed' /\ BridgeUp'
  BY <1>11 DEF Drain
<1>12. ASSUME NEW s \in Sessions, RestoreStop(s) PROVE Noticed' /\ BridgeUp'
  BY <1>12 DEF RestoreStop, StopContainer
<1>13. ASSUME NEW s \in Sessions, RestoreSwap(s) PROVE Noticed' /\ BridgeUp'
  BY <1>13 DEF RestoreSwap
<1>14. ASSUME NEW s \in Sessions, RestoreStart(s) PROVE Noticed' /\ BridgeUp'
  BY <1>14 DEF RestoreStart
<1>15. ASSUME NEW s \in Sessions, Finish(s) PROVE Noticed' /\ BridgeUp'
  BY <1>15 DEF Finish
<1>16. ASSUME NEW s \in Sessions, AwaitRunning(s) PROVE Noticed' /\ BridgeUp'
  BY <1>16 DEF AwaitRunning
<1>17. ASSUME NEW s \in Sessions, Unlink(s) PROVE Noticed' /\ BridgeUp'
  BY <1>17 DEF Unlink
<1>18. ASSUME NEW s \in Sessions, RemoveToken(s) PROVE Noticed' /\ BridgeUp'
  BY <1>18 DEF RemoveToken
<1>19. ASSUME NEW s \in Sessions, ExecEnds(s) PROVE Noticed' /\ BridgeUp'
  BY <1>19 DEF ExecEnds
<1>20. ASSUME NEW s \in Sessions, Enqueue(s) PROVE Noticed' /\ BridgeUp'
  BY <1>20 DEF Enqueue
<1>21. ASSUME NEW s \in Sessions, Killed(s) PROVE Noticed' /\ BridgeUp'
  BY <1>21 DEF Killed, EmptyQueue
<1>22. ASSUME NEW s \in Sessions, NEW r \in Refs, Request(s, r) PROVE Noticed' /\ BridgeUp'
  BY <1>22 DEF Request
<1>23. CASE ContainerStops
  BY <1>23 DEF ContainerStops, StopContainer
<1>24. CASE ContainerStarts
  BY <1>24 DEF ContainerStarts
<1>25. CASE UNCHANGED vars
  BY <1>25
<1> QED
  BY <1>1, <1>2, <1>3, <1>4, <1>5, <1>6, <1>7, <1>8, <1>9, <1>10, <1>11, <1>12, <1>13, <1>14,
       <1>15, <1>16, <1>17, <1>18, <1>19, <1>20, <1>21, <1>22, <1>23, <1>24, <1>25
     DEF Next, Main, StartStep, LoopStep, EndStep

-----------------------------------------------------------------------------
(* Theorems                                                                *)

\* Types, and the queue's token stands for an accepted restore.
THEOREM Typing == Spec => []TypeOK
<1>1. RestoreInv /\ [Next]_vars => RestoreInv'
  BY TypeStep, RestoreStep DEF RestoreInv
<1>2. RestoreInv => TypeOK
  BY DEF RestoreInv
<1> QED
  BY InitRestoreInv, <1>1, <1>2, PTL DEF Spec

\* performRestore works on the ref whose request was accepted, and only once
\* the session's docker exec has ended, in every session of the app.
THEOREM InOrder == Spec => []RestoreInOrder
<1>1. RestoreInv /\ [Next]_vars => RestoreInv'
  BY TypeStep, RestoreStep DEF RestoreInv
<1>2. RestoreInv => RestoreInOrder
  BY DEF RestoreInv
<1> QED
  BY InitRestoreInv, <1>1, <1>2, PTL DEF Spec

\* What Enqueue accepts is not forgotten: in every session of the app, until
\* the restore is taken up or the process ends, the queue's channel holds its
\* token, through the restores before it and the end of the docker exec.
THEOREM Accepted == Spec => []AcceptedNotLost
<1>1. Init => AcceptedNotLost
  BY DEF Init, AcceptedNotLost
<1> QED
  BY Typing, AcceptedStep, <1>1, PTL DEF Spec

\* startHostRPC and Close leave a session that no other overlaps with its own
\* socket and token as long as it is attached.
THEOREM BridgeAlone == Spec => []ReachableAlone
<1>1. Init => Noticed /\ BridgeUp
  BY DEF Init, Noticed, BridgeUp, Gone, Attached, Restoring
<1>2. Noticed /\ BridgeUp /\ TypeOK /\ [Next]_vars => (Noticed /\ BridgeUp)'
  BY BridgeStep DEF BridgeInv
<1>3. BridgeUp => ReachableAlone
  BY DEF BridgeUp, ReachableAlone, Reachable
<1> QED
  BY Typing, <1>1, <1>2, <1>3, PTL DEF Spec

-----------------------------------------------------------------------------
(* The client's side: module Session.                                      *)

ConnTyped ==
  /\ conn \in Conns
  /\ link \in [Conns -> {"none", "up", "down"}]
  /\ pty \in [Conns -> {"none", "open", "closed"}]
PasteTyped ==
  /\ clip \in [pc : {"off", "wait", "verify", "type", "end", "over"}, conn : Conns]
  /\ put \in {"none", "copying", "ok", "error"}
  /\ reply \in [msg : BOOLEAN, closed : BOOLEAN]

\* Nothing is typed into a session whose connection is down.
DownClosed == \A c \in Conns : link[c] = "down" => pty[c] # "open"

\* The session an image is pasted into is the one in use, or an earlier one.
PasteBehind ==
  clip.pc \in {"wait", "verify", "type", "end"} =>
    clip.conn < conn \/ (clip.conn = conn /\ main \in {"run", "leave", "exit"})

\* How far the upload is, as the goroutine of the paste can tell.
Ended == put \in {"ok", "error"}
PasteAt ==
  /\ clip.pc = "off" => ~reply.msg /\ ~reply.closed
  /\ reply.closed => reply.msg
  /\ clip.pc = "wait" /\ reply.msg => Ended
  /\ clip.pc = "type" => Ended \/ pty[clip.conn] # "open"
  /\ inserted # 0 => clip.pc = "end" /\ inserted = clip.conn /\ Ended

PasteInv == ConnTyped /\ PasteTyped /\ DownClosed /\ PasteBehind /\ PasteAt

\* Init establishes it.
LEMMA InitPasteInv == AttachInit => PasteInv
BY AttachAssumption DEF AttachInit, PasteInv, ConnTyped, PasteTyped, DownClosed, PasteBehind, PasteAt,
       Conns, NoReply

\* Steps that touch neither the connections nor the paste.
LEMMA AsidePasteInv ==
  ASSUME PasteInv, UNCHANGED <<main, conn, link, pty, paste>>
  PROVE  PasteInv'
BY DEF PasteInv, ConnTyped, PasteTyped, DownClosed, PasteBehind, PasteAt, Ended, paste

\* Closing a pty opens none.
LEMMA ClosePasteInv ==
  ASSUME PasteInv, UNCHANGED <<main, conn, paste>>, NEW c \in Conns,
         ClosePty(c) \/ UNCHANGED pty,
         UNCHANGED link \/ (link' = [link EXCEPT ![c] = "down"] /\ ClosePty(c))
  PROVE  PasteInv'
<1>1. /\ ConnTyped'
      /\ \A d \in Conns : pty'[d] = "open" => pty[d] = "open"
      /\ DownClosed'
  BY DEF PasteInv, ConnTyped, DownClosed, ClosePty
<1>2. clip.conn \in Conns
  BY DEF PasteInv, PasteTyped
<1> QED BY <1>1, <1>2 DEF PasteInv, PasteTyped, PasteBehind, PasteAt, Ended, paste

\* The client's main goroutine: it opens no pty of a connection it has used.
LEMMA MainPasteInv ==
  ASSUME PasteInv, MainStep
  PROVE  PasteInv'
<1>0. clip.conn \in Conns /\ conn \in Nat /\ MaxConns \in Nat
  BY AttachAssumption DEF PasteInv, PasteTyped, ConnTyped, Conns
<1>1. CASE Dial
  <2>1. ConnTyped' /\ DownClosed' /\ UNCHANGED <<conn, pty, paste>>
    BY <1>1 DEF Dial, PasteInv, ConnTyped, DownClosed
  <2>2. PasteBehind'
    BY <1>1, <2>1 DEF Dial, PasteInv, PasteBehind, paste
  <2> QED BY <2>1, <2>2 DEF PasteInv, PasteTyped, PasteAt, Ended, paste
<1>2. CASE OpenEvents \/ AssignPty \/ SessionOver
  BY <1>2 DEF OpenEvents, AssignPty, SessionOver, PasteInv, ConnTyped,
              PasteTyped, DownClosed,
              PasteBehind, PasteAt, Ended, paste
<1>3. CASE OpenPty
  <2>1. ConnTyped' /\ DownClosed' /\ UNCHANGED <<conn, link, paste>>
    BY <1>3 DEF OpenPty, PasteInv, ConnTyped, DownClosed
  <2>2. PasteBehind' /\ (clip.pc = "type" => clip.conn # conn)
    BY <1>0, <1>3, <2>1 DEF OpenPty, PasteInv, PasteBehind, paste
  <2>3. clip.pc = "type" => pty'[clip.conn] = pty[clip.conn]
    BY <1>0, <1>3, <2>2 DEF OpenPty, PasteInv, ConnTyped
  <2> QED BY <2>1, <2>2, <2>3 DEF PasteInv, PasteTyped, PasteAt, Ended, paste
<1>4. CASE CheckRequest
  <2>1. ConnTyped' /\ DownClosed' /\ UNCHANGED <<conn, link, paste>>
        /\ \A d \in Conns : pty'[d] = "open" => pty[d] = "open"
    BY <1>4 DEF CheckRequest, ClosePty, PasteInv, ConnTyped, DownClosed
  <2>2. PasteBehind'
    BY <1>4, <2>1 DEF CheckRequest, PasteInv, PasteBehind, paste
  <2> QED BY <1>0, <2>1, <2>2 DEF PasteInv, PasteTyped, PasteAt, Ended, paste
<1>5. CASE Leave
  <2>0. link' = [link EXCEPT ![conn] = "down"] /\ ClosePty(conn) /\ UNCHANGED paste
    BY <1>5 DEF Leave
  <2>3. conn' = conn \/ (conn # MaxConns /\ conn' = conn + 1)
    BY <1>5 DEF Leave
  <2>4. conn' \in Conns
    <3>1. conn \in 1..MaxConns
      BY DEF PasteInv, ConnTyped, Conns
    <3> QED BY <1>0, <2>3, <3>1 DEF Conns
  <2>1. ConnTyped' /\ DownClosed' /\ \A d \in Conns : pty'[d] = "open" => pty[d] = "open"
    BY <2>0, <2>4 DEF ClosePty, PasteInv, ConnTyped, DownClosed
  <2>2. PasteBehind'
    BY <1>0, <1>5, <2>0, <2>3 DEF Leave, PasteInv, PasteBehind, paste, Conns
  <2> QED BY <1>0, <2>0, <2>1, <2>2 DEF PasteInv, PasteTyped, PasteAt, Ended, paste
<1> QED BY <1>1, <1>2, <1>3, <1>4, <1>5 DEF MainStep

\* The callback, the host and the programs in the containers.
LEMMA HostPasteInv ==
  ASSUME PasteInv,
         \/ CallbackStep \/ JobStep
         \/ \E c \in Conns :
              \/ GatewayStep(c) \/ LinkBreaks(c) \/ SessionEnds(c)
              \/ \E k \in {"attach", "create", "apply", "delete"} : Ask(c, k)
  PROVE  PasteInv'
<1>0. conn \in Conns
  BY DEF PasteInv, ConnTyped
<1>1. CASE CallbackStep
  <2>1. CASE TakeRequest \/ NoteRequest
    BY <2>1, AsidePasteInv DEF TakeRequest, NoteRequest, client
  <2>2. CASE CloseForRequest
    BY <1>0, <2>2, ClosePasteInv DEF CloseForRequest, client
  <2> QED BY <1>1, <2>1, <2>2 DEF CallbackStep
<1>2. CASE JobStep
  BY <1>2, AsidePasteInv DEF JobStep, CreateBranch, ApplyBranch,
                             DeleteBranch, JobOver, SendRequest,
                             client
<1>3. ASSUME NEW c \in Conns,
             \E k \in {"attach", "create", "apply", "delete"} : Ask(c, k)
      PROVE  PasteInv'
  BY <1>3, AsidePasteInv DEF Ask, client
<1>4. ASSUME NEW c \in Conns, LinkBreaks(c) \/ SessionEnds(c)
      PROVE  PasteInv'
  BY <1>4, ClosePasteInv DEF LinkBreaks, SessionEnds, client
<1>5. ASSUME NEW c \in Conns, GatewayStep(c)
      PROVE  PasteInv'
  <2>1. CASE RegisterOpen(c) \/ Clog(c)
    BY <2>1, AsidePasteInv DEF RegisterOpen, Clog, client
  <2>2. CASE StartSession(c)
    BY <2>2, ClosePasteInv DEF StartSession, client
  <2>3. CASE GatewayExits(c)
    BY <2>3 DEF GatewayExits, PasteInv, ConnTyped, PasteTyped, DownClosed, PasteBehind,
                PasteAt,
                Ended, client
  <2> QED BY <1>5, <2>1, <2>2, <2>3 DEF GatewayStep
<1> QED BY <1>1, <1>2, <1>3, <1>4, <1>5

\* The goroutine of the paste, and the upload on the host.
LEMMA UploadPasteInv ==
  ASSUME PasteInv, PressPaste \/ PasteStep
  PROVE  PasteInv'
<1>0. UNCHANGED <<main, conn, link, pty>>
  BY DEF PressPaste, PasteStep, UploadEnds, UploadCloses,
         WaitUpload, VerifyUpload, TypePath, EndPaste,
         client
<1> USE <1>0 DEF PasteInv, ConnTyped, PasteTyped, DownClosed, PasteBehind, PasteAt, Ended
<1>1. CASE PressPaste
  BY <1>1 DEF PressPaste
<1>2. CASE UploadEnds
  BY <1>2 DEF UploadEnds
<1>3. CASE UploadCloses
  BY <1>3 DEF UploadCloses
<1>4. CASE WaitUpload
  BY <1>4 DEF WaitUpload, NoReply
<1>5. CASE VerifyUpload
  BY <1>5 DEF VerifyUpload
<1>6. CASE TypePath
  BY <1>6 DEF TypePath
<1>7. CASE EndPaste
  BY <1>7, AttachAssumption DEF EndPaste, Conns
<1> QED BY <1>1, <1>2, <1>3, <1>4, <1>5, <1>6, <1>7 DEF PasteStep

\* Whatever becomes of the connection, the upload and the session meanwhile,
\* handleClipboardImagePasteMux types a path only into the session Ctrl-V was
\* pressed in and only once the host is done with the upload.
THEOREM PathUploaded == AttachSpec => []PathAfterUpload
<1>1. PasteInv /\ [AttachNext]_attachVars => PasteInv'
  <2>1. CASE AttachNext
    BY <2>1, MainPasteInv, HostPasteInv, UploadPasteInv DEF AttachNext
  <2>2. CASE UNCHANGED attachVars
    BY <2>2, AsidePasteInv DEF attachVars, client
  <2> QED BY <2>1, <2>2
<1>2. PasteInv => PathAfterUpload
  BY DEF PasteInv, PasteAt, Ended, PathAfterUpload
<1> QED BY InitPasteInv, <1>1, <1>2, PTL DEF AttachSpec

-----------------------------------------------------------------------------
(* The client's side: types.                                               *)

\* The goroutines of the client.
ClientTyped ==
  /\ main \in {"dial", "open", "pty", "assign", "check", "run", "leave", "exit"}
  /\ conn \in Conns
  /\ next \in Apps \cup {NoApp} /\ switchReq \in Apps \cup {NoApp}
  /\ main = "dial" => next \in Apps
  /\ ptyVar \in BOOLEAN
  /\ cb.app \in Apps \cup {NoApp} /\ cb.pc \in {"idle", "note", "close"}
  /\ cb = [pc |-> cb.pc, app |-> cb.app]

\* The connections and what runs on them.
LinesTyped ==
  /\ link \in [Conns -> {"none", "up", "down"}]
  /\ gate \in [Conns -> BOOLEAN] /\ listens \in [Conns -> BOOLEAN]
  /\ clogged \in [Conns -> BOOLEAN]
  /\ pty \in [Conns -> {"none", "open", "closed"}]
  /\ sess \in [Conns -> {"none", "running", "ended"}]
  /\ app \in [Conns -> Apps \cup {NoApp}]
InboxTyped ==
  inbox \in [Conns -> Seq(Apps)] /\ \A c \in Conns : Len(inbox[c]) <= MaxEvents

\* What a program asks for is an app by the time it is sent.
JobTyped ==
  /\ job \in [pc : {"off", "send", "work", "answered"}, conn : Conns,
              kind : {"attach", "create", "apply", "delete"}, app : Apps \cup {NoApp}]
  /\ job.pc = "send" => job.app \in Apps
  /\ asks \in 0..MaxAsks /\ envs \subseteq {"branch"}

UploadTyped == PasteTyped /\ inserted \in 0..MaxConns

TypeParts == ClientTyped /\ LinesTyped /\ InboxTyped /\ JobTyped /\ UploadTyped

\* The parts are the type invariant.
LEMMA PartsAreTypes == TypeParts => AttachTypeOK
<1> SUFFICES ASSUME TypeParts PROVE AttachTypeOK
  OBVIOUS
<1>1. /\ main \in {"dial", "open", "pty", "assign", "check", "run", "leave", "exit"}
      /\ conn \in Conns /\ {next, switchReq} \subseteq Apps \cup {NoApp}
      /\ main = "dial" => next \in Apps
      /\ ptyVar \in BOOLEAN /\ cb \in [pc : {"idle", "note", "close"}, app : Apps \cup {NoApp}]
  BY DEF TypeParts, ClientTyped
<1>2. /\ link \in [Conns -> {"none", "up", "down"}]
      /\ {gate, listens, clogged} \subseteq [Conns -> BOOLEAN]
      /\ pty \in [Conns -> {"none", "open", "closed"}]
      /\ sess \in [Conns -> {"none", "running", "ended"}] /\ app \in [Conns -> Apps \cup {NoApp}]
  BY DEF TypeParts, LinesTyped
<1> QED BY <1>1, <1>2 DEF TypeParts, InboxTyped, JobTyped, UploadTyped, PasteTyped, AttachTypeOK

\* What the bounds are.
LEMMA Bounds == /\ MaxConns \in Nat /\ MaxEvents \in Nat /\ MaxAsks \in Nat
                /\ 1 \in Conns /\ Conns \subseteq 1..MaxConns
BY AttachAssumption DEF Conns

\* Only the main goroutine and the callback change the client's state.
LEMMA ClientTypes ==
  ASSUME ClientTyped, InboxTyped,
         MainStep \/ CallbackStep \/ UNCHANGED <<client, cb>>
  PROVE  ClientTyped'
<1> USE DEF ClientTyped, client
<1>1. CASE Dial \/ OpenEvents \/ OpenPty \/ AssignPty \/ CheckRequest \/ SessionOver
  BY <1>1 DEF Dial, OpenEvents, OpenPty, AssignPty, CheckRequest, SessionOver
<1>2. CASE Leave
  <2>1. conn' = conn \/ (conn # MaxConns /\ conn' = conn + 1)
    BY <1>2 DEF Leave
  <2>2. conn' \in Conns
    BY <2>1, Bounds DEF Conns
  <2>3. main' \in {"dial", "exit"} /\ (main' = "dial" => next # NoApp) /\ next' = next
    BY <1>2 DEF Leave
  <2> QED BY <1>2, <2>2, <2>3 DEF Leave, Idle
<1>3. CASE TakeRequest
  <2>1. Head(inbox[conn]) \in Apps
    BY <1>3 DEF TakeRequest, InboxTyped
  <2> QED BY <1>3, <2>1 DEF TakeRequest
<1>4. CASE NoteRequest
  BY <1>4 DEF NoteRequest
<1>5. CASE CloseForRequest
  BY <1>5 DEF CloseForRequest, Idle
<1>6. CASE UNCHANGED <<client, cb>>
  BY <1>6
<1> QED BY <1>1, <1>2, <1>3, <1>4, <1>5, <1>6 DEF MainStep, CallbackStep

\* Every step keeps the states of the connections.
LEMMA LinesTypes == TypeParts /\ [AttachNext]_attachVars => LinesTyped'
<1> SUFFICES ASSUME LinesTyped, ClientTyped, [AttachNext]_attachVars PROVE LinesTyped'
  BY DEF TypeParts
<1> USE DEF LinesTyped, host, ClosePty
<1>1. CASE MainStep
  <2>1. CASE Dial
    <3>1. app' = app \/ (app' = [app EXCEPT ![conn] = next] /\ next \in Apps)
      BY <2>1 DEF Dial, ClientTyped
    <3>2. app' \in [Conns -> Apps \cup {NoApp}]
      BY <3>1
    <3>3. /\ link' = link \/ link' = [link EXCEPT ![conn] = "up"]
          /\ gate' = gate \/ gate' = [gate EXCEPT ![conn] = TRUE]
          /\ UNCHANGED <<listens, clogged, pty, sess>>
      BY <2>1 DEF Dial
    <3> QED BY <3>2, <3>3
  <2>2. CASE OpenEvents \/ AssignPty \/ SessionOver
    BY <2>2 DEF OpenEvents, AssignPty, SessionOver
  <2>3. CASE OpenPty \/ CheckRequest
    BY <2>3 DEF OpenPty, CheckRequest
  <2>4. CASE Leave
    BY <2>4 DEF Leave
  <2> QED BY <1>1, <2>1, <2>2, <2>3, <2>4 DEF MainStep
<1>2. CASE CallbackStep
  BY <1>2 DEF CallbackStep, TakeRequest, NoteRequest, CloseForRequest
<1>3. CASE JobStep
  BY <1>3 DEF JobStep, CreateBranch, ApplyBranch, DeleteBranch, JobOver, SendRequest
<1>4. CASE PressPaste \/ PasteStep
  BY <1>4 DEF PressPaste, PasteStep, UploadEnds, UploadCloses, WaitUpload, VerifyUpload,
              TypePath, EndPaste
<1>5. ASSUME NEW c \in Conns, RegisterOpen(c) \/ StartSession(c) \/ Clog(c)
      PROVE  LinesTyped'
  BY <1>5 DEF RegisterOpen, StartSession, Clog
<1>6. ASSUME NEW c \in Conns, GatewayExits(c) PROVE LinesTyped'
  BY <1>6 DEF GatewayExits
<1>7. ASSUME NEW c \in Conns, LinkBreaks(c) \/ SessionEnds(c) PROVE LinesTyped'
  BY <1>7 DEF LinkBreaks, SessionEnds
<1>8. ASSUME NEW c \in Conns, NEW k \in {"attach", "create", "apply", "delete"}, Ask(c, k)
      PROVE  LinesTyped'
  BY <1>8 DEF Ask
<1>9. CASE UNCHANGED attachVars
  BY <1>9 DEF attachVars
<1> QED BY <1>1, <1>2, <1>3, <1>4, <1>5, <1>6, <1>7, <1>8, <1>9 DEF AttachNext, GatewayStep

\* The requests under way are taken from the front and added at the end.
LEMMA InboxTypes ==
  ASSUME InboxTyped, JobTyped, conn \in Conns,
         Leave \/ TakeRequest \/ SendRequest \/ UNCHANGED inbox
  PROVE  InboxTyped'
<1> USE Bounds DEF InboxTyped
<1>1. CASE Leave
  BY <1>1 DEF Leave
<1>2. CASE TakeRequest
  <2>1. Tail(inbox[conn]) \in Seq(Apps) /\ Len(Tail(inbox[conn])) <= MaxEvents
    BY <1>2 DEF TakeRequest
  <2> QED BY <1>2, <2>1 DEF TakeRequest
<1>3. CASE SendRequest
  <2>0. job.conn \in Conns /\ job.app \in Apps
    BY <1>3 DEF SendRequest, JobTyped
  <2>1. /\ Append(inbox[job.conn], job.app) \in Seq(Apps)
        /\ Len(Append(inbox[job.conn], job.app)) <= MaxEvents
    <3>1. inbox[job.conn] \in Seq(Apps) /\ Len(inbox[job.conn]) < MaxEvents
      BY <1>3, <2>0 DEF SendRequest
    <3> QED BY <2>0, <3>1
  <2> QED BY <2>0, <1>3, <2>1 DEF SendRequest
<1> QED BY <1>1, <1>2, <1>3

\* The request of a container's program.
LEMMA JobTypes ==
  ASSUME JobTyped,
         \/ JobStep \/ UNCHANGED asked
         \/ \E c \in Conns : GatewayExits(c) \/ SessionEnds(c)
                            \/ \E k \in {"attach", "create", "apply", "delete"} : Ask(c, k)
  PROVE  JobTyped'
<1>0. NoJob \in [pc : {"off"}, conn : Conns, kind : {"attach"}, app : {NoApp}]
  BY Bounds DEF NoJob
<1> USE <1>0, Bounds DEF JobTyped, asked, Apps, NoApp
<1>1. CASE CreateBranch
  BY <1>1 DEF CreateBranch, Derived
<1>2. CASE ApplyBranch
  BY <1>2 DEF ApplyBranch
<1>3. CASE DeleteBranch
  BY <1>3 DEF DeleteBranch
<1>4. CASE JobOver \/ SendRequest
  BY <1>4 DEF JobOver, SendRequest
<1>5. ASSUME NEW c \in Conns, GatewayExits(c) \/ SessionEnds(c) PROVE JobTyped'
  BY <1>5 DEF GatewayExits, SessionEnds, Cut
<1>6. ASSUME NEW c \in Conns, NEW k \in {"attach", "create", "apply", "delete"}, Ask(c, k)
      PROVE  JobTyped'
  BY <1>6 DEF Ask
<1>7. CASE UNCHANGED asked
  BY <1>7
<1> QED BY <1>1, <1>2, <1>3, <1>4, <1>5, <1>6, <1>7 DEF JobStep

\* The paste and its upload.
LEMMA UploadTypes ==
  ASSUME UploadTyped, conn \in Conns,
         \/ PressPaste \/ PasteStep \/ UNCHANGED paste
         \/ \E c \in Conns : GatewayExits(c)
  PROVE  UploadTyped'
<1> USE Bounds DEF UploadTyped, PasteTyped, paste
<1>1. CASE PressPaste
  BY <1>1 DEF PressPaste
<1>2. CASE UploadEnds \/ UploadCloses
  BY <1>2 DEF UploadEnds, UploadCloses
<1>3. CASE WaitUpload
  BY <1>3 DEF WaitUpload, NoReply
<1>4. CASE VerifyUpload
  BY <1>4 DEF VerifyUpload
<1>5. CASE TypePath
  BY <1>5 DEF TypePath
<1>6. CASE EndPaste
  BY <1>6 DEF EndPaste
<1>7. ASSUME NEW c \in Conns, GatewayExits(c) PROVE UploadTyped'
  BY <1>7 DEF GatewayExits
<1> QED BY <1>1, <1>2, <1>3, <1>4, <1>5, <1>6, <1>7 DEF PasteStep

\* Each step, part by part.
LEMMA PartsStep == TypeParts /\ [AttachNext]_attachVars => TypeParts'
<1> SUFFICES ASSUME TypeParts, [AttachNext]_attachVars PROVE TypeParts'
  OBVIOUS
<1>0. conn \in Conns
  BY DEF TypeParts, ClientTyped
<1>1. MainStep \/ CallbackStep \/ UNCHANGED <<client, cb>>
  <2>1. PressPaste \/ PasteStep => UNCHANGED <<client, cb>>
    BY DEF PressPaste, PasteStep, UploadEnds, UploadCloses, WaitUpload, VerifyUpload, TypePath,
           EndPaste
  <2>2. JobStep => UNCHANGED <<client, cb>>
    BY DEF JobStep, CreateBranch, ApplyBranch, DeleteBranch, JobOver, SendRequest
  <2>3. \A c \in Conns : GatewayStep(c) \/ LinkBreaks(c) \/ SessionEnds(c)
          \/ (\E k \in {"attach", "create", "apply", "delete"} : Ask(c, k))
             => UNCHANGED <<client, cb>>
    BY DEF GatewayStep, RegisterOpen, StartSession, Clog, GatewayExits, LinkBreaks, SessionEnds, Ask
  <2>4. UNCHANGED attachVars => UNCHANGED <<client, cb>>
    BY DEF attachVars
  <2> QED BY <2>1, <2>2, <2>3, <2>4 DEF AttachNext
<1>2. Leave \/ TakeRequest \/ SendRequest \/ UNCHANGED inbox
  <2>1. MainStep => Leave \/ UNCHANGED inbox
    BY DEF MainStep, Dial, OpenEvents, OpenPty, AssignPty, CheckRequest, SessionOver
  <2>2. CallbackStep => TakeRequest \/ UNCHANGED inbox
    BY DEF CallbackStep, NoteRequest, CloseForRequest
  <2>3. JobStep => SendRequest \/ UNCHANGED inbox
    BY DEF JobStep, CreateBranch, ApplyBranch, DeleteBranch, JobOver
  <2>4. PressPaste \/ PasteStep => UNCHANGED inbox
    BY DEF PressPaste, PasteStep, UploadEnds, UploadCloses, WaitUpload, VerifyUpload, TypePath,
           EndPaste
  <2>5. \A c \in Conns : GatewayStep(c) \/ LinkBreaks(c) \/ SessionEnds(c)
          \/ (\E k \in {"attach", "create", "apply", "delete"} : Ask(c, k)) => UNCHANGED inbox
    BY DEF GatewayStep, RegisterOpen, StartSession, Clog, GatewayExits, LinkBreaks, SessionEnds, Ask
  <2>6. UNCHANGED attachVars => UNCHANGED inbox
    BY DEF attachVars
  <2> QED BY <2>1, <2>2, <2>3, <2>4, <2>5, <2>6 DEF AttachNext
<1>3. \/ JobStep \/ UNCHANGED asked
      \/ \E c \in Conns : GatewayExits(c) \/ SessionEnds(c)
                         \/ \E k \in {"attach", "create", "apply", "delete"} : Ask(c, k)
  <2>1. MainStep \/ CallbackStep => UNCHANGED asked
    BY DEF MainStep, Dial, OpenEvents, OpenPty, AssignPty, CheckRequest, SessionOver, Leave,
           CallbackStep, TakeRequest, NoteRequest, CloseForRequest
  <2>2. PressPaste \/ PasteStep => UNCHANGED asked
    BY DEF PressPaste, PasteStep, UploadEnds, UploadCloses, WaitUpload, VerifyUpload, TypePath,
           EndPaste
  <2>3. \A c \in Conns :
          RegisterOpen(c) \/ StartSession(c) \/ Clog(c) \/ LinkBreaks(c) => UNCHANGED asked
    BY DEF RegisterOpen, StartSession, Clog, LinkBreaks
  <2>4. UNCHANGED attachVars => UNCHANGED asked
    BY DEF attachVars
  <2> QED BY <2>1, <2>2, <2>3, <2>4 DEF AttachNext, GatewayStep
<1>4. \/ PressPaste \/ PasteStep \/ UNCHANGED paste
      \/ \E c \in Conns : GatewayExits(c)
  <2>1. MainStep \/ CallbackStep => UNCHANGED paste
    BY DEF MainStep, Dial, OpenEvents, OpenPty, AssignPty, CheckRequest, SessionOver, Leave,
           CallbackStep, TakeRequest, NoteRequest, CloseForRequest
  <2>2. JobStep => UNCHANGED paste
    BY DEF JobStep, CreateBranch, ApplyBranch, DeleteBranch, JobOver, SendRequest
  <2>3. \A c \in Conns :
          RegisterOpen(c) \/ StartSession(c) \/ Clog(c) \/ LinkBreaks(c) \/ SessionEnds(c)
          \/ (\E k \in {"attach", "create", "apply", "delete"} : Ask(c, k)) => UNCHANGED paste
    BY DEF RegisterOpen, StartSession, Clog, LinkBreaks, SessionEnds, Ask
  <2>4. UNCHANGED attachVars => UNCHANGED paste
    BY DEF attachVars
  <2> QED BY <2>1, <2>2, <2>3, <2>4 DEF AttachNext, GatewayStep
<1>5. ClientTyped'
  BY <1>1, ClientTypes DEF TypeParts
<1>6. LinesTyped'
  BY LinesTypes
<1>7. InboxTyped'
  BY <1>0, <1>2, InboxTypes DEF TypeParts
<1>8. JobTyped'
  BY <1>3, JobTypes DEF TypeParts
<1>9. UploadTyped'
  BY <1>0, <1>4, UploadTypes DEF TypeParts
<1> QED BY <1>5, <1>6, <1>7, <1>8, <1>9 DEF TypeParts

\* Init establishes them.
LEMMA InitParts == AttachInit => TypeParts
<1> SUFFICES ASSUME AttachInit PROVE TypeParts
  OBVIOUS
<1> USE Bounds DEF AttachInit
<1>1. ClientTyped
  BY DEF ClientTyped, Idle
<1>2. LinesTyped
  BY DEF LinesTyped
<1>3. InboxTyped
  BY DEF InboxTyped
<1>4. JobTyped
  BY DEF JobTyped, NoJob
<1>5. UploadTyped
  BY DEF UploadTyped, PasteTyped, NoReply
<1> QED BY <1>1, <1>2, <1>3, <1>4, <1>5 DEF TypeParts

\* The client dials for an app only, and every request under way names one.
THEOREM AttachTyping == AttachSpec => []AttachTypeOK
BY InitParts, PartsStep, PartsAreTypes, PTL DEF AttachSpec

-----------------------------------------------------------------------------
(* The client's side: requests to go on to another app.                    *)

\* What the main goroutine has done of the pty when it looks for a request.
PtyUsed ==
  /\ main \in {"assign", "check", "run"} => pty[conn] # "none"
  /\ main \in {"check", "run"} => ptyVar

\* Steps that leave the client's goroutines alone open and forget no pty.
LEMMA AsideRequest ==
  ASSUME LinesTyped, conn \in Conns, PtyUsed, RequestNotLost, UNCHANGED <<client, cb>>,
         UNCHANGED pty \/ \E c \in Conns : ClosePty(c)
  PROVE  PtyUsed' /\ RequestNotLost'
<1>1. pty'[conn] \in {pty[conn], "closed"}
  BY DEF ClosePty, LinesTyped
<1> QED BY <1>1 DEF PtyUsed, RequestNotLost, client

\* Every step: the callback may note a request before, between and after what
\* OpenPty, AssignPty and CheckRequest do.
LEMMA RequestStep ==
  TypeParts /\ PtyUsed /\ RequestNotLost /\ [AttachNext]_attachVars
    => PtyUsed' /\ RequestNotLost'
<1> SUFFICES ASSUME LinesTyped, ClientTyped, PtyUsed, RequestNotLost, [AttachNext]_attachVars
             PROVE  PtyUsed' /\ RequestNotLost'
  BY DEF TypeParts
<1>0. conn \in Conns
  BY DEF ClientTyped
<1>1. CASE MainStep
  <2> USE <1>0 DEF PtyUsed, RequestNotLost, LinesTyped
  <2>1. CASE Dial \/ OpenEvents
    BY <2>1 DEF Dial, OpenEvents
  <2>2. CASE OpenPty
    BY <2>2 DEF OpenPty
  <2>3. CASE AssignPty
    BY <2>3 DEF AssignPty
  <2>4. CASE CheckRequest
    BY <2>4 DEF CheckRequest, ClosePty
  <2>5. CASE SessionOver \/ Leave
    BY <2>5 DEF SessionOver, Leave
  <2> QED BY <1>1, <2>1, <2>2, <2>3, <2>4, <2>5 DEF MainStep
<1>2. CASE CallbackStep
  <2> USE <1>0 DEF PtyUsed, RequestNotLost, LinesTyped, client
  <2>1. CASE TakeRequest
    BY <2>1 DEF TakeRequest
  <2>2. CASE NoteRequest
    BY <2>2 DEF NoteRequest
  <2>3. CASE CloseForRequest
    BY <2>3 DEF CloseForRequest, ClosePty
  <2> QED BY <1>2, <2>1, <2>2, <2>3 DEF CallbackStep
<1>3. CASE JobStep \/ PressPaste \/ PasteStep
  <2>1. UNCHANGED <<client, cb, pty>>
    BY <1>3 DEF JobStep, CreateBranch, ApplyBranch, DeleteBranch, JobOver, SendRequest,
                PressPaste, PasteStep, UploadEnds, UploadCloses, WaitUpload, VerifyUpload,
                TypePath, EndPaste
  <2> QED BY <1>0, <2>1, AsideRequest
<1>4. ASSUME NEW c \in Conns,
             \/ GatewayStep(c) \/ LinkBreaks(c) \/ SessionEnds(c)
             \/ \E k \in {"attach", "create", "apply", "delete"} : Ask(c, k)
      PROVE  PtyUsed' /\ RequestNotLost'
  <2>1. UNCHANGED <<client, cb>> /\ (UNCHANGED pty \/ ClosePty(c))
    BY <1>4 DEF GatewayStep, RegisterOpen, StartSession, Clog, GatewayExits, LinkBreaks, SessionEnds, Ask
  <2> QED BY <1>0, <2>1, AsideRequest
<1>5. CASE UNCHANGED attachVars
  BY <1>0, <1>5, AsideRequest DEF attachVars
<1> QED BY <1>1, <1>2, <1>3, <1>4, <1>5 DEF AttachNext

\* Run and the callback share switchReq under a lock and ptyStream without
\* one: however they interleave, once Run only waits for the pty to end, a
\* request that has been noted has closed it or the callback will.
THEOREM NotLost == AttachSpec => []RequestNotLost
<1>1. AttachInit => PtyUsed /\ RequestNotLost
  BY DEF AttachInit, PtyUsed, RequestNotLost
<1> QED BY InitParts, PartsStep, RequestStep, <1>1, PTL DEF AttachSpec

-----------------------------------------------------------------------------
(* The client's side: what the sessions depend on.                         *)

\* A connection is up while it is in use only, and only then something starts.
LinkUse ==
  /\ main = "exit" => link[conn] # "up"
  /\ \A c \in Conns :
       /\ c < conn => link[c] = "down"
       /\ c > conn \/ (c = conn /\ main = "dial") => link[c] = "none"
       /\ link[c] = "none" => ~gate[c] /\ pty[c] = "none" /\ sess[c] = "none"

\* Every step of the client's main goroutine, ...
LEMMA MainGateway ==
  ASSUME LinesTyped, ClientTyped, LinkUse, SessionHasGateway, MainStep
  PROVE  LinkUse' /\ SessionHasGateway'
<1>0. conn \in Conns /\ conn \in Nat /\ MaxConns \in Nat /\ \A c \in Conns : c \in Nat
  BY Bounds DEF ClientTyped, Conns
<1> USE <1>0 DEF LinkUse, SessionHasGateway, LinesTyped, host
<1>1. CASE Dial
  BY <1>1 DEF Dial
<1>2. CASE OpenEvents \/ AssignPty \/ SessionOver
  BY <1>2 DEF OpenEvents, AssignPty, SessionOver
<1>3. CASE OpenPty
  BY <1>3 DEF OpenPty
<1>4. CASE CheckRequest
  BY <1>4 DEF CheckRequest, ClosePty
<1>5. CASE Leave
  <2>1. \/ main' = "exit" /\ conn' = conn
        \/ main' = "dial" /\ conn' = conn + 1
    BY <1>5 DEF Leave
  <2>2. /\ link' = [link EXCEPT ![conn] = "down"] /\ UNCHANGED host
        /\ \A c \in Conns \ {conn} : pty'[c] = pty[c]
    BY <1>5 DEF Leave, ClosePty
  <2>3. main = "leave"
    BY <1>5 DEF Leave
  <2>4. \A c \in Conns : c < conn' => link'[c] = "down"
    BY <2>1, <2>2
  <2>5. \A c \in Conns : c > conn' \/ (c = conn' /\ main' = "dial") => link'[c] = "none"
    BY <2>1, <2>2
  <2>6. \A c \in Conns : link'[c] = "none" => c # conn /\ link[c] = "none"
    BY <2>2
  <2>7. LinkUse'
    BY <2>1, <2>2, <2>4, <2>5, <2>6
  <2> QED BY <2>1, <2>2, <2>4, <2>7
<1> QED BY <1>1, <1>2, <1>3, <1>4, <1>5 DEF MainStep

\* ... every step of one connection's host side and network, ...
LEMMA HostGateway ==
  ASSUME LinesTyped, ClientTyped, LinkUse, SessionHasGateway, NEW c \in Conns,
         \/ GatewayStep(c) \/ LinkBreaks(c) \/ SessionEnds(c)
         \/ \E k \in {"attach", "create", "apply", "delete"} : Ask(c, k)
  PROVE  LinkUse' /\ SessionHasGateway'
<1>0. conn \in Conns /\ conn \in Nat /\ \A d \in Conns : d \in Nat
  BY Bounds DEF ClientTyped, Conns
<1> USE <1>0 DEF LinkUse, SessionHasGateway, LinesTyped, host, client
<1>1. CASE RegisterOpen(c) \/ Clog(c)
  BY <1>1 DEF RegisterOpen, Clog
<1>2. CASE StartSession(c)
  <2>1. link[c] # "none" /\ gate[c] /\ UNCHANGED <<main, conn, link, gate>>
    BY <1>2 DEF StartSession
  <2>2. \A d \in Conns \ {c} : sess'[d] = sess[d] /\ pty'[d] = pty[d]
    BY <1>2 DEF StartSession, ClosePty
  <2>3. c < conn \/ main = "exit" => link[c] = "down"
    BY <2>1
  <2> QED BY <2>1, <2>2, <2>3
<1>3. CASE GatewayExits(c)
  BY <1>3 DEF GatewayExits
<1>4. CASE LinkBreaks(c)
  BY <1>4 DEF LinkBreaks, ClosePty
<1>5. CASE SessionEnds(c)
  BY <1>5 DEF SessionEnds, ClosePty
<1>6. ASSUME NEW k \in {"attach", "create", "apply", "delete"}, Ask(c, k)
      PROVE  LinkUse' /\ SessionHasGateway'
  BY <1>6 DEF Ask
<1> QED BY <1>1, <1>2, <1>3, <1>4, <1>5, <1>6 DEF GatewayStep

\* ... and every other step.
LEMMA AsideGateway ==
  ASSUME LinesTyped, ClientTyped, LinkUse, SessionHasGateway,
         CallbackStep \/ JobStep \/ PressPaste \/ PasteStep \/ UNCHANGED attachVars
  PROVE  LinkUse' /\ SessionHasGateway'
<1>1. /\ UNCHANGED <<main, conn, link, gate, sess>>
      /\ UNCHANGED pty \/ ClosePty(conn)
  <2>1. CASE CallbackStep
    BY <2>1 DEF CallbackStep, TakeRequest, NoteRequest, CloseForRequest, client, host
  <2>2. CASE JobStep
    BY <2>2 DEF JobStep, CreateBranch, ApplyBranch, DeleteBranch, JobOver, SendRequest, client, host
  <2>3. CASE PressPaste \/ PasteStep
    BY <2>3 DEF PressPaste, PasteStep, UploadEnds, UploadCloses, WaitUpload, VerifyUpload,
                TypePath, EndPaste, client, host
  <2>4. CASE UNCHANGED attachVars
    BY <2>4 DEF attachVars, client, host
  <2> QED BY <2>1, <2>2, <2>3, <2>4
<1>2. \A c \in Conns : pty[c] = "none" => pty'[c] = "none"
  BY <1>1 DEF ClosePty, LinesTyped
<1> QED BY <1>1, <1>2 DEF LinkUse, SessionHasGateway

\* Of all connections an attach makes: a session process is never without the
\* gateway whose end ends it, and once the client has left a connection its
\* gateway will see the end of it.
THEOREM HasGateway == AttachSpec => []SessionHasGateway
<1>1. AttachInit => LinkUse /\ SessionHasGateway
  BY Bounds DEF AttachInit, LinkUse, SessionHasGateway, Conns
<1>2. TypeParts /\ LinkUse /\ SessionHasGateway /\ [AttachNext]_attachVars
        => LinkUse' /\ SessionHasGateway'
  BY MainGateway, HostGateway, AsideGateway DEF AttachNext, TypeParts
<1> QED BY InitParts, PartsStep, <1>1, <1>2, PTL DEF AttachSpec
=============================================================================
