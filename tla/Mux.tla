-------------------------------- MODULE Mux --------------------------------
(***************************************************************************)
(* internal/mux: streams multiplexed over one ssh connection between the   *)
(* viberun client and `viberun-server gateway`.                            *)
(*                                                                         *)
(* Goroutines of one end e:                                                *)
(*   - the read loop (loop[e]), the only reader of the connection, which   *)
(*     BLOCKS in pushData/pushMsg while a stream's channel is full;        *)
(*   - per stream and kind, a reader (Read or ReceiveMsg);                 *)
(*   - the callers of Write and SendMsg;                                   *)
(*   - whoever runs a stream's sync.Once (Close or remoteClose);           *)
(*   - the callers of Mux.Close: the read loop on an error, and on the     *)
(*     client gatewayClient.Close.                                         *)
(* One action is one atomic step of one of them.  Shutting a stream is     *)
(* several steps, in the code's order, because the properties depend on    *)
(* what the others see in between.  Payloads are numbered per lane.        *)
(***************************************************************************)
EXTENDS Integers, Sequences

CONSTANTS
  Openers,   \* ends that call OpenStream (the program: the client only)
  Writers,   \* ends whose users write payloads
  Kinds,     \* kinds of payload in use, of "data" and "msg"
  MaxId,     \* bound: largest stream id
  MaxSent,   \* bound: payloads written per lane
  ChanCap,   \* capacity of dataCh and msgCh (8 in the code)
  WireCap    \* frames the connection holds before a write blocks

Ends == {"client", "server"}
Peer(e) == IF e = "client" THEN "server" ELSE "client"
Ids == 1..MaxId
Closers == {"loop", "app"}
Entering == -1

ASSUME MuxAssumption ==
  /\ Openers \subseteq Ends /\ Writers \subseteq Ends
  /\ Kinds \subseteq {"data", "msg"}
  /\ MaxId \in Nat \ {0}
  /\ MaxSent \in Nat
  /\ ChanCap \in Nat \ {0}
  /\ WireCap \in Nat \ {0}

VARIABLES
  alive,     \* alive[e]: the process has neither exited nor panicked
  link,      \* the ssh connection: "up" or "down"
  wire,      \* wire[e]: frames written by the peer, not yet read by e
  nextID,    \* Mux.nextID
  streams,   \* keys of Mux.streams
  streamMu,  \* who holds Mux.streamMu across steps: "free", "loop", "app"
  closedCh,  \* Mux.closed has been closed
  opening,   \* id an OpenStream has registered and not yet announced, Entering
             \* before it has one, 0 when there is none
  muxClose,  \* muxClose[e][g]: progress of g's call of Mux.Close
  loop,      \* the read loop and the frame it is working on
  st,        \* st[e][id]: how far the stream is through its life
  owner,     \* who took the stream's sync.Once
  queue,     \* queue[e][id][k]: content of dataCh or msgCh
  reader,    \* reader[e][id][k]: the goroutine in Read or ReceiveMsg
  sent,      \* history: payloads written per lane
  got,       \* history: number of the last payload read per lane
  reads      \* history: payloads read per lane

procs == <<alive, link, closedCh, muxClose, streamMu>>
table == <<nextID, streams, opening>>
stream == <<st, owner>>
lane == <<queue, reader, got, reads>>
vars == <<procs, table, stream, lane, wire, loop, sent>>

(***************************************************************************)
(* The life of a stream.  "closing": Close has taken the Once and not      *)
(* written the close frame; "signalled": the frame is written (or failed,  *)
(* or is not owed) and closeCh is closed; "shut": the closed flag is set,  *)
(* dataCh and msgCh are closed; "done": the Once is left.                  *)
(*                                                                         *)
(* closeCh is closed in the step that writes the frame: in between nobody  *)
(* can tell the stream from an open one.  The flag goes up in the step     *)
(* that closes the channels: whoever tests the flag goes on to the         *)
(* channels in a later step, so it can still find them either way.         *)
(***************************************************************************)
Stages == {"none", "open", "closing", "signalled", "shut", "done"}
Signalled == {"signalled", "shut", "done"}  \* closeCh is closed
Shut == {"shut", "done"}    \* isClosed() holds, dataCh and msgCh are closed

Owners == {"nobody", "local", "reject", "remote", "mux"}
LoopStates == {"read", "push", "close", "reject", "stop"}
Frame == [type : {"open", "close"} \cup Kinds, id : Ids, n : 0..MaxSent]
Idle == [pc |-> "read", type |-> "close", id |-> 1, n |-> 0]
At(pc, f) == [pc |-> pc, type |-> f.type, id |-> f.id, n |-> f.n]

\* newStream
NewLane(k) == IF k = "data" THEN "check" ELSE "select"

Init ==
  /\ alive = [e \in Ends |-> TRUE]
  /\ link = "up"
  /\ wire = [e \in Ends |-> <<>>]
  /\ nextID = [e \in Ends |-> IF e = "client" THEN 1 ELSE 2]
  /\ streams = [e \in Ends |-> {}]
  /\ streamMu = [e \in Ends |-> "free"]
  /\ closedCh = [e \in Ends |-> FALSE]
  /\ opening = [e \in Ends |-> 0]
  /\ muxClose = [e \in Ends |-> [g \in Closers |-> "idle"]]
  /\ loop = [e \in Ends |-> Idle]
  /\ st = [e \in Ends |-> [id \in Ids |-> "none"]]
  /\ owner = [e \in Ends |-> [id \in Ids |-> "nobody"]]
  /\ queue = [e \in Ends |-> [id \in Ids |-> [k \in Kinds |-> <<>>]]]
  /\ reader = [e \in Ends |-> [id \in Ids |-> [k \in Kinds |-> NewLane(k)]]]
  /\ sent = [e \in Ends |-> [id \in Ids |-> [k \in Kinds |-> 0]]]
  /\ got = [e \in Ends |-> [id \in Ids |-> [k \in Kinds |-> 0]]]
  /\ reads = [e \in Ends |-> [id \in Ids |-> [k \in Kinds |-> 0]]]

\* writeFrame fails: m.closed, or the connection is gone.
WriteFails(e) == closedCh[e] \/ link = "down"
\* writeFrame goes through; otherwise it blocks, holding m.mu.
CanWrite(e) == ~WriteFails(e) /\ Len(wire[Peer(e)]) < WireCap
WriteFrame(e, f) == wire' = [wire EXCEPT ![Peer(e)] = Append(@, f)]
\* The process of end e is gone, and its side of the connection with it.
Dies(e) ==
  /\ alive' = [alive EXCEPT ![e] = FALSE]
  /\ link' = "down"
  /\ wire' = [wire EXCEPT ![e] = <<>>]

\* A user of the stream at end e: OpenStream has returned it, or a handler
\* was started for it.
HasUser(e, id) ==
  /\ alive[e]
  /\ st[e][id] # "none" /\ opening[e] # id /\ owner[e][id] # "reject"

-----------------------------------------------------------------------------
(* OpenStream, Write, SendMsg                                              *)

\* OpenStream's check of m.closed.  What follows is not under its lock: the
\* mux may be closed, and its table replaced, before the stream is registered.
OpenCheck(e) ==
  /\ e \in Openers /\ alive[e] /\ ~closedCh[e]
  /\ opening[e] = 0 /\ nextID[e] <= MaxId
  /\ opening' = [opening EXCEPT ![e] = Entering]
  /\ UNCHANGED <<procs, nextID, streams, stream, lane, wire, loop, sent>>

\* Mutant: the stream is not in the table while the open frame is written.
OpenRegisterLate(e) ==
  /\ alive[e] /\ opening[e] = Entering /\ streamMu[e] = "free"
  /\ opening' = [opening EXCEPT ![e] = nextID[e]]
  /\ st' = [st EXCEPT ![e][nextID[e]] = "open"]
  /\ nextID' = [nextID EXCEPT ![e] = @ + 2]
  /\ UNCHANGED <<procs, streams, owner, lane, wire, loop, sent>>

\* nextStreamID hands out the id, and the stream is registered: nobody can
\* tell what happens in between.
OpenRegister(e) ==
  /\ alive[e] /\ opening[e] = Entering /\ streamMu[e] = "free"
  /\ opening' = [opening EXCEPT ![e] = nextID[e]]
  /\ streams' = [streams EXCEPT ![e] = @ \cup {nextID[e]}]
  /\ st' = [st EXCEPT ![e][nextID[e]] = "open"]
  /\ nextID' = [nextID EXCEPT ![e] = @ + 2]
  /\ UNCHANGED <<procs, owner, lane, wire, loop, sent>>

\* The rest of OpenStream: the open frame goes out, or the entry is deleted.
OpenAnnounce(e) ==
  /\ alive[e] /\ opening[e] \in Ids
  /\ opening' = [opening EXCEPT ![e] = 0]
  /\ \/ /\ CanWrite(e)
        /\ WriteFrame(e, [type |-> "open", id |-> opening[e], n |-> 0])
        /\ UNCHANGED <<streams, st>>
     \/ /\ WriteFails(e) /\ streamMu[e] = "free"
        /\ streams' = [streams EXCEPT ![e] = @ \ {opening[e]}]
        /\ st' = [st EXCEPT ![e][opening[e]] = "done"]
        /\ UNCHANGED wire
  /\ UNCHANGED <<procs, nextID, owner, lane, loop, sent>>

\* Mutant: the buffered writer is not flushed.
SendUnflushed(e, id, k) ==
  /\ e \in Writers /\ HasUser(e, id) /\ st[e][id] \notin Shut
  /\ CanWrite(e) /\ sent[e][id][k] < MaxSent
  /\ sent' = [sent EXCEPT ![e][id][k] = @ + 1]
  /\ UNCHANGED <<wire, procs, table, stream, lane, loop>>

\* Stream.Write (k = "data") and Stream.SendMsg (k = "msg").
Send(e, id, k) ==
  /\ e \in Writers /\ HasUser(e, id) /\ st[e][id] \notin Shut
  /\ CanWrite(e) /\ sent[e][id][k] < MaxSent
  /\ sent' = [sent EXCEPT ![e][id][k] = @ + 1]
  /\ WriteFrame(e, [type |-> k, id |-> id, n |-> sent[e][id][k] + 1])
  /\ UNCHANGED <<procs, table, stream, lane, loop>>

-----------------------------------------------------------------------------
(* Read and ReceiveMsg                                                     *)

\* The head of Read's loop: EOF at once when the closed flag is up.
ReadCheck(e, id) ==
  /\ "data" \in Kinds /\ HasUser(e, id) /\ reader[e][id]["data"] = "check"
  /\ reader' = [reader EXCEPT ![e][id]["data"] =
                  IF st[e][id] \in Shut THEN "eof" ELSE "select"]
  /\ UNCHANGED <<procs, table, stream, queue, got, reads, wire, loop, sent>>

\* The select takes a payload.
Receive(e, id, k) ==
  /\ HasUser(e, id) /\ reader[e][id][k] = "select" /\ queue[e][id][k] # <<>>
  /\ got' = [got EXCEPT ![e][id][k] = Head(queue[e][id][k])]
  /\ reads' = [reads EXCEPT ![e][id][k] = @ + 1]
  /\ queue' = [queue EXCEPT ![e][id][k] = Tail(@)]
  /\ reader' = [reader EXCEPT ![e][id][k] = NewLane(k)]
  /\ UNCHANGED <<procs, table, stream, wire, loop, sent>>

\* The select takes closeCh, whatever the channel still holds.
ReceiveEOF(e, id, k) ==
  /\ HasUser(e, id) /\ reader[e][id][k] = "select" /\ st[e][id] \in Signalled
  /\ reader' = [reader EXCEPT ![e][id][k] = "eof"]
  /\ UNCHANGED <<procs, table, stream, queue, got, reads, wire, loop, sent>>

-----------------------------------------------------------------------------
(* Close and remoteClose: the steps inside sync.Once                       *)

\* A user calls Close; a later call waits for the Once and does nothing.
Close(e, id) ==
  /\ HasUser(e, id) /\ st[e][id] = "open"
  /\ st' = [st EXCEPT ![e][id] = "closing"]
  /\ owner' = [owner EXCEPT ![e][id] = "local"]
  /\ UNCHANGED <<procs, table, lane, wire, loop, sent>>

\* The close frame, its error ignored, and close(closeCh).
CloseAnnounce(e, id) ==
  /\ alive[e] /\ st[e][id] = "closing"
  /\ \/ CanWrite(e) /\ WriteFrame(e, [type |-> "close", id |-> id, n |-> 0])
     \/ WriteFails(e) /\ UNCHANGED wire
  /\ st' = [st EXCEPT ![e][id] = "signalled"]
  /\ UNCHANGED <<procs, table, owner, lane, loop, sent>>

\* closed = true; close(dataCh); close(msgCh)
ShutStep(e, id) ==
  /\ alive[e] /\ st[e][id] = "signalled"
  /\ st' = [st EXCEPT ![e][id] = "shut"]
  /\ UNCHANGED <<procs, table, owner, lane, wire, loop, sent>>

\* Mutant: remoteClose removes the stream from the table as well.
LeaveOnceRemoving(e, id) ==
  /\ alive[e] /\ st[e][id] = "shut"
  /\ streamMu[e] = "free"
  /\ streams' = [streams EXCEPT ![e] = @ \ {id}]
  /\ st' = [st EXCEPT ![e][id] = "done"]
  /\ UNCHANGED <<procs, nextID, opening, owner, lane, wire, loop, sent>>

\* Leaving the Once.  Close calls mux.remove inside it, so it needs streamMu;
\* remoteClose does not.
LeaveOnce(e, id) ==
  /\ alive[e] /\ st[e][id] = "shut"
  /\ IF owner[e][id] \in {"local", "reject"}
     THEN /\ streamMu[e] = "free"
          /\ streams' = [streams EXCEPT ![e] = @ \ {id}]
     ELSE UNCHANGED streams
  /\ st' = [st EXCEPT ![e][id] = "done"]
  /\ UNCHANGED <<procs, nextID, opening, owner, lane, wire, loop, sent>>

-----------------------------------------------------------------------------
(* readLoop                                                                *)

\* readFrame returns a frame; every handler first takes streamMu.
HasFrame(e, types) ==
  /\ alive[e] /\ loop[e].pc = "read" /\ wire[e] # <<>>
  /\ Head(wire[e]).type \in types /\ streamMu[e] = "free"
TakeFrame(e) == wire' = [wire EXCEPT ![e] = Tail(@)]

\* handleOpen, for a type with a handler and for an unknown one (the peer is
\* another version): the read loop then closes the stream itself.
HandleOpen(e) ==
  /\ HasFrame(e, {"open"})
  /\ TakeFrame(e)
  /\ LET f == Head(wire[e]) IN
       /\ streams' = [streams EXCEPT ![e] = @ \cup {f.id}]
       /\ \/ /\ st' = [st EXCEPT ![e][f.id] = "open"]
             /\ UNCHANGED <<owner, loop>>
          \/ /\ st' = [st EXCEPT ![e][f.id] = "closing"]
             /\ owner' = [owner EXCEPT ![e][f.id] = "reject"]
             /\ loop' = [loop EXCEPT ![e] = At("reject", f)]
  /\ UNCHANGED <<procs, nextID, opening, lane, sent>>

\* handleData and handleMsg up to pushData's and pushMsg's isClosed test.
HandlePayload(e) ==
  /\ HasFrame(e, Kinds)
  /\ TakeFrame(e)
  /\ LET f == Head(wire[e]) IN
       IF f.id \in streams[e] /\ st[e][f.id] \notin Shut
       THEN loop' = [loop EXCEPT ![e] = At("push", f)]
       ELSE UNCHANGED loop
  /\ UNCHANGED <<procs, table, stream, lane, sent>>

\* Mutant: the channel has no capacity.
PushUnbounded(e) ==
  /\ alive[e] /\ loop[e].pc = "push"
  /\ LET id == loop[e].id
         k == loop[e].type
     IN \/ /\ st[e][id] \notin Shut
           /\ queue' = [queue EXCEPT ![e][id][k] = Append(@, loop[e].n)]
        \/ /\ st[e][id] \in Signalled
           /\ UNCHANGED queue
  /\ loop' = [loop EXCEPT ![e] = Idle]
  /\ UNCHANGED <<procs, table, stream, reader, got, reads, wire, sent>>

\* Mutant: a payload nobody waits for is dropped.
PushOrDrop(e) ==
  /\ alive[e] /\ loop[e].pc = "push"
  /\ LET id == loop[e].id
         k == loop[e].type
     IN \/ /\ st[e][id] \notin Shut /\ Len(queue[e][id][k]) < ChanCap
           /\ queue' = [queue EXCEPT ![e][id][k] = Append(@, loop[e].n)]
        \/ /\ st[e][id] \in Signalled \/ reader[e][id][k] # "select"
           /\ UNCHANGED queue
  /\ loop' = [loop EXCEPT ![e] = Idle]
  /\ UNCHANGED <<procs, table, stream, reader, got, reads, wire, sent>>

\* The select of pushData and pushMsg: into the channel when it has room, or
\* dropped on closeCh.  With both ready Go picks either.
Push(e) ==
  /\ alive[e] /\ loop[e].pc = "push"
  /\ LET id == loop[e].id
         k == loop[e].type
     IN \/ /\ st[e][id] \notin Shut /\ Len(queue[e][id][k]) < ChanCap
           /\ queue' = [queue EXCEPT ![e][id][k] = Append(@, loop[e].n)]
        \/ /\ st[e][id] \in Signalled
           /\ UNCHANGED queue
  /\ loop' = [loop EXCEPT ![e] = Idle]
  /\ UNCHANGED <<procs, table, stream, reader, got, reads, wire, sent>>

\* The same select when the channel has been closed since the isClosed test:
\* a send on a closed channel panics and takes the process down.
PushPanics(e) ==
  /\ alive[e] /\ loop[e].pc = "push" /\ st[e][loop[e].id] \in Shut
  /\ Dies(e)
  /\ UNCHANGED <<closedCh, muxClose, streamMu, table, stream, lane, loop, sent>>

\* Mutant: remoteClose runs in a goroutine of its own.
HandleCloseAsync(e) ==
  /\ HasFrame(e, {"close"})
  /\ TakeFrame(e)
  /\ LET id == Head(wire[e]).id IN
       /\ UNCHANGED loop
       /\ IF id \in streams[e] /\ st[e][id] = "open"
          THEN /\ st' = [st EXCEPT ![e][id] = "signalled"]
               /\ owner' = [owner EXCEPT ![e][id] = "remote"]
          ELSE UNCHANGED stream
  /\ UNCHANGED <<procs, table, lane, sent>>

\* handleClose: remoteClose takes the Once, or waits for whoever has it.
HandleClose(e) ==
  /\ HasFrame(e, {"close"})
  /\ TakeFrame(e)
  /\ LET id == Head(wire[e]).id IN
       /\ IF id \in streams[e]
          THEN loop' = [loop EXCEPT ![e] = At("close", Head(wire[e]))]
          ELSE UNCHANGED loop
       /\ IF id \in streams[e] /\ st[e][id] = "open"
          THEN /\ st' = [st EXCEPT ![e][id] = "signalled"]
               /\ owner' = [owner EXCEPT ![e][id] = "remote"]
          ELSE UNCHANGED stream
  /\ UNCHANGED <<procs, table, lane, sent>>

\* remoteClose (or the Close of a rejected stream) has returned.
LoopResumes(e) ==
  /\ alive[e] /\ loop[e].pc \in {"close", "reject"}
  /\ st[e][loop[e].id] = "done"
  /\ loop[e].pc = "close" => streamMu[e] = "free"
  /\ streams' = [streams EXCEPT ![e] = @ \ {loop[e].id}]
  /\ loop' = [loop EXCEPT ![e] = Idle]
  /\ UNCHANGED <<procs, nextID, opening, stream, lane, wire, sent>>

\* readFrame fails: the connection is down, and frames still in flight are
\* lost; or the client has closed it and everything has been read.
ReadFails(e) ==
  /\ alive[e] /\ loop[e].pc = "read"
  /\ \/ link = "down"
     \/ e = "server" /\ closedCh["client"] /\ wire[e] = <<>>
  /\ loop' = [loop EXCEPT ![e].pc = "stop"]
  /\ wire' = [wire EXCEPT ![e] = <<>>]
  /\ UNCHANGED <<procs, table, stream, lane, sent>>

-----------------------------------------------------------------------------
(* Mux.Close                                                               *)

\* Mux.Close's select; the read loop calls it on an error, gatewayClient.Close
\* on the client at any time.
MuxCloseEnter(e, g) ==
  /\ alive[e] /\ muxClose[e][g] = "idle"
  /\ IF g = "loop" THEN loop[e].pc = "stop" ELSE e = "client"
  /\ muxClose' = [muxClose EXCEPT ![e][g] = IF closedCh[e] THEN "done" ELSE "chosen"]
  /\ UNCHANGED <<alive, link, closedCh, streamMu, table, stream, lane, wire, loop, sent>>

\* close(m.closed), which panics when the other caller was faster.
MuxCloseSignal(e, g) ==
  /\ alive[e] /\ muxClose[e][g] = "chosen"
  /\ IF closedCh[e]
     THEN /\ Dies(e)
          /\ UNCHANGED <<closedCh, muxClose>>
     ELSE /\ closedCh' = [closedCh EXCEPT ![e] = TRUE]
          /\ muxClose' = [muxClose EXCEPT ![e][g] = "locking"]
          /\ UNCHANGED <<alive, link, wire>>
  /\ UNCHANGED <<streamMu, table, stream, lane, loop, sent>>

MuxCloseLock(e, g) ==
  /\ alive[e] /\ muxClose[e][g] = "locking" /\ streamMu[e] = "free"
  /\ muxClose' = [muxClose EXCEPT ![e][g] = "sweeping"]
  /\ streamMu' = [streamMu EXCEPT ![e] = g]
  /\ UNCHANGED <<alive, link, closedCh, table, stream, lane, wire, loop, sent>>

\* remoteClose of the next stream, under streamMu, one after the other.
MuxCloseStream(e, g, id) ==
  /\ alive[e] /\ muxClose[e][g] = "sweeping" /\ id \in streams[e]
  /\ \A i \in streams[e] : owner[e][i] = "mux" => st[e][i] = "done"
  /\ st[e][id] = "open"
  /\ st' = [st EXCEPT ![e][id] = "signalled"]
  /\ owner' = [owner EXCEPT ![e][id] = "mux"]
  /\ UNCHANGED <<procs, table, lane, wire, loop, sent>>

\* Every remoteClose has returned, those of streams somebody else was closing
\* included: m.streams is replaced and streamMu released.
MuxCloseFinish(e, g) ==
  /\ alive[e] /\ muxClose[e][g] = "sweeping"
  /\ \A id \in streams[e] : st[e][id] = "done"
  /\ streams' = [streams EXCEPT ![e] = {}]
  /\ streamMu' = [streamMu EXCEPT ![e] = "free"]
  /\ muxClose' = [muxClose EXCEPT ![e][g] = "done"]
  /\ UNCHANGED <<alive, link, closedCh, nextID, opening, stream, lane, wire, loop, sent>>

\* runGateway returns once m.Done() is closed, and the process exits.
ServerExit ==
  /\ alive["server"] /\ closedCh["server"]
  /\ Dies("server")
  /\ UNCHANGED <<closedCh, muxClose, streamMu, table, stream, lane, loop, sent>>

\* The ssh connection breaks.
LinkBreaks ==
  /\ link = "up"
  /\ link' = "down"
  /\ UNCHANGED <<alive, closedCh, muxClose, streamMu, table, stream, lane, wire, loop, sent>>

-----------------------------------------------------------------------------
OpenStep(e) == OpenCheck(e) \/ OpenRegister(e) \/ OpenAnnounce(e)
LoopStep(e) ==
  \/ HandleOpen(e) \/ HandlePayload(e) \/ HandleClose(e)
  \/ Push(e) \/ PushPanics(e) \/ LoopResumes(e) \/ ReadFails(e)
OnceStep(e, id) == CloseAnnounce(e, id) \/ ShutStep(e, id) \/ LeaveOnce(e, id)
ReaderStep(e, id, k) ==
  \/ k = "data" /\ ReadCheck(e, id)
  \/ Receive(e, id, k) \/ ReceiveEOF(e, id, k)
MuxCloseStep(e, g) ==
  \/ MuxCloseSignal(e, g) \/ MuxCloseLock(e, g) \/ MuxCloseFinish(e, g)
  \/ \E id \in Ids : MuxCloseStream(e, g, id)

Next ==
  \/ \E e \in Ends : OpenStep(e) \/ LoopStep(e)
  \/ \E e \in Ends, id \in Ids : Close(e, id) \/ OnceStep(e, id)
  \/ \E e \in Ends, id \in Ids, k \in Kinds : Send(e, id, k) \/ ReaderStep(e, id, k)
  \/ \E e \in Ends, g \in Closers : MuxCloseEnter(e, g) \/ MuxCloseStep(e, g)
  \/ ServerExit
  \/ LinkBreaks

\* The read loop of end e is one goroutine, Mux.Close at its end included.
ReadLoop(e) == LoopStep(e) \/ MuxCloseEnter(e, "loop") \/ MuxCloseStep(e, "loop")

\* The Go scheduler runs every goroutine that can run; users decide for
\* themselves whether they open, send or close.  Readers loop until EOF.
Fairness ==
  /\ \A e \in Ends : WF_vars(ReadLoop(e))
  /\ \A e \in Openers : WF_vars(OpenRegister(e) \/ OpenAnnounce(e))
  /\ \A e \in Ends, id \in Ids : WF_vars(OnceStep(e, id))
  /\ \A e \in Ends, id \in Ids, k \in Kinds : WF_vars(ReaderStep(e, id, k))
  /\ WF_vars(MuxCloseStep("client", "app"))
  /\ WF_vars(ServerExit)

Spec == Init /\ [][Next]_vars
FairSpec == Spec /\ Fairness

-----------------------------------------------------------------------------
(* Properties                                                              *)

\* Every variable has its type, no channel holds more than its capacity, and
\* an open frame never names a stream its receiver already has: handleOpen
\* overwrites m.streams[id], which would cut a live stream off its frames.
TypeOK ==
  /\ alive \in [Ends -> BOOLEAN] /\ link \in {"up", "down"}
  /\ wire \in [Ends -> Seq(Frame)] /\ \A e \in Ends : Len(wire[e]) <= WireCap
  /\ nextID \in [Ends -> Nat] /\ opening \in [Ends -> {Entering} \cup 0..MaxId]
  /\ streams \in [Ends -> SUBSET Ids]
  /\ streamMu \in [Ends -> {"free"} \cup Closers]
  /\ closedCh \in [Ends -> BOOLEAN]
  /\ muxClose \in
       [Ends -> [Closers -> {"idle", "chosen", "locking", "sweeping", "done"}]]
  /\ loop \in [Ends -> [pc : LoopStates, type : {"open", "close"} \cup Kinds,
                        id : Ids, n : 0..MaxSent]]
  /\ st \in [Ends -> [Ids -> Stages]] /\ owner \in [Ends -> [Ids -> Owners]]
  /\ queue \in [Ends -> [Ids -> [Kinds -> Seq(1..MaxSent)]]]
  /\ \A e \in Ends, id \in Ids, k \in Kinds : Len(queue[e][id][k]) <= ChanCap
  /\ reader \in [Ends -> [Ids -> [Kinds -> {"check", "select", "eof"}]]]
  /\ sent \in [Ends -> [Ids -> [Kinds -> 0..MaxSent]]]
  /\ got \in [Ends -> [Ids -> [Kinds -> 0..MaxSent]]]
  /\ reads \in [Ends -> [Ids -> [Kinds -> Nat]]]
  /\ \A e \in Ends : \A i \in DOMAIN wire[e] :
       wire[e][i].type = "open" => st[e][wire[e][i].id] = "none"

\* While the read loop stands in pushData or pushMsg, a stream's channels can
\* only be closed by this end: no close frame of the peer and no unknown
\* stream makes the send panic.
PeerCannotPanicPush ==
  \A e \in Ends : loop[e].pc = "push" /\ st[e][loop[e].id] \in Signalled
    => owner[e][loop[e].id] \in {"local", "mux"}

\* Mux.Close leaves no stream open behind it, not even one an OpenStream was
\* registering at the same time: its reader would wait for ever.
NoStreamOutlivesMux ==
  \A e \in Ends :
    (/\ closedCh[e] /\ opening[e] = 0 /\ loop[e].pc = "stop"
     /\ \A g \in Closers : muxClose[e][g] \notin {"locking", "sweeping"})
    => \A id \in Ids : st[e][id] # "open"

\* streamMu and a stream's Once are taken in both orders: Close holds the
\* Once and wants streamMu (mux.remove), Mux.Close holds streamMu and waits
\* for the Once (remoteClose).  Those two deadlock.
LockCycle(e) ==
  \E g \in Closers, id \in Ids :
    /\ muxClose[e][g] = "sweeping" /\ id \in streams[e]
    /\ owner[e][id] \in {"local", "reject"} /\ st[e][id] = "shut"

\* A payload that was written is read, in the end, unless the receiving end
\* stopped listening to the stream, the receiving process is gone, the
\* connection ended, or the receiver ran into LockCycle.
GaveUp(e, id, k) ==
  \/ st[e][id] \in Signalled \/ ~alive[e] \/ closedCh[e]
  \/ closedCh[Peer(e)] \/ link = "down"
SentIsRead ==
  \A e \in Ends, id \in Ids, k \in Kinds : \A n \in 1..MaxSent :
    (sent[Peer(e)][id][k] >= n) ~> (got[e][id][k] >= n \/ GaveUp(e, id, k))

\* Once a process has begun Mux.Close it finishes, dies of the double close,
\* or is caught in LockCycle: nothing else holds it up.
MuxCloseEnds ==
  \A e \in Ends, g \in Closers :
    (muxClose[e][g] = "chosen")
      ~> (muxClose[e][g] = "done" \/ ~alive[e] \/ LockCycle(e))

\* Its safety half: while one Mux.Close sweeps it holds streamMu, alone, and
\* nothing can block on the connection any more; and when it is the read loop
\* that sweeps, it waits for no stream whose Once it has itself taken.
SweepNotSelfBlocked ==
  \A e \in Ends, g \in Closers :
    /\ muxClose[e][g] = "sweeping" <=> streamMu[e] = g
    /\ muxClose[e][g] = "sweeping" =>
         /\ closedCh[e]
         /\ \A id \in streams[e] : owner[e][id] \in {"remote", "reject"} /\ st[e][id] # "done"
              => g = "app"

\* The lanes promise of MuxLanes: in order, at most once, and without a gap
\* until the reading end closes the stream itself.
Promise ==
  INSTANCE MuxLanes WITH
    closing <- [e \in Ends |-> [id \in Ids |-> owner[e][id] \in {"local", "mux", "reject"}]]
KeepsPromise == Promise!Spec

=============================================================================
