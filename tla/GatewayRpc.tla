----------------------------- MODULE GatewayRpc -----------------------------
(***************************************************************************)
(* Request/response calls of the client over the gateway's control stream: *)
(* gatewayClient.rpc, readResponses, failAll and Close on the client,      *)
(* handleControlStream on the server.                                      *)
(*                                                                         *)
(* The two directions of the control stream are lanes as MuxLanes promises *)
(* them: in order, at most once, possibly cut short.  Closing the stream   *)
(* takes the steps Mux gives it, because rpc's own test (SendMsg) and the  *)
(* end of readResponses look at different ones of them.                    *)
(*                                                                         *)
(* The other streams of the connection share its read loops and the lock   *)
(* of its stream table.  They can hold up a read loop (a push to a full    *)
(* channel nobody reads) and, by closing at the wrong moment, the sweep of *)
(* Mux.Close for ever: blocked and sweep say when they do.                 *)
(***************************************************************************)
EXTENDS Integers, Sequences

CONSTANTS
  Callers,   \* goroutines of the client that make calls, one at a time each
  MaxCalls   \* bound: calls over the life of the connection

ASSUME RpcAssumption == MaxCalls \in Nat

CallIds == 1..MaxCalls

VARIABLES
  nextID,      \* gatewayClient.nextID
  pending,     \* keys of gatewayClient.pending
  ch,          \* ch[id]: the result in the call's channel (capacity 1)
  pc,          \* pc[c]: progress of c's rpc
  call,        \* call[c]: id of c's current call
  result,      \* result[c]: what c's last rpc returned
  responses,   \* readResponses: "receive", "failing", "stopped"
  control,     \* client end of the control stream
  muxClosed,   \* Mux.closed of the client's mux
  sweep,       \* Mux.Close's pass over the streams: "idle", "sweeping", "hung"
  blocked,     \* ends whose read loop another stream holds up
  closing,     \* gatewayClient.Close has been called
  conn,        \* the ssh connection and the server process behind it
  requests,    \* control stream, client to server
  replies,     \* control stream, server to client
  serving,     \* request handleControlStream is working on, or None
  tooLarge,    \* history: calls whose response exceeded maxFrameSize
  late         \* history: calls sent between closeCh and the closed flag

client == <<nextID, pending, ch, pc, call, result, responses>>
closers == <<control, muxClosed, sweep, closing>>
server == <<requests, replies, serving, tooLarge>>
vars == <<client, closers, blocked, conn, server, late>>

None == [id |-> 0, from |-> "nobody"]
Failed == [kind |-> "error", from |-> "nobody"]
Answer(c) == [kind |-> "answer", from |-> c]
Empty == [kind |-> "empty", from |-> "nobody"]
Results == [kind : {"answer"}, from : Callers] \cup {Failed, Empty}
Messages == [id : CallIds, from : Callers]

Init ==
  /\ nextID = 0 /\ pending = {} /\ ch = [id \in CallIds |-> Empty]
  /\ pc = [c \in Callers |-> "idle"] /\ call = [c \in Callers |-> 0]
  /\ result = [c \in Callers |-> Empty]
  /\ responses = "receive"
  /\ control = "open" /\ muxClosed = FALSE /\ sweep = "idle" /\ closing = FALSE
  /\ blocked = {} /\ conn = "up"
  /\ requests = <<>> /\ replies = <<>> /\ serving = None
  /\ tooLarge = {} /\ late = {}

-----------------------------------------------------------------------------
(* rpc                                                                     *)

\* Mutant: two callers read the same counter value.
RegisterUnlocked(c) ==
  /\ pc[c] \in {"idle", "done"} /\ nextID < MaxCalls
  /\ nextID' \in {nextID, nextID + 1}
  /\ pending' = pending \cup {nextID + 1}
  /\ call' = [call EXCEPT ![c] = nextID + 1]
  /\ pc' = [pc EXCEPT ![c] = "sending"]
  /\ UNCHANGED <<ch, result, responses, closers, blocked, conn, server, late>>

\* nextRequestID and the entry in pending.
Register(c) ==
  /\ pc[c] \in {"idle", "done"} /\ nextID < MaxCalls
  /\ nextID' = nextID + 1
  /\ pending' = pending \cup {nextID + 1}
  /\ call' = [call EXCEPT ![c] = nextID + 1]
  /\ pc' = [pc EXCEPT ![c] = "sending"]
  /\ UNCHANGED <<ch, result, responses, closers, blocked, conn, server, late>>

\* Mutant: SendMsg does not test the closed flag.
SendRequestUntested(c) ==
  /\ pc[c] = "sending"
  /\ ~muxClosed /\ conn = "up"
  /\ requests' = Append(requests, [id |-> call[c], from |-> c])
  /\ late' = IF control = "signalled" THEN late \cup {call[c]} ELSE late
  /\ pc' = [pc EXCEPT ![c] = "waiting"]
  /\ UNCHANGED <<nextID, pending, ch, call, result, responses, closers, blocked, conn,
                 replies, serving, tooLarge>>

\* control.SendMsg writes the request.
SendRequest(c) ==
  /\ pc[c] = "sending"
  /\ control # "shut" /\ ~muxClosed /\ conn = "up"
  /\ requests' = Append(requests, [id |-> call[c], from |-> c])
  /\ late' = IF control = "signalled" THEN late \cup {call[c]} ELSE late
  /\ pc' = [pc EXCEPT ![c] = "waiting"]
  /\ UNCHANGED <<nextID, pending, ch, call, result, responses, closers, blocked, conn,
                 replies, serving, tooLarge>>

\* control.SendMsg fails (closed, connection gone, or the request is larger
\* than a frame): rpc returns and leaves its pending entry behind.
SendFails(c) ==
  /\ pc[c] = "sending"
  /\ result' = [result EXCEPT ![c] = Failed]
  /\ pc' = [pc EXCEPT ![c] = "done"]
  /\ UNCHANGED <<nextID, pending, ch, call, responses, closers, blocked, conn, server, late>>

\* res := <-ch
Return(c) ==
  /\ pc[c] = "waiting" /\ ch[call[c]] # Empty
  /\ result' = [result EXCEPT ![c] = ch[call[c]]]
  /\ pc' = [pc EXCEPT ![c] = "done"]
  /\ UNCHANGED <<nextID, pending, ch, call, responses, closers, blocked, conn, server, late>>

-----------------------------------------------------------------------------
(* readResponses and failAll                                               *)

\* Mutant: the entry stays in pending.
ReadResponseKeeping ==
  /\ responses = "receive" /\ replies # <<>>
  /\ LET r == Head(replies) IN
       IF r.id \in pending
       THEN /\ UNCHANGED pending
            /\ ch' = [ch EXCEPT ![r.id] = Answer(r.from)]
       ELSE UNCHANGED <<pending, ch>>
  /\ replies' = Tail(replies)
  /\ UNCHANGED <<nextID, pc, call, result, responses, closers, blocked, conn,
                 requests, serving, tooLarge, late>>

\* The read loop has put a response into the control stream; it goes to the
\* channel of its id, if somebody still waits for it.
ReadResponse ==
  /\ responses = "receive" /\ replies # <<>>
  /\ LET r == Head(replies) IN
       IF r.id \in pending
       THEN /\ pending' = pending \ {r.id}
            /\ ch' = [ch EXCEPT ![r.id] = Answer(r.from)]
       ELSE UNCHANGED <<pending, ch>>
  /\ replies' = Tail(replies)
  /\ UNCHANGED <<nextID, pc, call, result, responses, closers, blocked, conn,
                 requests, serving, tooLarge, late>>

\* ReceiveMsg returns EOF once closeCh is closed, whatever is still queued.
ReadEOF ==
  /\ responses = "receive" /\ control \in {"signalled", "shut"}
  /\ responses' = "failing"
  /\ UNCHANGED <<nextID, pending, ch, pc, call, result, closers, blocked, conn, server, late>>

\* Mutant: the entries are dropped, their channels stay empty.
FailAllSilently ==
  /\ responses = "failing"
  /\ responses' = "stopped"
  /\ pending' = {}
  /\ UNCHANGED <<nextID, ch, pc, call, result, closers, blocked, conn, server, late>>

FailAll ==
  /\ responses = "failing"
  /\ responses' = "stopped"
  /\ ch' = [id \in CallIds |-> IF id \in pending THEN Failed ELSE ch[id]]
  /\ pending' = {}
  /\ UNCHANGED <<nextID, pc, call, result, closers, blocked, conn, server, late>>

-----------------------------------------------------------------------------
(* Closing: gatewayClient.Close closes the control stream, then the mux;   *)
(* the mux's read loop closes the mux, which closes the streams.           *)

\* gatewayClient.Close: the stream's Close holds its Once and writes a frame.
CloseGateway ==
  /\ ~closing
  /\ closing' = TRUE
  /\ control' = IF control = "open" THEN "leaving" ELSE control
  /\ UNCHANGED <<client, muxClosed, sweep, blocked, conn, server, late>>

\* The frame is written or refused; Close goes on to closeCh.
CloseWritten ==
  /\ control = "leaving"
  /\ control' = "signalled"
  /\ UNCHANGED <<client, muxClosed, sweep, closing, blocked, conn, server, late>>

SetClosedFlag ==
  /\ control = "signalled"
  /\ control' = "shut"
  /\ UNCHANGED <<client, muxClosed, sweep, closing, blocked, conn, server, late>>

\* close(m.closed) of mux.Close, by gatewayClient.Close after the control
\* stream's Close, or by the read loop, which has to be reading to see that
\* the connection is gone.
CloseMux ==
  /\ ~muxClosed
  /\ (closing /\ control = "shut") \/ (conn = "down" /\ "client" \notin blocked)
  /\ muxClosed' = TRUE /\ sweep' = "sweeping"
  /\ UNCHANGED <<client, control, closing, blocked, conn, server, late>>

\* The sweep comes to the control stream.  While the stream's own Close
\* holds the Once, the sweep waits for it.
RemoteClose ==
  /\ sweep = "sweeping" /\ control = "open"
  /\ control' = "signalled"
  /\ UNCHANGED <<client, muxClosed, sweep, closing, blocked, conn, server, late>>

\* The sweep, with streamMu held, waits for the Once of a stream whose Close
\* waits for streamMu: nothing more is closed.
SweepHangs ==
  /\ sweep = "sweeping"
  /\ sweep' = "hung"
  /\ UNCHANGED <<client, control, muxClosed, closing, blocked, conn, server, late>>

\* A read loop pushes to another stream's full channel.
Block(end) ==
  /\ blocked' = blocked \cup {end}
  /\ UNCHANGED <<client, closers, conn, server, late>>

\* Somebody reads or closes that stream.
Unblock(end) ==
  /\ blocked' = blocked \ {end}
  /\ UNCHANGED <<client, closers, conn, server, late>>

ConnBreaks ==
  /\ conn = "up"
  /\ conn' = "down"
  /\ UNCHANGED <<client, closers, blocked, server, late>>

-----------------------------------------------------------------------------
(* handleControlStream: one request at a time                              *)

ServerTakes ==
  /\ conn = "up" /\ serving = None /\ requests # <<>>
  /\ serving' = Head(requests)
  /\ requests' = Tail(requests)
  /\ UNCHANGED <<client, closers, blocked, conn, replies, tooLarge, late>>

\* Mutant: a request is answered although none is being served.
ServerRepliesTwice ==
  /\ conn = "up"
  /\ replies' = Append(replies, serving)
  /\ serving' = None
  /\ UNCHANGED <<client, closers, blocked, conn, requests, tooLarge, late>>

\* The command has run; its response carries the request's id.
ServerReplies ==
  /\ conn = "up" /\ serving # None
  /\ replies' = Append(replies, serving)
  /\ serving' = None
  /\ UNCHANGED <<client, closers, blocked, conn, requests, tooLarge, late>>

\* SendMsg refuses a response larger than maxFrameSize; the error is dropped.
ServerReplyTooLarge ==
  /\ conn = "up" /\ serving # None
  /\ tooLarge' = tooLarge \cup {serving.id}
  /\ serving' = None
  /\ UNCHANGED <<client, closers, blocked, conn, requests, replies, late>>

-----------------------------------------------------------------------------
CallerStep(c) == SendRequest(c) \/ SendFails(c) \/ Return(c)
ServerStep == ServerTakes \/ ServerReplies \/ ServerReplyTooLarge
ReaderStep == ReadResponse \/ ReadEOF \/ FailAll
CloseStep == CloseWritten \/ SetClosedFlag \/ CloseMux \/ RemoteClose
Ends == {"client", "server"}

Next ==
  \/ \E c \in Callers : Register(c) \/ CallerStep(c)
  \/ ReaderStep \/ ServerStep \/ CloseStep
  \/ CloseGateway \/ SweepHangs \/ ConnBreaks
  \/ \E end \in Ends : Block(end) \/ Unblock(end)

\* The other streams leave the connection alone: both loops read, so what
\* one end writes the other takes, and the sweep goes on.
Unhindered == blocked = {} /\ sweep # "hung"

\* Goroutines run when they can, and the command a request runs ends.  What
\* goes over the connection is certain only while both loops read; a write
\* of a request may take for ever even then.
Fairness ==
  /\ \A c \in Callers : WF_vars(Return(c))
  /\ WF_vars(ReadEOF \/ FailAll)
  /\ WF_vars(Unhindered /\ (ReadResponse \/ ServerStep))
  /\ WF_vars(Unhindered /\ CloseWritten)
  /\ WF_vars(SetClosedFlag) /\ WF_vars(CloseMux) /\ WF_vars(RemoteClose)

Spec == Init /\ [][Next]_vars
FairSpec == Spec /\ Fairness

-----------------------------------------------------------------------------
(* Properties                                                              *)

\* Every variable has its type.
TypeOK ==
  /\ nextID \in 0..MaxCalls /\ pending \in SUBSET CallIds
  /\ ch \in [CallIds -> Results]
  /\ pc \in [Callers -> {"idle", "sending", "waiting", "done"}]
  /\ call \in [Callers -> 0..MaxCalls] /\ result \in [Callers -> Results]
  /\ responses \in {"receive", "failing", "stopped"}
  /\ control \in {"open", "leaving", "signalled", "shut"}
  /\ muxClosed \in BOOLEAN /\ sweep \in {"idle", "sweeping", "hung"}
  /\ closing \in BOOLEAN /\ blocked \in SUBSET Ends /\ conn \in {"up", "down"}
  /\ requests \in Seq(Messages) /\ replies \in Seq(Messages)
  /\ serving \in Messages \cup {None}
  /\ tooLarge \in SUBSET CallIds /\ late \in SUBSET CallIds

\* A caller gets the answer to its own request or an error, never the answer
\* to somebody else's, however requests, responses and failures interleave.
AnswersItsCaller ==
  \A c \in Callers : result[c] \in {Answer(c), Failed, Empty}

\* The channel of a call readResponses or failAll is about to send to is
\* empty: a second send would block for ever, failAll with g.mu held.
OneResultPerCall == \A id \in pending : ch[id] = Empty

\* Nobody waits for a call that no longer has a pending entry, a result in
\* its channel, or a reader to bring one - except a call whose request went
\* out between the closing of closeCh and the closed flag.
OnlyLateCallsStranded ==
  \A c \in Callers :
    pc[c] = "waiting" /\ responses = "stopped" /\ ch[call[c]] = Empty
      => call[c] \in late

\* If the other streams hold up the read loops only for a while and never
\* hang the sweep, every call returns, but for the two kinds of calls that
\* cannot even then: the late ones and those whose response was too large
\* for a frame.  Without the premise any call may wait for ever.
CallReturns ==
  <>[]Unhindered =>
    \A c \in Callers :
      (pc[c] = "waiting") ~> (pc[c] # "waiting" \/ call[c] \in late \cup tooLarge)

=============================================================================
