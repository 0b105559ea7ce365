----------------------------- MODULE MuxProofs -----------------------------
(***************************************************************************)
(* Mux for any streams, payloads and capacities: no channel overflows and  *)
(* no id is used twice, the peer cannot make the read loop panic, Mux.Close *)
(* leaves no stream open, and the lanes keep the promise of MuxLanes.      *)
(***************************************************************************)
EXTENDS Mux, TLAPS

-----------------------------------------------------------------------------
(* The invariants                                                          *)

ProcsTyped ==
  /\ alive \in [Ends -> BOOLEAN] /\ link \in {"up", "down"} /\ closedCh \in [Ends -> BOOLEAN]
  /\ muxClose \in
       [Ends -> [Closers -> {"idle", "chosen", "locking", "sweeping", "done"}]]
  /\ streamMu \in [Ends -> {"free"} \cup Closers]
TableTyped ==
  /\ nextID \in [Ends -> Nat] /\ streams \in [Ends -> SUBSET Ids]
  /\ opening \in [Ends -> {Entering} \cup 0..MaxId]
StreamTyped == st \in [Ends -> [Ids -> Stages]] /\ owner \in [Ends -> [Ids -> Owners]]
LaneTyped ==
  /\ queue \in [Ends -> [Ids -> [Kinds -> Seq(1..MaxSent)]]]
  /\ \A e \in Ends, id \in Ids, k \in Kinds : Len(queue[e][id][k]) <= ChanCap
  /\ reader \in [Ends -> [Ids -> [Kinds -> {"check", "select", "eof"}]]]
  /\ got \in [Ends -> [Ids -> [Kinds -> 0..MaxSent]]]
  /\ reads \in [Ends -> [Ids -> [Kinds -> Nat]]]
WireTyped == wire \in [Ends -> Seq(Frame)] /\ \A e \in Ends : Len(wire[e]) <= WireCap
LoopTyped ==
  /\ loop \in [Ends -> [pc : LoopStates, type : {"open", "close"} \cup Kinds,
                        id : Ids, n : 0..MaxSent]]
  /\ \A e \in Ends : loop[e].pc = "push" => loop[e].type \in Kinds
SentTyped == sent \in [Ends -> [Ids -> [Kinds -> 0..MaxSent]]]

Types ==
  ProcsTyped /\ TableTyped /\ StreamTyped /\ LaneTyped /\ WireTyped /\ LoopTyped /\ SentTyped

\* The ids an end hands out, and those it has not told the peer of.
Own(e, id) == id % 2 = (IF e = "client" THEN 1 ELSE 0)
Unannounced(e, id) == Own(e, id) /\ (id >= nextID[e] \/ id = opening[e])

Pos(e) == 1..Len(wire[e])
Busy(e) == loop[e].pc \in {"push", "close", "reject"}

\* An end's own ids: all that it handed out have a stream, and of those it has
\* not announced neither the peer nor a frame of the peer's knows.
OwnIds(e) ==
  /\ Own(e, nextID[e]) /\ nextID[e] # 0
  /\ opening[e] = Entering => nextID[e] \in Ids
  /\ opening[e] \in Ids =>
       Own(e, opening[e]) /\ opening[e] < nextID[e] /\ st[e][opening[e]] # "closing"
  /\ \A id \in Ids : Own(e, id) => (id < nextID[e] <=> st[e][id] # "none")
  /\ \A id \in Ids : Unannounced(e, id) =>
       /\ st[Peer(e)][id] = "none"
       /\ \A i \in Pos(e) : wire[e][i].id # id
       /\ Busy(e) => loop[e].id # id

\* An open frame comes once, from the end whose id it is, to an end that has
\* no such stream yet.
OpenFrames(e) ==
  \A i \in Pos(e) : wire[e][i].type = "open" =>
    /\ Own(Peer(e), wire[e][i].id) /\ ~Unannounced(Peer(e), wire[e][i].id)
    /\ st[e][wire[e][i].id] = "none"
    /\ \A j \in Pos(e) : wire[e][j].type = "open" /\ wire[e][j].id = wire[e][i].id => j = i

\* The other frames of a stream come after its open frame.
LaterFrames(e) ==
  \A i \in Pos(e) : wire[e][i].type # "open" =>
    \/ st[e][wire[e][i].id] # "none"
    \/ \E j \in 1..(i - 1) : wire[e][j].type = "open" /\ wire[e][j].id = wire[e][i].id

\* Its process runs and its read loop has not stopped.
Listens(e) == alive[e] /\ loop[e].pc # "stop"

\* A stream that the peer can send on is one that this end has, or will be
\* told of.
Known(e) ==
  \A id \in Ids :
    /\ st[Peer(e)][id] \notin {"none"} \cup Shut /\ opening[Peer(e)] # id /\ Listens(e)
    => \/ st[e][id] # "none"
       \/ \E i \in Pos(e) : wire[e][i].type = "open" /\ wire[e][i].id = id

\* Whoever does not listen is not written to.
Deaf(e) == ~Listens(e) => WriteFails(Peer(e))

IdInv ==
  \A e \in Ends : OwnIds(e) /\ OpenFrames(e) /\ LaterFrames(e) /\ Known(e) /\ Deaf(e)

\* How far a stream is, who has its Once, and what the read loop waits for.
Stage(e, id) ==
  /\ id \in streams[e] => st[e][id] # "none"
  /\ st[e][id] = "open" => id \in streams[e]
  /\ st[e][id] \in {"none", "open"} => owner[e][id] = "nobody"
  /\ st[e][id] = "closing" => owner[e][id] \in {"local", "reject"}
  /\ st[e][id] \in {"signalled", "shut"} => owner[e][id] # "nobody"
  /\ owner[e][id] = "remote" /\ st[e][id] \in {"signalled", "shut"}
       => loop[e].pc = "close" /\ loop[e].id = id
  /\ owner[e][id] = "reject" /\ st[e][id] # "done"
       => loop[e].pc = "reject" /\ loop[e].id = id

StageInv == PeerCannotPanicPush /\ \A e \in Ends, id \in Ids : Stage(e, id)

\* What is on its way to a reader.
Pushing(e, id, k) == loop[e].pc = "push" /\ loop[e].id = id /\ loop[e].type = k
OnLane(f, id, k) == f.id = id /\ f.type = k

\* The payloads in a channel, the one in the read loop's hands and those on
\* the wire: each was written, none was read, and they are in order.
Order(e, id, k) ==
  LET q == queue[e][id][k]
      Fits(n) == got[e][id][k] < n /\ n <= sent[Peer(e)][id][k]
  IN
  /\ got[e][id][k] <= sent[Peer(e)][id][k]
  /\ \A i \in 1..Len(q) : Fits(q[i]) /\ \A j \in 1..(i - 1) : q[j] < q[i]
  /\ Pushing(e, id, k) => Fits(loop[e].n) /\ \A i \in 1..Len(q) : q[i] < loop[e].n
  /\ \A i \in Pos(e) : OnLane(wire[e][i], id, k) =>
       /\ Fits(wire[e][i].n)
       /\ \A j \in 1..Len(q) : q[j] < wire[e][i].n
       /\ Pushing(e, id, k) => loop[e].n < wire[e][i].n
       /\ \A j \in 1..(i - 1) : OnLane(wire[e][j], id, k) => wire[e][j].n < wire[e][i].n

\* The end has begun to close the stream itself.
Closing(e, id) == owner[e][id] \in {"local", "mux", "reject"}

\* Payloads of the stream still reach its channels.
Hears(e, id) ==
  /\ Listens(e)
  /\ st[e][id] = "none" \/ (id \in streams[e] /\ st[e][id] \notin Shut)

\* The last payload that was read, is in the channel or in the loop's hands.
Taken(e, id, k) == got[e][id][k] + Len(queue[e][id][k]) + (IF Pushing(e, id, k) THEN 1 ELSE 0)

\* Nothing is missing from a stream this end has not begun to close.
Gapless(e, id, k) ==
  ~Closing(e, id) =>
    /\ \A i \in 1..Len(queue[e][id][k]) : queue[e][id][k][i] = got[e][id][k] + i
    /\ Pushing(e, id, k) => loop[e].n = got[e][id][k] + Len(queue[e][id][k]) + 1
    /\ Hears(e, id) =>
         \A n \in (Taken(e, id, k) + 1)..sent[Peer(e)][id][k] :
           \E i \in Pos(e) : OnLane(wire[e][i], id, k) /\ wire[e][i].n = n

LaneInv == \A e \in Ends, id \in Ids, k \in Kinds : Order(e, id, k) /\ Gapless(e, id, k)

MuxInv == Types /\ IdInv /\ StageInv /\ LaneInv

\* Once a Mux.Close has swept the table, the only stream that is open is one
\* whose open frame cannot be written.
SweepAt(e, id) ==
  /\ closedCh[e] /\ \A g \in Closers : muxClose[e][g] \notin {"locking", "sweeping"}
  /\ st[e][id] = "open"
  => opening[e] = id

\* When the client alone opens streams.
SweepInv ==
  /\ opening["server"] = 0
  /\ \A i \in Pos("client") : wire["client"][i].type # "open"
  /\ closedCh["server"] \/ muxClose["server"]["loop"] # "idle" => loop["server"].pc = "stop"
  /\ muxClose["server"]["app"] = "idle"
  /\ \A e \in Ends, id \in Ids : SweepAt(e, id)

-----------------------------------------------------------------------------
(* Sequences, ends and ids                                                 *)

\* A queue whose head is taken.
LEMMA Taking ==
  ASSUME NEW S, NEW s \in Seq(S), s # <<>>
  PROVE  /\ Head(s) = s[1] /\ Head(s) \in S /\ Len(s) \in Nat \ {0}
         /\ Tail(s) \in Seq(S) /\ Len(Tail(s)) = Len(s) - 1
         /\ \A i \in 1..Len(Tail(s)) : Tail(s)[i] = s[i + 1]
OBVIOUS

\* A queue to which an element is added.
LEMMA Putting ==
  ASSUME NEW S, NEW s \in Seq(S), NEW x \in S
  PROVE  /\ Append(s, x) \in Seq(S) /\ Len(Append(s, x)) = Len(s) + 1 /\ Len(s) \in Nat
         /\ Append(s, x)[Len(s) + 1] = x
         /\ \A i \in 1..Len(s) : Append(s, x)[i] = s[i]
OBVIOUS

\* What is in a queue.
LEMMA Elements ==
  ASSUME NEW S, NEW s \in Seq(S)
  PROVE  Len(s) \in Nat /\ \A i \in 1..Len(s) : s[i] \in S
OBVIOUS

\* There are two ends, each the other's peer.
LEMMA TwoEnds ==
  ASSUME NEW e \in Ends
  PROVE  /\ Peer(e) \in Ends /\ Peer(e) # e /\ Peer(Peer(e)) = e
         /\ \A f \in Ends : f = e \/ f = Peer(e)
BY DEF Ends, Peer

\* The ends hand out different ids, every other number.
LEMMA OwnIdsDiffer ==
  ASSUME NEW e \in Ends, NEW n \in Nat
  PROVE  /\ Own(e, n) => ~Own(Peer(e), n)
         /\ Own(e, n) => Own(e, n + 2) /\ ~Own(e, n + 1)
BY DEF Own, Ends, Peer

\* A payload is neither an open frame nor a close frame.
LEMMA KindsAre == \A k \in Kinds : k \notin {"open", "close"} /\ k \in {"data", "msg"}
BY MuxAssumption

-----------------------------------------------------------------------------
(* Types                                                                   *)

\* The frames that OpenStream, Close and Send write are frames.
LEMMA FramesAre ==
  /\ \A id \in Ids : [type |-> "open", id |-> id, n |-> 0] \in Frame
                     /\ [type |-> "close", id |-> id, n |-> 0] \in Frame
  /\ \A k \in Kinds, id \in Ids, n \in 0..MaxSent : [type |-> k, id |-> id, n |-> n] \in Frame
BY MuxAssumption DEF Frame

\* A frame written leaves the wires wires.
LEMMA WriteTyped ==
  ASSUME Types, NEW e \in Ends, CanWrite(e), NEW f \in Frame, WriteFrame(e, f)
  PROVE  WireTyped'
<1>1. Peer(e) \in Ends /\ wire[Peer(e)] \in Seq(Frame) /\ Len(wire[Peer(e)]) < WireCap
  BY TwoEnds DEF Types, WireTyped, CanWrite
<1>2. wire' = [wire EXCEPT ![Peer(e)] = Append(wire[Peer(e)], f)]
  BY DEF WriteFrame
<1>3. Append(wire[Peer(e)], f) \in Seq(Frame) /\ Len(Append(wire[Peer(e)], f)) <= WireCap
  BY <1>1, MuxAssumption, Putting
<1> QED
  BY <1>1, <1>2, <1>3 DEF Types, WireTyped

\* So does a frame read, and it is one.
LEMMA TakeTyped ==
  ASSUME Types, NEW e \in Ends, wire[e] # <<>>, TakeFrame(e)
  PROVE  WireTyped' /\ Head(wire[e]) \in Frame
<1>1. wire[e] \in Seq(Frame) /\ Len(wire[e]) <= WireCap
  BY DEF Types, WireTyped
<1>2. wire' = [wire EXCEPT ![e] = Tail(wire[e])]
  BY DEF TakeFrame
<1>3. Tail(wire[e]) \in Seq(Frame) /\ Len(Tail(wire[e])) <= WireCap /\ Head(wire[e]) \in Frame
  BY <1>1, MuxAssumption, Taking
<1> QED
  BY <1>1, <1>2, <1>3 DEF Types, WireTyped

\* And so does a wire that is emptied.
LEMMA ClearTyped ==
  ASSUME Types, NEW e \in Ends, wire' = [wire EXCEPT ![e] = <<>>]
  PROVE  WireTyped'
<1>1. <<>> \in Seq(Frame) /\ Len(<<>>) <= WireCap
  BY MuxAssumption
<1> QED
  BY <1>1 DEF Types, WireTyped

\* A process that dies.
LEMMA DiesTyped ==
  ASSUME Types, NEW e \in Ends, Dies(e), UNCHANGED <<closedCh, muxClose, streamMu>>
  PROVE  WireTyped' /\ ProcsTyped'
BY ClearTyped DEF Dies, Types, ProcsTyped

\* The read loop takes a frame up, or puts it down.
LEMMA LoopKeepsType ==
  ASSUME Types, NEW e \in Ends, NEW l, loop' = [loop EXCEPT ![e] = l],
         l \in [pc : LoopStates, type : {"open", "close"} \cup Kinds, id : Ids, n : 0..MaxSent],
         l.pc = "push" => l.type \in Kinds
  PROVE  LoopTyped'
BY DEF Types, LoopTyped

\* The records of the read loop.
LEMMA LoopRecords ==
  /\ Idle \in [pc : LoopStates, type : {"open", "close"} \cup Kinds, id : Ids, n : 0..MaxSent]
  /\ Idle.pc = "read"
  /\ \A f \in Frame, pc \in LoopStates :
       /\ At(pc, f) \in [pc : LoopStates, type : {"open", "close"} \cup Kinds, id : Ids, n : 0..MaxSent]
       /\ At(pc, f).pc = pc /\ At(pc, f).type = f.type /\ At(pc, f).id = f.id /\ At(pc, f).n = f.n
<1>1. 1 \in Ids /\ 0 \in 0..MaxSent
  BY MuxAssumption DEF Ids
<1> QED
  BY <1>1 DEF Idle, At, Frame, LoopStates

\* A step of Next; an action that has fewer parameters leaves the others open.
Step(e, id, k, g) ==
  \/ OpenCheck(e) \/ OpenRegister(e) \/ OpenAnnounce(e)
  \/ HandleOpen(e) \/ HandlePayload(e) \/ HandleClose(e)
  \/ Push(e) \/ PushPanics(e) \/ LoopResumes(e) \/ ReadFails(e)
  \/ Close(e, id) \/ CloseAnnounce(e, id) \/ ShutStep(e, id) \/ LeaveOnce(e, id)
  \/ k \in Kinds /\ Send(e, id, k)
  \/ ReadCheck(e, id)
  \/ k \in Kinds /\ Receive(e, id, k)
  \/ k \in Kinds /\ ReceiveEOF(e, id, k)
  \/ MuxCloseEnter(e, g) \/ MuxCloseSignal(e, g) \/ MuxCloseLock(e, g)
  \/ MuxCloseStream(e, g, id) \/ MuxCloseFinish(e, g)
  \/ ServerExit \/ LinkBreaks

\* A step of Next is a step of one end, with one stream, kind and closer.
LEMMA Steps == Next => \E e \in Ends, id \in Ids, g \in Closers : \E k : Step(e, id, k, g)
<1>1. "client" \in Ends /\ 1 \in Ids /\ "app" \in Closers
  BY MuxAssumption DEF Ends, Ids, Closers
<1>2. ASSUME NEW e \in Ends, OpenStep(e) \/ LoopStep(e)
      PROVE  \E x \in Ends, id \in Ids, g \in Closers : \E k : Step(x, id, k, g)
  <2>1. Step(e, 1, "data", "app")
    BY <1>2 DEF OpenStep, LoopStep, Step
  <2> QED
    BY <1>1, <2>1
<1>3. ASSUME NEW e \in Ends, NEW id \in Ids, Close(e, id) \/ OnceStep(e, id)
      PROVE  \E x \in Ends, i \in Ids, g \in Closers : \E k : Step(x, i, k, g)
  <2>1. Step(e, id, "data", "app")
    BY <1>3 DEF OnceStep, Step
  <2> QED
    BY <1>1, <2>1
<1>4. ASSUME NEW e \in Ends, NEW id \in Ids, NEW k \in Kinds, Send(e, id, k) \/ ReaderStep(e, id, k)
      PROVE  \E x \in Ends, i \in Ids, g \in Closers : \E j : Step(x, i, j, g)
  <2>1. Step(e, id, k, "app")
    BY <1>4 DEF ReaderStep, Step
  <2> QED
    BY <1>1, <2>1
<1>5. ASSUME NEW e \in Ends, NEW g \in Closers, MuxCloseEnter(e, g) \/ MuxCloseStep(e, g)
      PROVE  \E x \in Ends, i \in Ids, c \in Closers : \E k : Step(x, i, k, c)
  <2>1. CASE MuxCloseEnter(e, g) \/ MuxCloseSignal(e, g) \/ MuxCloseLock(e, g) \/ MuxCloseFinish(e, g)
    <3>1. Step(e, 1, "data", g)
      BY <2>1 DEF Step
    <3> QED
      BY <1>1, <3>1
  <2>2. ASSUME NEW id \in Ids, MuxCloseStream(e, g, id)
        PROVE  \E x \in Ends, i \in Ids, c \in Closers : \E k : Step(x, i, k, c)
    <3>1. Step(e, id, "data", g)
      BY <2>2 DEF Step
    <3> QED
      BY <1>1, <3>1
  <2> QED
    BY <1>5, <2>1, <2>2 DEF MuxCloseStep
<1>6. ASSUME ServerExit \/ LinkBreaks
      PROVE  \E x \in Ends, i \in Ids, c \in Closers : \E k : Step(x, i, k, c)
  <2>1. Step("client", 1, "data", "app")
    BY <1>6 DEF Step
  <2> QED
    BY <1>1, <2>1
<1> QED
  BY <1>2, <1>3, <1>4, <1>5, <1>6 DEF Next

\* Every step keeps the types.
LEMMA StepTypes ==
  ASSUME MuxInv, NEW e \in Ends, NEW id \in Ids, NEW k, NEW g \in Closers, Step(e, id, k, g)
  PROVE  Types'
<1>a. Types
  BY DEF MuxInv
<1>b. /\ UNCHANGED procs => ProcsTyped'
      /\ UNCHANGED table => TableTyped'
      /\ UNCHANGED stream => StreamTyped'
      /\ UNCHANGED lane => LaneTyped'
      /\ UNCHANGED wire => WireTyped'
      /\ UNCHANGED loop => LoopTyped'
      /\ UNCHANGED sent => SentTyped'
  BY <1>a DEF Types, procs, table, stream, lane, ProcsTyped, TableTyped, StreamTyped, LaneTyped,
       WireTyped, LoopTyped, SentTyped
<1>c. \A x \in Ends, i \in Ids, s \in Stages : st' = [st EXCEPT ![x][i] = s] /\ owner' = owner => StreamTyped'
  BY <1>a DEF Types, StreamTyped
<1>d. \A x \in Ends, i \in Ids, s \in Stages, o \in Owners :
        st' = [st EXCEPT ![x][i] = s] /\ owner' = [owner EXCEPT ![x][i] = o] => StreamTyped'
  BY <1>a DEF Types, StreamTyped
<1>e. \A x \in Ends, i \in Ids :
        streams' = [streams EXCEPT ![x] = @ \ {i}] /\ nextID' = nextID /\ opening' = opening => TableTyped'
  BY <1>a DEF Types, TableTyped
<1> HIDE DEF ProcsTyped, TableTyped, StreamTyped, LaneTyped, WireTyped, LoopTyped, SentTyped
<1>1. CASE OpenCheck(e)
  <2>1. TableTyped'
    BY <1>1, <1>a DEF OpenCheck, Types, TableTyped
  <2> QED
    BY <1>1, <1>b, <2>1 DEF OpenCheck, Types, procs, stream, lane
<1>2. CASE OpenRegister(e)
  <2>1. nextID[e] \in Ids /\ nextID[e] \in Nat /\ nextID[e] \in 0..MaxId
    BY <1>2, <1>a DEF OpenRegister, MuxInv, IdInv, OwnIds, Ids
  <2>2. TableTyped'
    BY <1>2, <1>a, <2>1 DEF OpenRegister, Types, TableTyped
  <2>3. StreamTyped'
    BY <1>2, <1>c, <2>1 DEF OpenRegister, Stages
  <2> QED
    BY <1>2, <1>b, <2>2, <2>3 DEF OpenRegister, Types, procs, lane
<1>3. CASE OpenAnnounce(e)
  <2>1. opening[e] \in Ids
    BY <1>3 DEF OpenAnnounce
  <2>2. TableTyped'
    BY <1>3, <1>a, <2>1, MuxAssumption DEF OpenAnnounce, Types, TableTyped
  <2>3. WireTyped' /\ StreamTyped'
    <3>1. CASE /\ CanWrite(e)
               /\ WriteFrame(e, [type |-> "open", id |-> opening[e], n |-> 0])
               /\ UNCHANGED <<streams, st>>
      BY <1>3, <1>a, <1>b, <2>1, <3>1, WriteTyped, FramesAre DEF OpenAnnounce, stream
    <3>2. CASE /\ WriteFails(e) /\ streamMu[e] = "free"
               /\ streams' = [streams EXCEPT ![e] = @ \ {opening[e]}]
               /\ st' = [st EXCEPT ![e][opening[e]] = "done"]
               /\ UNCHANGED wire
      BY <1>3, <1>b, <1>c, <2>1, <3>2 DEF OpenAnnounce, Stages
    <3> QED
      BY <1>3, <3>1, <3>2 DEF OpenAnnounce
  <2> QED
    BY <1>3, <1>b, <2>2, <2>3 DEF OpenAnnounce, Types, procs, lane
<1>4. CASE HandleOpen(e)
  <2>1. WireTyped' /\ Head(wire[e]) \in Frame
    BY <1>4, <1>a, TakeTyped DEF HandleOpen, HasFrame
  <2>2. Head(wire[e]).id \in Ids
    BY <2>1 DEF Frame
  <2>3. TableTyped'
    BY <1>4, <1>a, <2>2 DEF HandleOpen, Types, TableTyped
  <2>4. StreamTyped'
    BY <1>4, <1>c, <1>d, <2>2 DEF HandleOpen, Stages, Owners
  <2>5. LoopTyped'
    BY <1>4, <1>a, <1>b, <2>1, LoopRecords, LoopKeepsType DEF HandleOpen, LoopStates
  <2> QED
    BY <1>4, <1>b, <2>1, <2>3, <2>4, <2>5 DEF HandleOpen, Types, procs, lane
<1>5. CASE HandlePayload(e)
  <2>1. WireTyped' /\ Head(wire[e]) \in Frame /\ Head(wire[e]).type \in Kinds
    BY <1>5, <1>a, TakeTyped DEF HandlePayload, HasFrame
  <2>2. LoopTyped'
    BY <1>5, <1>a, <1>b, <2>1, LoopRecords, LoopKeepsType DEF HandlePayload, LoopStates
  <2> QED
    BY <1>5, <1>b, <2>1, <2>2 DEF HandlePayload, Types
<1>6. CASE HandleClose(e)
  <2>1. WireTyped' /\ Head(wire[e]) \in Frame
    BY <1>6, <1>a, TakeTyped DEF HandleClose, HasFrame
  <2>2. Head(wire[e]).id \in Ids
    BY <2>1 DEF Frame
  <2>3. LoopTyped'
    BY <1>6, <1>a, <1>b, <2>1, LoopRecords, LoopKeepsType DEF HandleClose, LoopStates
  <2>4. StreamTyped'
    BY <1>6, <1>b, <1>d, <2>2 DEF HandleClose, Stages, Owners
  <2> QED
    BY <1>6, <1>b, <2>1, <2>3, <2>4 DEF HandleClose, Types
<1>7. CASE Push(e)
  <2>1. LoopTyped'
    BY <1>7, <1>a, LoopRecords, LoopKeepsType DEF Push
  <2> DEFINE i == loop[e].id
             t == loop[e].type
  <2>2. i \in Ids /\ t \in Kinds /\ loop[e].n \in 0..MaxSent
    BY <1>7, <1>a DEF Push, Types, LoopTyped
  <2>3. loop[e].n \in 1..MaxSent
    <3>1. Order(e, i, t) /\ got[e][i][t] \in 0..MaxSent
      BY <1>a, <2>2 DEF MuxInv, LaneInv, Types, LaneTyped
    <3>2. got[e][i][t] < loop[e].n
      BY <1>7, <3>1 DEF Order, Pushing, Push
    <3> QED
      BY <2>2, <3>1, <3>2
  <2>4. LaneTyped'
    <3> HIDE DEF i, t
    <3>1. CASE UNCHANGED queue
      BY <1>7, <1>b, <3>1 DEF Push, lane
    <3>2. CASE Len(queue[e][i][t]) < ChanCap /\ queue' = [queue EXCEPT ![e][i][t] = Append(@, loop[e].n)]
      <4> DEFINE q == Append(queue[e][i][t], loop[e].n)
      <4>1. queue[e][i][t] \in Seq(1..MaxSent)
        BY <1>a, <2>2 DEF Types, LaneTyped
      <4>2. q \in Seq(1..MaxSent) /\ Len(q) <= ChanCap
        BY <2>3, <3>2, <4>1, MuxAssumption, Putting
      <4>3. queue' = [queue EXCEPT ![e][i][t] = q]
        BY <3>2
      <4> HIDE DEF q
      <4>4. queue' \in [Ends -> [Ids -> [Kinds -> Seq(1..MaxSent)]]]
        BY <1>a, <2>2, <4>2, <4>3 DEF Types, LaneTyped
      <4>5. \A x \in Ends, j \in Ids, c \in Kinds : Len(queue'[x][j][c]) <= ChanCap
        BY <1>a, <2>2, <4>2, <4>3 DEF Types, LaneTyped
      <4> QED
        BY <1>7, <1>a, <4>4, <4>5 DEF Push, Types, LaneTyped
    <3> QED
      BY <1>7, <3>1, <3>2 DEF Push, i, t
  <2> QED
    BY <1>7, <1>b, <2>1, <2>4 DEF Push, Types
<1>8. CASE PushPanics(e)
  BY <1>8, <1>a, <1>b, DiesTyped DEF PushPanics, Types
<1>9. CASE LoopResumes(e)
  <2>1. LoopTyped'
    BY <1>9, <1>a, LoopRecords, LoopKeepsType DEF LoopResumes
  <2>2. loop[e].id \in Ids
    BY <1>a DEF Types, LoopTyped
  <2>3. TableTyped'
    BY <1>9, <1>e, <2>2 DEF LoopResumes
  <2> QED
    BY <1>9, <1>b, <2>1, <2>3 DEF LoopResumes, Types
<1>10. CASE ReadFails(e)
  <2>1. LoopTyped'
    BY <1>10, <1>a DEF ReadFails, Types, LoopTyped, LoopStates
  <2>2. WireTyped'
    BY <1>10, <1>a, ClearTyped DEF ReadFails
  <2> QED
    BY <1>10, <1>b, <2>1, <2>2 DEF ReadFails, Types
<1>11. CASE Close(e, id) \/ ShutStep(e, id) \/ MuxCloseStream(e, g, id)
  <2>1. StreamTyped'
    BY <1>11, <1>c, <1>d DEF Close, ShutStep, MuxCloseStream, Stages, Owners
  <2> QED
    BY <1>11, <1>b, <2>1 DEF Close, ShutStep, MuxCloseStream, Types
<1>12. CASE CloseAnnounce(e, id)
  <2>1. StreamTyped'
    BY <1>12, <1>c DEF CloseAnnounce, Stages
  <2>2. WireTyped'
    BY <1>12, <1>a, <1>b, WriteTyped, FramesAre DEF CloseAnnounce
  <2> QED
    BY <1>12, <1>b, <2>1, <2>2 DEF CloseAnnounce, Types
<1>13. CASE LeaveOnce(e, id)
  <2>1. StreamTyped'
    BY <1>13, <1>c DEF LeaveOnce, Stages
  <2>2. TableTyped'
    BY <1>13, <1>b, <1>e DEF LeaveOnce, table
  <2> QED
    BY <1>13, <1>b, <2>1, <2>2 DEF LeaveOnce, Types
<1>14. CASE k \in Kinds /\ Send(e, id, k)
  <2>1. sent[e][id][k] \in 0..MaxSent /\ sent[e][id][k] + 1 \in 0..MaxSent
    BY <1>14, <1>a, MuxAssumption DEF Send, Types, SentTyped
  <2>2. SentTyped'
    BY <1>14, <1>a, <2>1 DEF Send, Types, SentTyped
  <2>3. WireTyped'
    BY <1>14, <1>a, <2>1, WriteTyped, FramesAre DEF Send
  <2> QED
    BY <1>14, <1>b, <2>2, <2>3 DEF Send, Types
<1>15. CASE ReadCheck(e, id)
  <2>1. reader' \in [Ends -> [Ids -> [Kinds -> {"check", "select", "eof"}]]]
    BY <1>15, <1>a DEF ReadCheck, Types, LaneTyped
  <2>2. LaneTyped'
    BY <1>15, <1>a, <2>1 DEF ReadCheck, Types, LaneTyped
  <2> QED
    BY <1>15, <1>b, <2>2 DEF ReadCheck, Types
<1>16. CASE k \in Kinds /\ Receive(e, id, k)
  <2>1. queue[e][id][k] \in Seq(1..MaxSent) /\ Len(queue[e][id][k]) <= ChanCap
    BY <1>16, <1>a DEF Types, LaneTyped
  <2> DEFINE q == Tail(queue[e][id][k])
             h == Head(queue[e][id][k])
  <2>2. q \in Seq(1..MaxSent) /\ Len(q) <= ChanCap /\ h \in 0..MaxSent
    <3> DEFINE w == queue[e][id][k]
    <3>1. w \in Seq(1..MaxSent) /\ Len(w) <= ChanCap /\ w # <<>>
      BY <1>16, <2>1 DEF Receive
    <3> HIDE DEF w
    <3>2. Tail(w) \in Seq(1..MaxSent) /\ Len(Tail(w)) = Len(w) - 1 /\ Len(w) \in Nat /\ Head(w) \in 1..MaxSent
      BY <3>1, Taking
    <3>3. Len(Tail(w)) <= ChanCap /\ Head(w) \in 0..MaxSent
      BY <3>1, <3>2, MuxAssumption
    <3> QED
      BY <3>2, <3>3 DEF w
  <2>3. /\ queue' = [queue EXCEPT ![e][id][k] = q]
        /\ got' = [got EXCEPT ![e][id][k] = h]
        /\ reads' = [reads EXCEPT ![e][id][k] = @ + 1]
        /\ reader' = [reader EXCEPT ![e][id][k] = NewLane(k)]
    BY <1>16 DEF Receive
  <2> HIDE DEF q, h
  <2>4. queue' \in [Ends -> [Ids -> [Kinds -> Seq(1..MaxSent)]]]
    BY <1>16, <1>a, <2>2, <2>3 DEF Types, LaneTyped
  <2>5. \A x \in Ends, j \in Ids, c \in Kinds : Len(queue'[x][j][c]) <= ChanCap
    BY <1>16, <1>a, <2>2, <2>3 DEF Types, LaneTyped
  <2>6. got' \in [Ends -> [Ids -> [Kinds -> 0..MaxSent]]] /\ reads' \in [Ends -> [Ids -> [Kinds -> Nat]]]
    BY <1>16, <1>a, <2>2, <2>3 DEF Types, LaneTyped
  <2>7. reader' \in [Ends -> [Ids -> [Kinds -> {"check", "select", "eof"}]]]
    BY <1>16, <1>a, <2>3 DEF Types, LaneTyped, NewLane
  <2> QED
    BY <1>16, <1>b, <2>4, <2>5, <2>6, <2>7 DEF Receive, Types, LaneTyped
<1>17. CASE k \in Kinds /\ ReceiveEOF(e, id, k)
  <2>1. reader' \in [Ends -> [Ids -> [Kinds -> {"check", "select", "eof"}]]]
    BY <1>17, <1>a DEF ReceiveEOF, Types, LaneTyped
  <2>2. LaneTyped'
    BY <1>17, <1>a, <2>1 DEF ReceiveEOF, Types, LaneTyped
  <2> QED
    BY <1>17, <1>b, <2>2 DEF ReceiveEOF, Types
<1>18. CASE MuxCloseEnter(e, g) \/ MuxCloseLock(e, g)
  <2>1. muxClose' \in [Ends -> [Closers -> {"idle", "chosen", "locking", "sweeping", "done"}]]
    <3>1. \E v \in {"idle", "chosen", "locking", "sweeping", "done"} :
            muxClose' = [muxClose EXCEPT ![e][g] = v]
      BY <1>18 DEF MuxCloseEnter, MuxCloseLock
    <3> QED
      BY <1>a, <3>1 DEF Types, ProcsTyped
  <2>2. streamMu' \in [Ends -> {"free"} \cup Closers]
    BY <1>18, <1>a DEF MuxCloseEnter, MuxCloseLock, Types, ProcsTyped
  <2>3. ProcsTyped'
    BY <1>18, <1>a, <2>1, <2>2 DEF MuxCloseEnter, MuxCloseLock, Types, ProcsTyped
  <2> QED
    BY <1>18, <1>b, <2>3 DEF MuxCloseEnter, MuxCloseLock, Types
<1>19. CASE MuxCloseSignal(e, g)
  <2>1. ProcsTyped' /\ WireTyped'
    <3>1. CASE closedCh[e]
      BY <1>19, <1>a, <3>1, DiesTyped DEF MuxCloseSignal
    <3>2. CASE ~closedCh[e]
      <4>1. muxClose' \in [Ends -> [Closers -> {"idle", "chosen", "locking", "sweeping", "done"}]]
        BY <1>19, <1>a, <3>2 DEF MuxCloseSignal, Types, ProcsTyped
      <4>2. closedCh' \in [Ends -> BOOLEAN]
        BY <1>19, <1>a, <3>2 DEF MuxCloseSignal, Types, ProcsTyped
      <4>3. ProcsTyped'
        BY <1>19, <1>a, <3>2, <4>1, <4>2 DEF MuxCloseSignal, Types, ProcsTyped
      <4> QED
        BY <1>19, <1>b, <3>2, <4>3 DEF MuxCloseSignal
    <3> QED
      BY <3>1, <3>2
  <2> QED
    BY <1>19, <1>b, <2>1 DEF MuxCloseSignal, Types
<1>20. CASE MuxCloseFinish(e, g)
  <2>1. ProcsTyped'
    BY <1>20, <1>a DEF MuxCloseFinish, Types, ProcsTyped
  <2>2. TableTyped'
    BY <1>20, <1>a DEF MuxCloseFinish, Types, TableTyped
  <2> QED
    BY <1>20, <1>b, <2>1, <2>2 DEF MuxCloseFinish, Types
<1>21. CASE ServerExit
  BY <1>21, <1>a, <1>b, DiesTyped DEF ServerExit, Types, Ends
<1>22. CASE LinkBreaks
  <2>1. ProcsTyped'
    BY <1>22, <1>a DEF LinkBreaks, Types, ProcsTyped
  <2> QED
    BY <1>22, <1>b, <2>1 DEF LinkBreaks, Types
<1> QED
  BY <1>1, <1>2, <1>3, <1>4, <1>5, <1>6, <1>7, <1>8, <1>9, <1>10, <1>11, <1>12, <1>13, <1>14,
     <1>15, <1>16, <1>17, <1>18, <1>19, <1>20, <1>21, <1>22 DEF Step

-----------------------------------------------------------------------------
(* The stages of a stream                                                  *)

\* One stream goes on while the read loop stands still.
LEMMA StageOne ==
  ASSUME StageInv, NEW e \in Ends, NEW id \in Ids, loop' = loop,
         \A x \in Ends, i \in Ids : x # e \/ i # id =>
           /\ st'[x][i] = st[x][i] /\ owner'[x][i] = owner[x][i]
           /\ i \in streams'[x] <=> i \in streams[x],
         Stage(e, id)',
         loop[e].pc = "push" /\ loop[e].id = id /\ st'[e][id] \in Signalled
           => owner'[e][id] \in {"local", "mux"},
         \A x \in Ends : loop[x].id \in Ids
  PROVE  StageInv'
<1>1. \A x \in Ends, i \in Ids : Stage(x, i)'
  BY DEF StageInv, Stage
<1>2. PeerCannotPanicPush'
  BY DEF StageInv, PeerCannotPanicPush
<1> QED
  BY <1>1, <1>2 DEF StageInv

\* The read loop of one end takes a frame up or puts it down.
LEMMA StageLoop ==
  ASSUME StageInv, NEW e \in Ends, UNCHANGED stream,
         \A x \in Ends \ {e} : loop'[x] = loop[x] /\ streams'[x] = streams[x],
         \A i \in Ids : Stage(e, i)',
         loop'[e].pc = "push" /\ st[e][loop'[e].id] \in Signalled
           => owner[e][loop'[e].id] \in {"local", "mux"}
  PROVE  StageInv'
BY DEF StageInv, Stage, PeerCannotPanicPush, stream

\* The stages are those of the streams, the table and the loop.
LEMMA StageSame ==
  ASSUME StageInv, UNCHANGED <<stream, streams, loop>>
  PROVE  StageInv'
BY DEF StageInv, Stage, PeerCannotPanicPush, stream

\* Every step keeps the stages.
LEMMA StepStages ==
  ASSUME MuxInv, NEW e \in Ends, NEW id \in Ids, NEW k, NEW g \in Closers, Step(e, id, k, g)
  PROVE  StageInv'
<1>a. /\ Types /\ StageInv /\ \A x \in Ends : loop[x].id \in Ids
      /\ \A i \in Ids : Stage(e, i)
      /\ st \in [Ends -> [Ids -> Stages]] /\ owner \in [Ends -> [Ids -> Owners]]
      /\ streams \in [Ends -> SUBSET Ids]
  BY DEF MuxInv, Types, LoopTyped, StageInv, StreamTyped, TableTyped
<1>b. loop[e].pc = "read" =>
        \A i \in Ids : /\ owner[e][i] = "remote" => st[e][i] = "done"
                       /\ owner[e][i] = "reject" => st[e][i] = "done"
  <2> SUFFICES ASSUME loop[e].pc = "read", NEW i \in Ids
               PROVE  /\ owner[e][i] = "remote" => st[e][i] = "done"
                      /\ owner[e][i] = "reject" => st[e][i] = "done"
    OBVIOUS
  <2>1. Stage(e, i) /\ st[e][i] \in Stages
    BY <1>a
  <2> QED
    BY <2>1 DEF Stage, Stages
<1>1. CASE \/ OpenCheck(e) \/ PushPanics(e) \/ ReadCheck(e, id)
           \/ k \in Kinds /\ (Send(e, id, k) \/ Receive(e, id, k) \/ ReceiveEOF(e, id, k))
           \/ MuxCloseEnter(e, g) \/ MuxCloseSignal(e, g) \/ MuxCloseLock(e, g)
           \/ ServerExit \/ LinkBreaks
  <2>1. UNCHANGED <<stream, streams, loop>>
    BY <1>1 DEF OpenCheck, PushPanics, ReadCheck, Send, Receive, ReceiveEOF, MuxCloseEnter,
         MuxCloseSignal, MuxCloseLock, ServerExit, LinkBreaks, table
  <2> QED
    BY <1>a, <2>1, StageSame
<1>2. CASE OpenRegister(e)
  <2>1. PICK i \in Ids : i = nextID[e] /\ st[e][i] = "none"
    BY <1>2, <1>a DEF OpenRegister, MuxInv, IdInv, OwnIds, Ids, Types, TableTyped
  <2>2. owner[e][i] = "nobody"
    BY <1>a, <2>1 DEF Stage
  <2>3. /\ st'[e][i] = "open" /\ i \in streams'[e] /\ owner' = owner /\ loop' = loop
        /\ \A x \in Ends, j \in Ids : x # e \/ j # i =>
             st'[x][j] = st[x][j] /\ (j \in streams'[x] <=> j \in streams[x])
    BY <1>2, <1>a, <2>1 DEF OpenRegister
  <2>4. Stage(e, i)'
    BY <2>2, <2>3 DEF Stage
  <2> QED
    BY <1>a, <2>3, <2>4, StageOne DEF Signalled
<1>3. CASE OpenAnnounce(e)
  <2>1. CASE UNCHANGED <<streams, st>>
    <3>1. UNCHANGED <<stream, streams, loop>>
      BY <1>3, <2>1 DEF OpenAnnounce, stream
    <3> QED
      BY <1>a, <3>1, StageSame
  <2>2. CASE /\ streams' = [streams EXCEPT ![e] = @ \ {opening[e]}]
             /\ st' = [st EXCEPT ![e][opening[e]] = "done"]
    <3>1. PICK i \in Ids : i = opening[e] /\ Unannounced(e, i)
      BY <1>3 DEF OpenAnnounce, MuxInv, IdInv, OwnIds, Unannounced
    <3>2. /\ st'[e][i] = "done" /\ i \notin streams'[e] /\ owner' = owner /\ loop' = loop
          /\ \A x \in Ends, j \in Ids : x # e \/ j # i =>
               st'[x][j] = st[x][j] /\ (j \in streams'[x] <=> j \in streams[x])
      BY <1>3, <1>a, <2>2, <3>1 DEF OpenAnnounce
    <3>3. Stage(e, i)'
      BY <3>2 DEF Stage
    <3>4. loop[e].pc = "push" => loop[e].id # i
      BY <3>1 DEF MuxInv, IdInv, OwnIds, Busy
    <3> QED
      BY <1>a, <3>2, <3>3, <3>4, StageOne
  <2> QED
    BY <1>3, <2>1, <2>2 DEF OpenAnnounce
<1>4. CASE HandleOpen(e)
  <2>1. /\ loop[e].pc = "read" /\ wire[e] # <<>> /\ Head(wire[e]).type = "open"
        /\ Head(wire[e]) = wire[e][1] /\ 1 \in Pos(e) /\ Head(wire[e]) \in Frame
    BY <1>4, <1>a, Taking DEF HandleOpen, HasFrame, Types, WireTyped, Pos
  <2>2. PICK f \in Frame : f = Head(wire[e])
    BY <2>1
  <2>3. f.id \in Ids /\ st[e][f.id] = "none"
    BY <2>1, <2>2 DEF MuxInv, IdInv, OpenFrames, Frame
  <2>4. owner[e][f.id] = "nobody"
    BY <1>a, <2>3 DEF Stage
  <2>5. /\ streams' = [streams EXCEPT ![e] = @ \cup {f.id}]
        /\ \/ /\ st' = [st EXCEPT ![e][f.id] = "open"]
              /\ UNCHANGED <<owner, loop>>
           \/ /\ st' = [st EXCEPT ![e][f.id] = "closing"]
              /\ owner' = [owner EXCEPT ![e][f.id] = "reject"]
              /\ loop' = [loop EXCEPT ![e] = At("reject", f)]
    BY <1>4, <2>2 DEF HandleOpen
  <2>6. ASSUME NEW i \in Ids PROVE Stage(e, i)'
    <3>1. i \in streams'[e] <=> i \in streams[e] \/ i = f.id
      BY <1>a, <2>3, <2>5
    <3>2. CASE i # f.id
      <4>1. st'[e][i] = st[e][i] /\ owner'[e][i] = owner[e][i]
        BY <1>a, <2>3, <2>5, <3>2
      <4> QED
        BY <1>a, <1>b, <2>1, <3>1, <3>2, <4>1 DEF Stage
    <3>3. CASE i = f.id /\ st'[e][i] = "open" /\ owner'[e][i] = "nobody"
      BY <3>1, <3>3 DEF Stage
    <3>4. CASE /\ i = f.id /\ st'[e][i] = "closing" /\ owner'[e][i] = "reject"
               /\ loop' = [loop EXCEPT ![e] = At("reject", f)]
      <4>1. loop'[e].pc = "reject" /\ loop'[e].id = i
        BY <1>a, <3>4, LoopRecords DEF Types, LoopTyped, LoopStates
      <4> QED
        BY <3>1, <3>4, <4>1 DEF Stage
    <3>5. i = f.id => \/ st'[e][i] = "open" /\ owner'[e][i] = "nobody"
                      \/ /\ st'[e][i] = "closing" /\ owner'[e][i] = "reject"
                         /\ loop' = [loop EXCEPT ![e] = At("reject", f)]
      BY <1>a, <2>3, <2>4, <2>5
    <3> QED
      BY <3>2, <3>3, <3>4, <3>5
  <2>7. loop'[e].pc # "push"
    BY <1>a, <2>1, <2>5, LoopRecords DEF Types, LoopTyped, LoopStates
  <2>8. \A x \in Ends \ {e} : /\ loop'[x] = loop[x] /\ streams'[x] = streams[x]
                              /\ st'[x] = st[x] /\ owner'[x] = owner[x]
    BY <1>a, <2>5 DEF Types, LoopTyped
  <2>9. \A x \in Ends, i \in Ids : Stage(x, i)'
    BY <1>a, <2>6, <2>8 DEF StageInv, Stage
  <2>10. PeerCannotPanicPush'
    BY <1>a, <2>7, <2>8 DEF StageInv, PeerCannotPanicPush
  <2> QED
    BY <2>9, <2>10 DEF StageInv
<1>5. CASE HandlePayload(e)
  <2>1. loop[e].pc = "read" /\ Head(wire[e]) \in Frame /\ UNCHANGED <<stream, streams>>
    BY <1>5, <1>a, TakeTyped DEF HandlePayload, HasFrame, table
  <2>2. PICK f \in Frame : f = Head(wire[e])
    BY <2>1
  <2>3. /\ \A x \in Ends \ {e} : loop'[x] = loop[x] /\ streams'[x] = streams[x]
        /\ \/ loop'[e].pc = "read"
           \/ loop'[e].pc = "push" /\ loop'[e].id = f.id /\ st[e][f.id] \notin Shut
    BY <1>5, <1>a, <2>1, <2>2, LoopRecords DEF HandlePayload, Types, LoopTyped, LoopStates
  <2>4. \A i \in Ids : Stage(e, i)'
    BY <1>a, <1>b, <2>1 DEF Stage, stream
  <2>5. f.id \in Ids
    BY <2>2 DEF Frame
  <2>6. st[e][f.id] = "signalled" => owner[e][f.id] \in {"local", "mux"}
    <3>1. Stage(e, f.id) /\ owner[e][f.id] \in Owners
      BY <1>a, <2>5
    <3> QED
      BY <1>b, <2>1, <2>5, <3>1 DEF Stage, Owners
  <2> QED
    BY <1>a, <2>1, <2>3, <2>4, <2>6, StageLoop DEF Signalled, Shut
<1>6. CASE HandleClose(e)
  <2>1. loop[e].pc = "read" /\ Head(wire[e]) \in Frame /\ streams' = streams
    BY <1>6, <1>a, TakeTyped DEF HandleClose, HasFrame, table
  <2>2. PICK f \in Frame : f = Head(wire[e])
    BY <2>1
  <2>3. f.id \in Ids
    BY <2>2 DEF Frame
  <2>4. CASE f.id \in streams[e] /\ st[e][f.id] = "open"
    <3>1. /\ loop' = [loop EXCEPT ![e] = At("close", f)]
          /\ st' = [st EXCEPT ![e][f.id] = "signalled"]
          /\ owner' = [owner EXCEPT ![e][f.id] = "remote"]
      BY <1>6, <2>2, <2>4 DEF HandleClose
    <3>2. loop'[e].pc = "close" /\ loop'[e].id = f.id
      BY <1>a, <3>1, LoopRecords DEF Types, LoopTyped, LoopStates
    <3>3. \A x \in Ends \ {e} : loop'[x] = loop[x] /\ st'[x] = st[x] /\ owner'[x] = owner[x]
      BY <1>a, <3>1 DEF Types, LoopTyped
    <3>4. ASSUME NEW i \in Ids PROVE Stage(e, i)'
      <4>1. CASE i = f.id
        <5>1. st'[e][i] = "signalled" /\ owner'[e][i] = "remote"
          BY <1>a, <2>3, <3>1, <4>1
        <5> QED
          BY <3>2, <4>1, <5>1 DEF Stage
      <4>2. CASE i # f.id
        <5>1. st'[e][i] = st[e][i] /\ owner'[e][i] = owner[e][i]
          BY <1>a, <2>3, <3>1, <4>2
        <5> QED
          BY <1>a, <1>b, <2>1, <5>1 DEF Stage
      <4> QED
        BY <4>1, <4>2
    <3>5. \A x \in Ends, i \in Ids : Stage(x, i)'
      BY <1>a, <2>1, <3>3, <3>4 DEF StageInv, Stage
    <3>6. PeerCannotPanicPush'
      BY <1>a, <3>2, <3>3 DEF StageInv, PeerCannotPanicPush
    <3> QED
      BY <3>5, <3>6 DEF StageInv
  <2>5. CASE ~(f.id \in streams[e] /\ st[e][f.id] = "open")
    <3>1. UNCHANGED stream /\ (loop' = loop \/ loop' = [loop EXCEPT ![e] = At("close", f)])
      BY <1>6, <2>2, <2>5 DEF HandleClose
    <3>2. loop'[e].pc # "push" /\ \A x \in Ends \ {e} : loop'[x] = loop[x]
      BY <1>a, <2>1, <3>1, LoopRecords DEF Types, LoopTyped, LoopStates
    <3>3. \A i \in Ids : Stage(e, i)'
      BY <1>a, <1>b, <2>1, <3>1 DEF Stage, stream
    <3> QED
      BY <1>a, <2>1, <3>1, <3>2, <3>3, StageLoop
  <2> QED
    BY <2>4, <2>5
<1>7. CASE Push(e) \/ ReadFails(e)
  <2>1. /\ UNCHANGED <<stream, streams>> /\ loop[e].pc \in {"push", "read"}
        /\ loop'[e].pc # "push" /\ \A x \in Ends \ {e} : loop'[x] = loop[x]
    BY <1>7, <1>a, LoopRecords DEF Push, ReadFails, table, Types, LoopTyped
  <2>2. \A i \in Ids : Stage(e, i)'
    BY <1>a, <2>1 DEF Stage, stream
  <2> QED
    BY <1>a, <2>1, <2>2, StageLoop
<1>8. CASE LoopResumes(e)
  <2>1. PICK j \in Ids : j = loop[e].id
    BY <1>a
  <2>2. /\ UNCHANGED stream /\ st[e][j] = "done" /\ loop'[e].pc = "read"
        /\ \A x \in Ends \ {e} : loop'[x] = loop[x] /\ streams'[x] = streams[x]
        /\ \A i \in Ids : i \in streams'[e] <=> i \in streams[e] /\ i # j
    BY <1>8, <1>a, <2>1, LoopRecords DEF LoopResumes, Types, LoopTyped
  <2>3. ASSUME NEW i \in Ids PROVE Stage(e, i)'
    BY <1>a, <2>1, <2>2 DEF Stage, stream
  <2> QED
    BY <1>a, <2>2, <2>3, StageLoop
<1>9. CASE Close(e, id) \/ CloseAnnounce(e, id) \/ ShutStep(e, id) \/ MuxCloseStream(e, g, id)
  <2>1. /\ loop' = loop /\ streams' = streams
        /\ \A x \in Ends, i \in Ids : x # e \/ i # id =>
             st'[x][i] = st[x][i] /\ owner'[x][i] = owner[x][i]
    BY <1>9, <1>a DEF Close, CloseAnnounce, ShutStep, MuxCloseStream, table
  <2>2. \/ st[e][id] = "open" /\ st'[e][id] = "closing" /\ owner'[e][id] = "local"
        \/ st[e][id] = "closing" /\ st'[e][id] = "signalled" /\ owner'[e][id] = owner[e][id]
        \/ st[e][id] = "signalled" /\ st'[e][id] = "shut" /\ owner'[e][id] = owner[e][id]
        \/ st[e][id] = "open" /\ st'[e][id] = "signalled" /\ owner'[e][id] = "mux"
    BY <1>9, <1>a DEF Close, CloseAnnounce, ShutStep, MuxCloseStream
  <2>3. Stage(e, id)'
    BY <1>a, <2>1, <2>2 DEF Stage
  <2>4. loop[e].pc = "push" /\ loop[e].id = id /\ st'[e][id] \in Signalled
          => owner'[e][id] \in {"local", "mux"}
    BY <1>a, <2>2 DEF StageInv, Stage, PeerCannotPanicPush, Signalled
  <2> QED
    BY <1>a, <2>1, <2>3, <2>4, StageOne
<1>10. CASE LeaveOnce(e, id)
  <2>1. /\ loop' = loop /\ owner' = owner /\ st[e][id] = "shut" /\ st'[e][id] = "done"
        /\ id \in streams'[e] => id \in streams[e]
        /\ \A x \in Ends, i \in Ids : x # e \/ i # id =>
             st'[x][i] = st[x][i] /\ (i \in streams'[x] <=> i \in streams[x])
    BY <1>10, <1>a DEF LeaveOnce
  <2>2. Stage(e, id)'
    BY <1>a, <2>1 DEF Stage
  <2>3. loop[e].pc = "push" /\ loop[e].id = id => owner[e][id] \in {"local", "mux"}
    BY <1>a, <2>1 DEF StageInv, PeerCannotPanicPush, Signalled
  <2> QED
    BY <1>a, <2>1, <2>2, <2>3, StageOne
<1>11. CASE MuxCloseFinish(e, g)
  <2>1. /\ UNCHANGED <<stream, loop>> /\ streams'[e] = {}
        /\ \A i \in streams[e] : st[e][i] = "done"
        /\ \A x \in Ends \ {e} : streams'[x] = streams[x]
    BY <1>11, <1>a DEF MuxCloseFinish
  <2>2. ASSUME NEW i \in Ids PROVE Stage(e, i)'
    BY <1>a, <2>1 DEF Stage, stream
  <2> QED
    BY <1>a, <2>1, <2>2, StageLoop DEF StageInv, PeerCannotPanicPush
<1> QED
  BY <1>1, <1>2, <1>3, <1>4, <1>5, <1>6, <1>7, <1>8, <1>9, <1>10, <1>11 DEF Step

-----------------------------------------------------------------------------
(* The ids of the streams and the frames on the wire                       *)

\* No stream comes into being, and none comes back.
StagesOn ==
  \A x \in Ends, i \in Ids :
    /\ st'[x][i] = "none" <=> st[x][i] = "none"
    /\ st[x][i] \in Shut => st'[x][i] \in Shut
    /\ st'[x][i] = "closing" => st[x][i] = "closing" \/ opening[x] # i

\* Whoever stops listening is not written to any more.
ListeningOn ==
  \A x \in Ends :
    /\ Listens(x)' => Listens(x)
    /\ ~Listens(x)' => ~Listens(x) \/ WriteFails(Peer(x))'
    /\ WriteFails(x) => WriteFails(x)'

BusyOn(x) == Busy(x)' => Busy(x) /\ loop'[x].id = loop[x].id

\* The ids a step hands out none of.
SameIds == nextID' = nextID /\ opening' = opening /\ StagesOn /\ ListeningOn

\* What is on the wire are frames with ids.
LEMMA OnWire ==
  ASSUME Types, NEW x \in Ends
  PROVE  /\ Peer(x) \in Ends /\ Len(wire[x]) \in Nat
         /\ \A i \in Pos(x) : wire[x][i] \in Frame /\ wire[x][i].id \in Ids
<1>1. wire[x] \in Seq(Frame)
  BY DEF Types, WireTyped
<1>2. Len(wire[x]) \in Nat /\ \A i \in Pos(x) : wire[x][i] \in Frame
  BY <1>1 DEF Pos
<1>3. \A f \in Frame : f.id \in Ids
  BY DEF Frame
<1> QED
  BY <1>2, <1>3, TwoEnds

\* The wire is left alone.
LEMMA IdsQuiet ==
  ASSUME Types, IdInv, SameIds, wire' = wire, \A x \in Ends : BusyOn(x)
  PROVE  IdInv'
<1> SUFFICES ASSUME NEW x \in Ends
             PROVE  (OwnIds(x) /\ OpenFrames(x) /\ LaterFrames(x) /\ Known(x) /\ Deaf(x))'
  BY DEF IdInv
<1>a. Peer(x) \in Ends /\ \A i \in Pos(x) : wire[x][i] \in Frame /\ wire[x][i].id \in Ids
  BY OnWire
<1>b. OwnIds(x) /\ OpenFrames(x) /\ LaterFrames(x) /\ Known(x) /\ Deaf(x) /\ Pos(x)' = Pos(x)
  BY DEF IdInv, Pos
<1>1. OwnIds(x)'
  BY <1>a, <1>b DEF OwnIds, SameIds, StagesOn, BusyOn, Unannounced
<1>2. OpenFrames(x)'
  BY <1>a, <1>b DEF OpenFrames, SameIds, StagesOn, Unannounced
<1>3. LaterFrames(x)'
  BY <1>a, <1>b DEF LaterFrames, SameIds, StagesOn
<1>4. Known(x)'
  BY <1>a, <1>b DEF Known, SameIds, StagesOn, ListeningOn
<1>5. Deaf(x)'
  BY <1>a, <1>b DEF Deaf, SameIds, ListeningOn
<1> QED
  BY <1>1, <1>2, <1>3, <1>4, <1>5

\* Its frames are lost to an end that stops listening.
LEMMA IdsClear ==
  ASSUME Types, IdInv, SameIds, NEW e \in Ends, wire' = [wire EXCEPT ![e] = <<>>],
         ~Listens(e)', \A x \in Ends : BusyOn(x)
  PROVE  IdInv'
<1> SUFFICES ASSUME NEW x \in Ends
             PROVE  (OwnIds(x) /\ OpenFrames(x) /\ LaterFrames(x) /\ Known(x) /\ Deaf(x))'
  BY DEF IdInv
<1>a. Peer(x) \in Ends /\ \A i \in Pos(x) : wire[x][i] \in Frame /\ wire[x][i].id \in Ids
  BY OnWire
<1>b. OwnIds(x) /\ OpenFrames(x) /\ LaterFrames(x) /\ Known(x) /\ Deaf(x)
  BY DEF IdInv
<1>c. \/ Pos(x)' = Pos(x) /\ wire'[x] = wire[x]
      \/ x = e /\ Pos(x)' = {}
  BY DEF Types, WireTyped, Pos
<1>1. OwnIds(x)'
  BY <1>a, <1>b, <1>c DEF OwnIds, SameIds, StagesOn, BusyOn, Unannounced
<1>2. OpenFrames(x)'
  BY <1>a, <1>b, <1>c DEF OpenFrames, SameIds, StagesOn, Unannounced
<1>3. LaterFrames(x)'
  BY <1>a, <1>b, <1>c DEF LaterFrames, SameIds, StagesOn
<1>4. Known(x)'
  BY <1>a, <1>b, <1>c DEF Known, SameIds, StagesOn, ListeningOn
<1>5. Deaf(x)'
  BY <1>a, <1>b DEF Deaf, SameIds, ListeningOn
<1> QED
  BY <1>1, <1>2, <1>3, <1>4, <1>5

\* A stream that is neither new nor shut sends.
LEMMA IdsSend ==
  ASSUME Types, IdInv, SameIds, \A x \in Ends : BusyOn(x),
         NEW e \in Ends, NEW f \in Frame, CanWrite(e), WriteFrame(e, f),
         f.type # "open", st[e][f.id] \notin {"none"} \cup Shut, opening[e] # f.id
  PROVE  IdInv'
<1>a. \A x \in Ends : Peer(x) \in Ends /\ \A i \in Pos(x) : wire[x][i] \in Frame /\ wire[x][i].id \in Ids
  BY OnWire
<1>b. \A x \in Ends : OwnIds(x) /\ OpenFrames(x) /\ LaterFrames(x) /\ Known(x) /\ Deaf(x)
  BY DEF IdInv
<1>c. PICK p \in Ends : /\ p = Peer(e) /\ Peer(p) = e /\ p # e /\ \A x \in Ends : x = e \/ x = p
                       /\ f.id \in Ids
  BY TwoEnds DEF Frame
<1>d. /\ Len(wire'[p]) = Len(wire[p]) + 1 /\ Len(wire[p]) \in Nat
      /\ wire'[p][Len(wire[p]) + 1] = f
      /\ \A i \in Pos(p) : wire'[p][i] = wire[p][i]
      /\ wire'[e] = wire[e]
  BY <1>c, Putting DEF Types, WireTyped, WriteFrame, Pos
<1>e. /\ \A i \in Pos(p)' :
           (i \in Pos(p) /\ wire'[p][i] = wire[p][i]) \/ (i = Len(wire[p]) + 1 /\ wire'[p][i] = f)
      /\ Pos(p) \subseteq Pos(p)' /\ Pos(e)' = Pos(e)
  BY <1>d DEF Pos
<1>f. Listens(p)
  BY <1>b, <1>c DEF Deaf, CanWrite
<1>1. ASSUME NEW x \in Ends PROVE OwnIds(x)'
  <2>1. \A id \in Ids : Unannounced(x, id)' => Unannounced(x, id)
    BY DEF Unannounced, SameIds
  <2>2. ASSUME NEW id \in Ids, Unannounced(x, id)' PROVE \A i \in Pos(x)' : wire'[x][i].id # id
    <3>1. st[Peer(x)][id] = "none" /\ \A i \in Pos(x) : wire[x][i].id # id
      BY <1>b, <2>1, <2>2 DEF OwnIds
    <3> QED
      BY <1>c, <1>d, <1>e, <3>1
  <2> QED
    BY <1>a, <1>b, <2>1, <2>2 DEF OwnIds, SameIds, StagesOn, BusyOn
<1>2. ASSUME NEW x \in Ends PROVE OpenFrames(x)'
  <2>1. CASE x = e
    BY <1>a, <1>b, <1>c, <1>d, <1>e, <2>1 DEF OpenFrames, SameIds, StagesOn, Unannounced
  <2>2. CASE x = p
    <3>1. \A i \in Pos(p)' : wire'[p][i].type = "open" => i \in Pos(p) /\ wire'[p][i] = wire[p][i]
      BY <1>e
    <3> QED
      BY <1>a, <1>b, <1>c, <2>2, <3>1 DEF OpenFrames, SameIds, StagesOn, Unannounced
  <2> QED
    BY <1>c, <2>1, <2>2
<1>3. ASSUME NEW x \in Ends PROVE LaterFrames(x)'
  <2>1. CASE x = e
    BY <1>a, <1>b, <1>c, <1>d, <1>e, <2>1 DEF LaterFrames, SameIds, StagesOn
  <2>2. CASE x = p
    <3> SUFFICES ASSUME NEW i \in Pos(p)', wire'[p][i].type # "open", st'[p][wire'[p][i].id] = "none"
                 PROVE  \E j \in 1..(i - 1) : wire'[p][j].type = "open" /\ wire'[p][j].id = wire'[p][i].id
      BY <2>2 DEF LaterFrames
    <3>1. CASE i \in Pos(p) /\ wire'[p][i] = wire[p][i]
      <4>1. PICK j \in 1..(i - 1) : wire[p][j].type = "open" /\ wire[p][j].id = wire[p][i].id
        BY <1>a, <1>b, <1>c, <3>1 DEF LaterFrames, SameIds, StagesOn
      <4>2. j \in Pos(p)
        BY <1>d, <3>1 DEF Pos
      <4> QED
        BY <1>d, <3>1, <4>1, <4>2
    <3>2. CASE i = Len(wire[p]) + 1 /\ wire'[p][i] = f
      <4>1. st[p][f.id] = "none"
        BY <1>c, <3>2 DEF SameIds, StagesOn
      <4>2. PICK j \in Pos(p) : wire[p][j].type = "open" /\ wire[p][j].id = f.id
        BY <1>b, <1>c, <1>f, <4>1 DEF Known
      <4>3. j \in 1..(i - 1)
        BY <1>d, <3>2, <4>2 DEF Pos
      <4> QED
        BY <1>d, <3>2, <4>2, <4>3
    <3> QED
      BY <1>e, <3>1, <3>2
  <2> QED
    BY <1>c, <2>1, <2>2
<1>4. ASSUME NEW x \in Ends PROVE Known(x)'
  <2>1. \A i \in Pos(x) : i \in Pos(x)' /\ wire'[x][i] = wire[x][i]
    BY <1>c, <1>d, <1>e
  <2> QED
    BY <1>a, <1>b, <2>1 DEF Known, SameIds, StagesOn, ListeningOn
<1>5. ASSUME NEW x \in Ends PROVE Deaf(x)'
  BY <1>a, <1>b DEF Deaf, SameIds, ListeningOn
<1> QED
  BY <1>1, <1>2, <1>3, <1>4, <1>5 DEF IdInv

\* The read loop takes up a frame that opens nothing.
LEMMA IdsTake ==
  ASSUME Types, IdInv, SameIds, NEW e \in Ends, wire[e] # <<>>, TakeFrame(e),
         Head(wire[e]).type # "open",
         \A x \in Ends \ {e} : BusyOn(x),
         Busy(e)' => loop'[e].id = Head(wire[e]).id
  PROVE  IdInv'
<1>a. \A x \in Ends : Peer(x) \in Ends /\ \A i \in Pos(x) : wire[x][i] \in Frame /\ wire[x][i].id \in Ids
  BY OnWire
<1>b. \A x \in Ends : OwnIds(x) /\ OpenFrames(x) /\ LaterFrames(x) /\ Known(x) /\ Deaf(x)
  BY DEF IdInv
<1>c. \A x \in Ends \ {e} : wire'[x] = wire[x] /\ Pos(x)' = Pos(x)
  BY DEF Types, WireTyped, TakeFrame, Pos
<1>d. /\ Head(wire[e]) = wire[e][1] /\ Len(wire[e]) \in Nat \ {0}
      /\ Len(wire'[e]) = Len(wire[e]) - 1
      /\ \A i \in Pos(e)' : wire'[e][i] = wire[e][i + 1]
  BY Taking DEF Types, WireTyped, TakeFrame, Pos
<1>e. /\ \A i \in Pos(e)' : i + 1 \in Pos(e)
      /\ \A i \in Pos(e) : i # 1 => i - 1 \in Pos(e)' /\ wire'[e][i - 1] = wire[e][i]
      /\ 1 \in Pos(e)
  BY <1>d DEF Pos
<1>1. ASSUME NEW x \in Ends PROVE OwnIds(x)'
  <2>1. \A id \in Ids : Unannounced(x, id)' => Unannounced(x, id)
    BY DEF Unannounced, SameIds
  <2>2. ASSUME NEW id \in Ids, Unannounced(x, id)'
        PROVE  /\ \A i \in Pos(x)' : wire'[x][i].id # id
               /\ Busy(x)' => loop'[x].id # id
    <3>1. /\ \A i \in Pos(x) : wire[x][i].id # id
          /\ Busy(x) => loop[x].id # id
      BY <1>b, <2>1, <2>2 DEF OwnIds
    <3> QED
      BY <1>c, <1>d, <1>e, <3>1 DEF BusyOn
  <2> QED
    BY <1>a, <1>b, <2>1, <2>2 DEF OwnIds, SameIds, StagesOn
<1>2. ASSUME NEW x \in Ends PROVE OpenFrames(x)'
  <2>1. CASE x = e
    <3> SUFFICES ASSUME NEW i \in Pos(e)', NEW f, f = wire'[e][i], f.type = "open"
                 PROVE  /\ Own(Peer(e), f.id) /\ ~Unannounced(Peer(e), f.id)'
                        /\ st'[e][f.id] = "none"
                        /\ \A j \in Pos(e)' : wire'[e][j].type = "open" /\ wire'[e][j].id = f.id => j = i
      BY <2>1 DEF OpenFrames
    <3>1. i + 1 \in Pos(e) /\ f = wire[e][i + 1] /\ f.id \in Ids
      BY <1>a, <1>d, <1>e
    <3>2. \A j \in Pos(e)' : wire'[e][j].type = "open" /\ wire'[e][j].id = f.id => j + 1 = i + 1
      BY <1>b, <1>d, <1>e, <3>1 DEF OpenFrames
    <3>3. \A j \in Pos(e)' : wire'[e][j].type = "open" /\ wire'[e][j].id = f.id => j = i
      BY <3>2 DEF Pos
    <3>4. Own(Peer(e), f.id) /\ ~Unannounced(Peer(e), f.id) /\ st[e][f.id] = "none"
      BY <1>b, <3>1 DEF OpenFrames
    <3>5. ~Unannounced(Peer(e), f.id)' /\ st'[e][f.id] = "none"
      BY <1>a, <3>1, <3>4 DEF Unannounced, SameIds, StagesOn
    <3> QED
      BY <3>3, <3>4, <3>5
  <2>2. CASE x # e
    BY <1>a, <1>b, <1>c, <2>2 DEF OpenFrames, SameIds, StagesOn, Unannounced
  <2> QED
    BY <2>1, <2>2
<1>3. ASSUME NEW x \in Ends PROVE LaterFrames(x)'
  <2>1. CASE x = e
    <3> SUFFICES ASSUME NEW i \in Pos(e)', wire'[e][i].type # "open", st'[e][wire'[e][i].id] = "none"
                 PROVE  \E j \in 1..(i - 1) : wire'[e][j].type = "open" /\ wire'[e][j].id = wire'[e][i].id
      BY <2>1 DEF LaterFrames
    <3>1. i + 1 \in Pos(e) /\ wire'[e][i] = wire[e][i + 1]
      BY <1>d, <1>e
    <3>2. PICK j \in 1..((i + 1) - 1) : wire[e][j].type = "open" /\ wire[e][j].id = wire[e][i + 1].id
      BY <1>a, <1>b, <3>1 DEF LaterFrames, SameIds, StagesOn
    <3>3. j # 1 /\ j \in Pos(e) /\ j - 1 \in 1..(i - 1)
      <4>1. PICK n \in Nat, m \in Nat : n = Len(wire[e]) /\ m = i /\ m + 1 <= n
        BY <1>d, <3>1 DEF Pos
      <4>2. wire[e][1].type # "open"
        BY <1>d
      <4>3. j # 1
        BY <3>2, <4>2
      <4>4. j \in 1..n /\ j - 1 \in 1..(m - 1)
        BY <3>2, <4>1, <4>3
      <4> QED
        BY <4>1, <4>3, <4>4 DEF Pos
    <3> QED
      BY <1>e, <3>1, <3>2, <3>3
  <2>2. CASE x # e
    BY <1>a, <1>b, <1>c, <2>2 DEF LaterFrames, SameIds, StagesOn
  <2> QED
    BY <2>1, <2>2
<1>4. ASSUME NEW x \in Ends PROVE Known(x)'
  <2>1. \A i \in Pos(x) : wire[x][i].type = "open" =>
          \E j \in Pos(x)' : wire'[x][j] = wire[x][i]
    BY <1>c, <1>d, <1>e
  <2> QED
    BY <1>a, <1>b, <2>1 DEF Known, SameIds, StagesOn, ListeningOn
<1>5. ASSUME NEW x \in Ends PROVE Deaf(x)'
  BY <1>a, <1>b DEF Deaf, SameIds, ListeningOn
<1> QED
  BY <1>1, <1>2, <1>3, <1>4, <1>5 DEF IdInv

\* A stream goes on to its next stage.
LEMMA StagesOnOne ==
  ASSUME NEW e \in Ends, NEW id \in Ids,
         \A x \in Ends, i \in Ids : x # e \/ i # id => st'[x][i] = st[x][i],
         st[e][id] # "none", st'[e][id] # "none", st[e][id] \in Shut => st'[e][id] \in Shut,
         st'[e][id] = "closing" => opening[e] # id
  PROVE  StagesOn
BY DEF StagesOn

\* Nothing an end listens with has changed.
LEMMA ListeningSame ==
  ASSUME UNCHANGED <<alive, link, closedCh, loop>>
  PROVE  ListeningOn /\ \A x \in Ends : BusyOn(x)
BY DEF ListeningOn, BusyOn, Listens, Busy, WriteFails

\* The loop of an end that has a frame in hand, or takes one up.
LEMMA ListeningLoop ==
  ASSUME Types, NEW e \in Ends, UNCHANGED <<alive, link, closedCh>>,
         NEW l, loop' = [loop EXCEPT ![e] = l], loop[e].pc # "stop", l.pc # "stop"
  PROVE  ListeningOn /\ (\A x \in Ends \ {e} : BusyOn(x)) /\ loop'[e] = l
BY DEF ListeningOn, BusyOn, Listens, Busy, WriteFails, Types, LoopTyped

\* A process is gone, and whoever wrote to it finds the connection down.
LEMMA IdsDies ==
  ASSUME Types, IdInv, NEW e \in Ends, Dies(e),
         UNCHANGED <<closedCh, loop, st, nextID, opening>>
  PROVE  IdInv'
<1>1. /\ alive' = [alive EXCEPT ![e] = FALSE] /\ link' = "down"
      /\ wire' = [wire EXCEPT ![e] = <<>>] /\ alive \in [Ends -> BOOLEAN]
  BY DEF Dies, Types, ProcsTyped
<1>2. ~Listens(e)' /\ ListeningOn /\ \A x \in Ends : BusyOn(x)
  BY <1>1 DEF ListeningOn, BusyOn, Listens, Busy, WriteFails
<1>3. SameIds
  BY <1>2 DEF SameIds, StagesOn
<1> QED
  BY <1>1, <1>2, <1>3, IdsClear

\* An end opens a stream: its id is announced later.
LEMMA IdsRegister ==
  ASSUME Types, IdInv, NEW e \in Ends, OpenRegister(e)
  PROVE  IdInv'
<1>a. \A x \in Ends : Peer(x) \in Ends /\ \A i \in Pos(x) : wire[x][i] \in Frame /\ wire[x][i].id \in Ids
  BY OnWire
<1>b. \A x \in Ends : OwnIds(x) /\ OpenFrames(x) /\ LaterFrames(x) /\ Known(x) /\ Deaf(x)
  BY DEF IdInv
<1>c. /\ opening[e] = Entering /\ nextID[e] \in Nat
      /\ opening \in [Ends -> {Entering} \cup 0..MaxId] /\ nextID \in [Ends -> Nat]
  BY DEF OpenRegister, Types, TableTyped
<1>d. PICK n \in Ids : n = nextID[e] /\ Own(e, n)
  BY <1>b, <1>c DEF OwnIds
<1>e. /\ opening' = [opening EXCEPT ![e] = n] /\ nextID' = [nextID EXCEPT ![e] = n + 2]
      /\ st' = [st EXCEPT ![e][n] = "open"]
      /\ UNCHANGED <<wire, loop, alive, link, closedCh>>
  BY <1>d DEF OpenRegister, procs
<1>f. /\ \A x \in Ends, i \in Ids : x # e \/ i # n => st'[x][i] = st[x][i]
      /\ st'[e][n] = "open" /\ st[e][n] = "none"
  <2>1. st[e][n] = "none"
    <3>1. n \in Nat /\ ~(n < n)
      BY DEF Ids
    <3>2. OwnIds(e)
      BY <1>b
    <3> QED
      BY <1>d, <3>1, <3>2 DEF OwnIds
  <2>2. st \in [Ends -> [Ids -> Stages]]
    BY DEF Types, StreamTyped
  <2> QED
    BY <1>e, <2>1, <2>2
<1>g. \A x \in Ends : /\ Pos(x)' = Pos(x) /\ Listens(x)' = Listens(x) /\ Busy(x)' = Busy(x)
                      /\ WriteFails(x)' = WriteFails(x)
  BY <1>e DEF Pos, Listens, Busy, WriteFails
<1>h. ASSUME NEW x \in Ends, NEW i \in Ids, Unannounced(x, i)' PROVE Unannounced(x, i)
  <2>1. i \in Nat /\ n \in Nat /\ Own(x, i)
    BY <1>h DEF Ids, Unannounced
  <2>2. CASE x = e
    <3>1. nextID'[e] = n + 2 /\ opening'[e] = n
      BY <1>c, <1>e
    <3>2. i >= n + 2 \/ i = n
      BY <1>h, <2>2, <3>1 DEF Unannounced
    <3> QED
      BY <1>d, <2>1, <2>2, <3>2 DEF Unannounced
  <2>3. CASE x # e
    <3>1. nextID'[x] = nextID[x] /\ opening'[x] = opening[x]
      BY <1>c, <1>e, <2>3
    <3> QED
      BY <1>h, <3>1 DEF Unannounced
  <2> QED
    BY <2>2, <2>3
<1>1. ASSUME NEW x \in Ends PROVE OwnIds(x)'
  <2>1. \A i \in Ids : Unannounced(x, i)' =>
          /\ st'[Peer(x)][i] = "none"
          /\ \A j \in Pos(x)' : wire'[x][j].id # i
          /\ Busy(x)' => loop'[x].id # i
    <3> SUFFICES ASSUME NEW i \in Ids, Unannounced(x, i)' PROVE st'[Peer(x)][i] = "none"
      BY <1>b, <1>e, <1>g, <1>h DEF OwnIds
    <3>1. Unannounced(x, i) /\ st[Peer(x)][i] = "none"
      BY <1>b, <1>h DEF OwnIds
    <3>2. Own(x, i) /\ i \in Nat
      BY <3>1 DEF Unannounced, Ids
    <3>3. ~(Peer(x) = e /\ i = n)
      BY <1>d, <3>2, OwnIdsDiffer, TwoEnds
    <3> QED
      BY <1>a, <1>f, <3>1, <3>3
  <2>2. CASE x = e
    <3>1. Own(e, n + 2) /\ ~Own(e, n + 1) /\ n \in Nat
      BY <1>d, OwnIdsDiffer DEF Ids
    <3>2. nextID'[e] = n + 2 /\ opening'[e] = n
      BY <1>c, <1>e
    <3>3. n + 2 # n /\ n + 2 # 0 /\ Entering # n /\ n < n + 2
      BY <3>1 DEF Entering
    <3>4. \A i \in Ids : Own(e, i) => (i < n + 2 <=> i < n \/ i = n)
      BY <3>1 DEF Ids
    <3>5. \A i \in Ids : Own(e, i) => (i < n + 2 <=> st'[e][i] # "none")
      BY <1>b, <1>d, <1>f, <3>4 DEF OwnIds
    <3> QED
      BY <1>d, <1>f, <2>1, <2>2, <3>1, <3>2, <3>3, <3>5 DEF OwnIds
  <2>3. CASE x # e
    <3>1. /\ nextID'[x] = nextID[x] /\ opening'[x] = opening[x]
          /\ \A i \in Ids : st'[x][i] = st[x][i]
      BY <1>c, <1>e, <1>f, <2>3
    <3> QED
      BY <1>b, <2>1, <3>1 DEF OwnIds
  <2> QED
    BY <2>2, <2>3
<1>2. ASSUME NEW x \in Ends PROVE OpenFrames(x)'
  <2>1. ASSUME NEW i \in Pos(x), wire[x][i].type = "open" PROVE st'[x][wire[x][i].id] = "none"
    <3>1. Own(Peer(x), wire[x][i].id) /\ st[x][wire[x][i].id] = "none" /\ wire[x][i].id \in Ids
      BY <1>a, <1>b, <2>1 DEF OpenFrames
    <3>2. ~(x = e /\ wire[x][i].id = n)
      BY <1>d, <3>1, OwnIdsDiffer DEF Ids
    <3> QED
      BY <1>f, <3>1, <3>2
  <2>2. \A i \in Ids : ~Unannounced(Peer(x), i) => ~Unannounced(Peer(x), i)'
    BY <1>a, <1>h
  <2> QED
    BY <1>a, <1>b, <1>e, <1>g, <2>1, <2>2 DEF OpenFrames
<1>3. ASSUME NEW x \in Ends PROVE LaterFrames(x)'
  BY <1>a, <1>b, <1>e, <1>f, <1>g DEF LaterFrames
<1>4. ASSUME NEW x \in Ends PROVE Known(x)'
  <2>1. \A i \in Ids : st[x][i] # "none" => st'[x][i] # "none"
    BY <1>f
  <2>2. \A i \in Ids : st'[Peer(x)][i] \notin {"none"} \cup Shut /\ opening'[Peer(x)] # i
                         => st[Peer(x)][i] \notin {"none"} \cup Shut /\ opening[Peer(x)] # i
    BY <1>a, <1>c, <1>e, <1>f DEF Entering, Ids
  <2> QED
    BY <1>a, <1>b, <1>e, <1>g, <2>1, <2>2 DEF Known
<1>5. ASSUME NEW x \in Ends PROVE Deaf(x)'
  BY <1>a, <1>b, <1>g DEF Deaf
<1> QED
  BY <1>1, <1>2, <1>3, <1>4, <1>5 DEF IdInv

\* OpenStream enters, or gives up: the open frame of no stream is owed.
LEMMA IdsOpening ==
  ASSUME Types, IdInv, NEW e \in Ends, NEW o, opening' = [opening EXCEPT ![e] = o],
         \/ o = Entering /\ opening[e] = 0 /\ nextID[e] \in Ids
         \/ o = 0 /\ \A i \in Ids : opening[e] = i => st'[e][i] \in Shut,
         UNCHANGED <<nextID, wire>>, StagesOn, ListeningOn, \A x \in Ends : BusyOn(x)
  PROVE  IdInv'
<1> SUFFICES ASSUME NEW x \in Ends
             PROVE  (OwnIds(x) /\ OpenFrames(x) /\ LaterFrames(x) /\ Known(x) /\ Deaf(x))'
  BY DEF IdInv
<1>a. Peer(x) \in Ends /\ \A i \in Pos(x) : wire[x][i] \in Frame /\ wire[x][i].id \in Ids
  BY OnWire
<1>b. OwnIds(x) /\ OpenFrames(x) /\ LaterFrames(x) /\ Known(x) /\ Deaf(x) /\ Pos(x)' = Pos(x)
  BY DEF IdInv, Pos
<1>c. \A y \in Ends : opening'[y] = IF y = e THEN o ELSE opening[y]
  BY DEF Types, TableTyped
<1>d. o \notin Ids /\ Entering \notin Ids /\ 0 \notin Ids /\ Entering # 0
  BY DEF Entering, Ids
<1>e. \A y \in Ends, i \in Ids : Unannounced(y, i)' => Unannounced(y, i)
  BY <1>c, <1>d DEF Unannounced
<1>f. \A y \in Ends, i \in Ids : opening'[y] # i /\ st'[y][i] \notin Shut => opening[y] # i
  BY <1>c, <1>d
<1>1. OwnIds(x)'
  <2>1. \A i \in Ids : Unannounced(x, i)' =>
          /\ st'[Peer(x)][i] = "none"
          /\ \A j \in Pos(x)' : wire'[x][j].id # i
          /\ Busy(x)' => loop'[x].id # i
    BY <1>a, <1>b, <1>e DEF OwnIds, StagesOn, BusyOn
  <2>2. /\ opening'[x] = Entering => nextID'[x] \in Ids
        /\ opening'[x] \in Ids =>
             Own(x, opening'[x]) /\ opening'[x] < nextID'[x] /\ st'[x][opening'[x]] # "closing"
    <3>1. CASE x = e
      BY <1>c, <1>d, <3>1
    <3>2. CASE x # e
      BY <1>b, <1>c, <3>2 DEF OwnIds, StagesOn
    <3> QED
      BY <3>1, <3>2
  <2> QED
    BY <1>b, <2>1, <2>2 DEF OwnIds, StagesOn
<1>2. OpenFrames(x)'
  BY <1>a, <1>b, <1>e DEF OpenFrames, StagesOn
<1>3. LaterFrames(x)'
  BY <1>a, <1>b DEF LaterFrames, StagesOn
<1>4. Known(x)'
  <2>1. \A i \in Ids : st'[Peer(x)][i] \notin {"none"} \cup Shut /\ opening'[Peer(x)] # i
                         => st[Peer(x)][i] \notin {"none"} \cup Shut /\ opening[Peer(x)] # i
    BY <1>a, <1>f DEF StagesOn
  <2> QED
    BY <1>a, <1>b, <2>1 DEF Known, StagesOn, ListeningOn
<1>5. Deaf(x)'
  BY <1>a, <1>b DEF Deaf, ListeningOn
<1> QED
  BY <1>1, <1>2, <1>3, <1>4, <1>5

\* The open frame goes out.
LEMMA IdsAnnounce ==
  ASSUME Types, IdInv, NEW e \in Ends, NEW n \in Ids, opening[e] = n,
         opening' = [opening EXCEPT ![e] = 0],
         CanWrite(e), WriteFrame(e, [type |-> "open", id |-> n, n |-> 0]),
         UNCHANGED <<alive, link, closedCh, loop, st, nextID>>
  PROVE  IdInv'
<1>a. \A x \in Ends : Peer(x) \in Ends /\ \A i \in Pos(x) : wire[x][i] \in Frame /\ wire[x][i].id \in Ids
  BY OnWire
<1>b. \A x \in Ends : OwnIds(x) /\ OpenFrames(x) /\ LaterFrames(x) /\ Known(x) /\ Deaf(x)
  BY DEF IdInv
<1>c. PICK p \in Ends : p = Peer(e) /\ Peer(p) = e /\ p # e /\ \A x \in Ends : x = e \/ x = p
  BY TwoEnds
<1>d. PICK f \in Frame : f = [type |-> "open", id |-> n, n |-> 0] /\ f.type = "open" /\ f.id = n
  BY FramesAre
<1>e. /\ Len(wire'[p]) = Len(wire[p]) + 1 /\ Len(wire[p]) \in Nat
      /\ wire'[p][Len(wire[p]) + 1] = f
      /\ \A i \in Pos(p) : wire'[p][i] = wire[p][i]
      /\ wire'[e] = wire[e]
  BY <1>c, <1>d, Putting DEF Types, WireTyped, WriteFrame, Pos
<1>f. /\ \A i \in Pos(p)' :
           (i \in Pos(p) /\ wire'[p][i] = wire[p][i]) \/ (i = Len(wire[p]) + 1 /\ wire'[p][i] = f)
      /\ Pos(p) \subseteq Pos(p)' /\ Pos(e)' = Pos(e) /\ Len(wire[p]) + 1 \in Pos(p)'
  BY <1>e DEF Pos
<1>g. /\ opening'[e] = 0 /\ opening'[p] = opening[p]
      /\ \A x \in Ends : Listens(x)' = Listens(x) /\ Busy(x)' = Busy(x) /\ WriteFails(x)' = WriteFails(x)
  BY <1>c DEF Types, TableTyped, Listens, Busy, WriteFails
<1>h. Unannounced(e, n) /\ Own(e, n) /\ ~Own(p, n) /\ st[p][n] = "none" /\ ~Unannounced(e, n)'
  <2>1. Own(e, n) /\ n < nextID[e] /\ nextID[e] \in Nat /\ n \in Nat \ {0}
    BY <1>b DEF OwnIds, Types, TableTyped, Ids
  <2>2. ~(n >= nextID'[e] \/ n = opening'[e])
    BY <1>g, <2>1
  <2>3. Unannounced(e, n) /\ ~Unannounced(e, n)'
    BY <2>1, <2>2 DEF Unannounced
  <2>4. ~Own(p, n)
    BY <1>c, <2>1, OwnIdsDiffer
  <2> QED
    BY <1>b, <1>c, <2>1, <2>3, <2>4 DEF OwnIds
<1>i. \A x \in Ends, i \in Ids : Unannounced(x, i)' => Unannounced(x, i) /\ i # n
  <2> SUFFICES ASSUME NEW x \in Ends, NEW i \in Ids, Unannounced(x, i)'
               PROVE  Unannounced(x, i) /\ i # n
    OBVIOUS
  <2>1. CASE x = e
    <3>1. i # 0
      BY DEF Ids
    <3> QED
      BY <1>g, <1>h, <2>1, <3>1 DEF Unannounced
  <2>2. CASE x = p
    BY <1>g, <1>h, <2>2 DEF Unannounced
  <2> QED
    BY <1>c, <2>1, <2>2
<1>1. ASSUME NEW x \in Ends PROVE OwnIds(x)'
  <2>1. ASSUME NEW id \in Ids, Unannounced(x, id)' PROVE \A i \in Pos(x)' : wire'[x][i].id # id
    <3>1. Unannounced(x, id) /\ id # n /\ \A i \in Pos(x) : wire[x][i].id # id
      BY <1>b, <1>i, <2>1 DEF OwnIds
    <3> QED
      BY <1>c, <1>d, <1>e, <1>f, <3>1
  <2>2. \A id \in Ids : Unannounced(x, id)' =>
          /\ st'[Peer(x)][id] = "none"
          /\ \A i \in Pos(x)' : wire'[x][i].id # id
          /\ Busy(x)' => loop'[x].id # id
    BY <1>b, <1>g, <1>i, <2>1 DEF OwnIds
  <2>3. 0 \notin Ids /\ 0 # Entering
    BY DEF Ids, Entering
  <2>4. /\ opening'[x] = Entering => opening[x] = Entering
        /\ opening'[x] \in Ids => opening'[x] = opening[x]
    BY <1>c, <1>g, <2>3
  <2>5. /\ Own(x, nextID'[x]) /\ nextID'[x] # 0
        /\ opening'[x] = Entering => nextID'[x] \in Ids
        /\ opening'[x] \in Ids =>
             Own(x, opening'[x]) /\ opening'[x] < nextID'[x] /\ st'[x][opening'[x]] # "closing"
        /\ \A id \in Ids : Own(x, id) => (id < nextID'[x] <=> st'[x][id] # "none")
    BY <1>b, <2>4 DEF OwnIds
  <2> QED
    BY <2>2, <2>5 DEF OwnIds
<1>2. ASSUME NEW x \in Ends PROVE OpenFrames(x)'
  <2>1. CASE x = e
    BY <1>a, <1>b, <1>c, <1>e, <1>f, <1>i, <2>1 DEF OpenFrames
  <2>2. CASE x = p
    <3>1. \A i \in Pos(p) : wire[p][i].type = "open" => wire[p][i].id # n
      BY <1>b, <1>c, <1>h DEF OpenFrames
    <3> SUFFICES ASSUME NEW i \in Pos(p)', NEW h, h = wire'[p][i], h.type = "open"
                 PROVE  /\ Own(e, h.id) /\ ~Unannounced(e, h.id)'
                        /\ st[p][h.id] = "none"
                        /\ \A j \in Pos(p)' : wire'[p][j].type = "open" /\ wire'[p][j].id = h.id => j = i
      BY <1>c, <2>2 DEF OpenFrames
    <3>2. CASE i \in Pos(p) /\ h = wire[p][i]
      <4>1. /\ h.id \in Ids /\ h.id # n /\ Own(e, h.id) /\ ~Unannounced(e, h.id) /\ st[p][h.id] = "none"
            /\ \A j \in Pos(p) : wire[p][j].type = "open" /\ wire[p][j].id = h.id => j = i
        BY <1>a, <1>b, <1>c, <3>1, <3>2 DEF OpenFrames
      <4> QED
        BY <1>d, <1>f, <1>i, <4>1
    <3>3. CASE i = Len(wire[p]) + 1 /\ h = f
      BY <1>d, <1>f, <1>h, <3>1, <3>3
    <3> QED
      BY <1>f, <3>2, <3>3
  <2> QED
    BY <1>c, <2>1, <2>2
<1>3. ASSUME NEW x \in Ends PROVE LaterFrames(x)'
  <2>1. CASE x = e
    BY <1>a, <1>b, <1>c, <1>e, <1>f, <2>1 DEF LaterFrames
  <2>2. CASE x = p
    <3> SUFFICES ASSUME NEW i \in Pos(p)', wire'[p][i].type # "open", st[p][wire'[p][i].id] = "none"
                 PROVE  \E j \in 1..(i - 1) : wire'[p][j].type = "open" /\ wire'[p][j].id = wire'[p][i].id
      BY <2>2 DEF LaterFrames
    <3>1. i \in Pos(p) /\ wire'[p][i] = wire[p][i]
      BY <1>d, <1>f
    <3>2. PICK j \in 1..(i - 1) : wire[p][j].type = "open" /\ wire[p][j].id = wire[p][i].id
      BY <1>a, <1>b, <1>c, <3>1 DEF LaterFrames
    <3>3. j \in Pos(p)
      BY <1>e, <3>1 DEF Pos
    <3> QED
      BY <1>e, <3>1, <3>2, <3>3
  <2> QED
    BY <1>c, <2>1, <2>2
<1>4. ASSUME NEW x \in Ends PROVE Known(x)'
  <2>1. CASE x = e
    BY <1>a, <1>b, <1>c, <1>e, <1>f, <1>g, <2>1 DEF Known
  <2>2. CASE x = p
    <3> SUFFICES ASSUME NEW id \in Ids, st[e][id] \notin {"none"} \cup Shut, Listens(p)
                 PROVE  \/ st[p][id] # "none"
                        \/ \E i \in Pos(p)' : wire'[p][i].type = "open" /\ wire'[p][i].id = id
      BY <1>c, <1>g, <2>2 DEF Known
    <3>1. CASE id = n
      BY <1>d, <1>e, <1>f, <3>1
    <3>2. CASE id # n
      BY <1>b, <1>c, <1>e, <1>f, <3>2 DEF Known
    <3> QED
      BY <3>1, <3>2
  <2> QED
    BY <1>c, <2>1, <2>2
<1>5. ASSUME NEW x \in Ends PROVE Deaf(x)'
  BY <1>a, <1>b, <1>g DEF Deaf
<1> QED
  BY <1>1, <1>2, <1>3, <1>4, <1>5 DEF IdInv

\* The read loop takes up the open frame of a new stream.
LEMMA IdsHandleOpen ==
  ASSUME Types, IdInv, NEW e \in Ends, wire[e] # <<>>, TakeFrame(e),
         NEW f \in Frame, f = Head(wire[e]), f.type = "open",
         NEW s, st' = [st EXCEPT ![e][f.id] = s], s # "none",
         UNCHANGED <<nextID, opening>>, ListeningOn, \A x \in Ends \ {e} : BusyOn(x),
         Busy(e)' => loop'[e].id = f.id
  PROVE  IdInv'
<1>a. \A x \in Ends : Peer(x) \in Ends /\ \A i \in Pos(x) : wire[x][i] \in Frame /\ wire[x][i].id \in Ids
  BY OnWire
<1>b. \A x \in Ends : OwnIds(x) /\ OpenFrames(x) /\ LaterFrames(x) /\ Known(x) /\ Deaf(x)
  BY DEF IdInv
<1>c. PICK p \in Ends : p = Peer(e) /\ Peer(p) = e /\ p # e /\ \A x \in Ends : x = e \/ x = p
  BY TwoEnds
<1>d. /\ f = wire[e][1] /\ Len(wire[e]) \in Nat \ {0}
      /\ Len(wire'[e]) = Len(wire[e]) - 1
      /\ \A i \in Pos(e)' : wire'[e][i] = wire[e][i + 1]
      /\ wire'[p] = wire[p] /\ Pos(p)' = Pos(p)
  BY <1>c, Taking DEF Types, WireTyped, TakeFrame, Pos
<1>e. /\ \A i \in Pos(e)' : i + 1 \in Pos(e)
      /\ \A i \in Pos(e) : i # 1 => i - 1 \in Pos(e)' /\ wire'[e][i - 1] = wire[e][i]
      /\ 1 \in Pos(e) /\ f.id \in Ids
  <2>1. f.id \in Ids
    BY DEF Frame
  <2> QED
    BY <1>d, <2>1 DEF Pos
<1>f. /\ Own(p, f.id) /\ ~Unannounced(p, f.id) /\ st[e][f.id] = "none"
      /\ \A i \in Pos(e)' : wire'[e][i].type = "open" => wire'[e][i].id # f.id
  <2>1. /\ Own(p, f.id) /\ ~Unannounced(p, f.id) /\ st[e][f.id] = "none"
        /\ \A i \in Pos(e) : wire[e][i].type = "open" /\ wire[e][i].id = f.id => i = 1
    BY <1>b, <1>c, <1>d, <1>e DEF OpenFrames
  <2>2. \A i \in Pos(e)' : i + 1 # 1
    BY DEF Pos
  <2> QED
    BY <1>d, <1>e, <2>1, <2>2
<1>g. ~Own(e, f.id) /\ st[p][f.id] # "none"
  <2>1. f.id \in Nat /\ nextID[p] \in Nat /\ ~(f.id >= nextID[p]) /\ f.id < nextID[p]
    BY <1>e, <1>f DEF Ids, Types, TableTyped, Unannounced
  <2>2. st[p][f.id] # "none"
    BY <1>b, <1>e, <1>f, <2>1 DEF OwnIds
  <2> QED
    BY <1>c, <1>f, <2>1, <2>2, OwnIdsDiffer
<1>h. /\ \A x \in Ends, i \in Ids : x # e \/ i # f.id => st'[x][i] = st[x][i]
      /\ st'[e][f.id] = s
  <2>1. st \in [Ends -> [Ids -> Stages]]
    BY DEF Types, StreamTyped
  <2> QED
    BY <1>e, <2>1
<1>i. \A x \in Ends, i \in Ids : Unannounced(x, i)' = Unannounced(x, i)
  BY DEF Unannounced
<1>1. ASSUME NEW x \in Ends PROVE OwnIds(x)'
  <2>1. CASE x = e
    <3>1. ASSUME NEW id \in Ids, Unannounced(e, id)
          PROVE  /\ st'[p][id] = "none"
                 /\ \A i \in Pos(e)' : wire'[e][i].id # id
                 /\ Busy(e)' => loop'[e].id # id
      <4>1. Own(e, id) /\ id # f.id /\ st[p][id] = "none" /\ \A i \in Pos(e) : wire[e][i].id # id
        BY <1>b, <1>c, <1>g, <3>1 DEF OwnIds, Unannounced
      <4> QED
        BY <1>c, <1>d, <1>e, <1>h, <4>1
    <3>2. \A id \in Ids : Own(e, id) => st'[e][id] = st[e][id]
      BY <1>g, <1>h
    <3> QED
      BY <1>b, <1>c, <1>i, <2>1, <3>1, <3>2 DEF OwnIds
  <2>2. CASE x = p
    <3>1. ASSUME NEW id \in Ids, Unannounced(p, id)
          PROVE  /\ st'[e][id] = "none"
                 /\ \A i \in Pos(p)' : wire'[p][i].id # id
                 /\ Busy(p)' => loop'[p].id # id
      <4>1. /\ id # f.id /\ st[e][id] = "none" /\ \A i \in Pos(p) : wire[p][i].id # id
            /\ Busy(p) => loop[p].id # id
        BY <1>b, <1>c, <1>f, <3>1 DEF OwnIds
      <4> QED
        BY <1>c, <1>d, <1>h, <4>1 DEF BusyOn
    <3>2. \A id \in Ids : st'[p][id] = st[p][id]
      BY <1>c, <1>h
    <3> QED
      BY <1>b, <1>c, <1>i, <2>2, <3>1, <3>2 DEF OwnIds
  <2> QED
    BY <1>c, <2>1, <2>2
<1>2. ASSUME NEW x \in Ends PROVE OpenFrames(x)'
  <2>1. CASE x = e
    <3> SUFFICES ASSUME NEW i \in Pos(e)', NEW h, h = wire'[e][i], h.type = "open"
                 PROVE  /\ Own(p, h.id) /\ ~Unannounced(p, h.id)
                        /\ st'[e][h.id] = "none"
                        /\ \A j \in Pos(e)' : wire'[e][j].type = "open" /\ wire'[e][j].id = h.id => j = i
      <4>1. Peer(e)' = p
        BY <1>c
      <4>2. \A i \in Pos(e)' : wire'[e][i].id \in Ids
        BY <1>a, <1>d, <1>e
      <4> QED
        BY <1>c, <1>i, <2>1, <4>1, <4>2 DEF OpenFrames
    <3>1. i + 1 \in Pos(e) /\ h = wire[e][i + 1] /\ h.id \in Ids
      BY <1>a, <1>d, <1>e
    <3>2. \A j \in Pos(e)' : wire'[e][j].type = "open" /\ wire'[e][j].id = h.id => j + 1 = i + 1
      BY <1>b, <1>d, <1>e, <3>1 DEF OpenFrames
    <3>3. \A j \in Pos(e)' : wire'[e][j].type = "open" /\ wire'[e][j].id = h.id => j = i
      BY <3>2 DEF Pos
    <3>4. Own(p, h.id) /\ ~Unannounced(p, h.id) /\ st[e][h.id] = "none"
      BY <1>b, <1>c, <3>1 DEF OpenFrames
    <3>5. h.id # f.id
      BY <1>f
    <3>6. st'[e][h.id] = st[e][h.id]
      BY <1>h, <3>1, <3>5
    <3> QED
      BY <3>3, <3>4, <3>6
  <2>2. CASE x = p
    <3>1. \A id \in Ids : st'[p][id] = st[p][id]
      BY <1>c, <1>h
    <3> QED
      BY <1>a, <1>b, <1>c, <1>d, <1>i, <2>2, <3>1 DEF OpenFrames
  <2> QED
    BY <1>c, <2>1, <2>2
<1>3. ASSUME NEW x \in Ends PROVE LaterFrames(x)'
  <2>1. CASE x = e
    <3> SUFFICES ASSUME NEW i \in Pos(e)', wire'[e][i].type # "open", st'[e][wire'[e][i].id] = "none"
                 PROVE  \E j \in 1..(i - 1) : wire'[e][j].type = "open" /\ wire'[e][j].id = wire'[e][i].id
      BY <2>1 DEF LaterFrames
    <3>1. i + 1 \in Pos(e) /\ wire'[e][i] = wire[e][i + 1]
      BY <1>d, <1>e
    <3>2. wire[e][i + 1].id # f.id /\ st[e][wire[e][i + 1].id] = "none"
      BY <1>a, <1>f, <1>h, <3>1
    <3>3. PICK j \in 1..((i + 1) - 1) : wire[e][j].type = "open" /\ wire[e][j].id = wire[e][i + 1].id
      BY <1>b, <3>1, <3>2 DEF LaterFrames
    <3>4. j # 1
      BY <1>d, <3>2, <3>3
    <3>5. i \in Nat /\ i + 1 \in 1..Len(wire[e])
      BY <3>1 DEF Pos
    <3>6. j \in Pos(e) /\ j - 1 \in 1..(i - 1)
      <4>1. j \in 1..i /\ j # 1 /\ i < Len(wire[e])
        BY <1>d, <3>3, <3>4, <3>5
      <4> QED
        BY <1>d, <3>5, <4>1 DEF Pos
    <3> QED
      BY <1>e, <3>1, <3>3, <3>4, <3>6
  <2>2. CASE x = p
    <3>1. \A id \in Ids : st'[p][id] = st[p][id]
      BY <1>c, <1>h
    <3> QED
      BY <1>a, <1>b, <1>c, <1>d, <2>2, <3>1 DEF LaterFrames
  <2> QED
    BY <1>c, <2>1, <2>2
<1>4. ASSUME NEW x \in Ends PROVE Known(x)'
  <2>1. CASE x = e
    <3> SUFFICES ASSUME NEW id \in Ids, st'[p][id] \notin {"none"} \cup Shut, opening[p] # id,
                        Listens(e), id # f.id
                 PROVE  \/ st'[e][id] # "none"
                        \/ \E i \in Pos(e)' : wire'[e][i].type = "open" /\ wire'[e][i].id = id
      BY <1>c, <1>h, <2>1 DEF Known, ListeningOn
    <3>1. st[p][id] \notin {"none"} \cup Shut
      BY <1>c, <1>h
    <3>2. \/ st[e][id] # "none"
          \/ \E i \in Pos(e) : i # 1 /\ wire[e][i].type = "open" /\ wire[e][i].id = id
      BY <1>b, <1>c, <1>d, <3>1 DEF Known
    <3> QED
      BY <1>e, <1>h, <3>2
  <2>2. CASE x = p
    <3> SUFFICES ASSUME NEW id \in Ids, st'[e][id] \notin {"none"} \cup Shut, opening[e] # id,
                        Listens(p), id # f.id
                 PROVE  \/ st'[p][id] # "none"
                        \/ \E i \in Pos(p)' : wire'[p][i].type = "open" /\ wire'[p][i].id = id
      BY <1>c, <1>g, <1>h, <2>2 DEF Known, ListeningOn
    <3> QED
      BY <1>b, <1>c, <1>d, <1>h DEF Known
  <2> QED
    BY <1>c, <2>1, <2>2
<1>5. ASSUME NEW x \in Ends PROVE Deaf(x)'
  BY <1>a, <1>b DEF Deaf, ListeningOn
<1> QED
  BY <1>1, <1>2, <1>3, <1>4, <1>5 DEF IdInv

\* Every step keeps the ids handed out once.
LEMMA StepIds ==
  ASSUME MuxInv, NEW e \in Ends, NEW id \in Ids, NEW k, NEW g \in Closers, Step(e, id, k, g)
  PROVE  IdInv'
<1>a. /\ Types /\ IdInv /\ OwnIds(e)
      /\ st \in [Ends -> [Ids -> Stages]] /\ nextID \in [Ends -> Nat]
      /\ loop \in [Ends -> [pc : LoopStates, type : {"open", "close"} \cup Kinds,
                            id : Ids, n : 0..MaxSent]]
  BY DEF MuxInv, IdInv, Types, StreamTyped, TableTyped, LoopTyped
<1>b. UNCHANGED st => StagesOn
  BY DEF StagesOn
<1>1. CASE OpenCheck(e)
  <2>1. nextID[e] \in Ids
    BY <1>1, <1>a, MuxAssumption DEF OpenCheck, OwnIds, Ids
  <2>2. UNCHANGED <<alive, link, closedCh, loop, st, nextID, wire>>
    BY <1>1 DEF OpenCheck, procs, stream
  <2>3. opening[e] = 0 /\ opening' = [opening EXCEPT ![e] = Entering]
    BY <1>1 DEF OpenCheck
  <2> QED
    BY <1>a, <1>b, <2>1, <2>2, <2>3, ListeningSame, IdsOpening
<1>2. CASE OpenRegister(e)
  BY <1>2, <1>a, IdsRegister
<1>3. CASE OpenAnnounce(e)
  <2>1. PICK n \in Ids : n = opening[e] /\ st[e][n] # "none"
    BY <1>3, <1>a DEF OpenAnnounce, OwnIds
  <2>2. opening' = [opening EXCEPT ![e] = 0] /\ UNCHANGED <<alive, link, closedCh, loop, nextID>>
    BY <1>3 DEF OpenAnnounce, procs
  <2>3. CASE /\ CanWrite(e)
             /\ WriteFrame(e, [type |-> "open", id |-> opening[e], n |-> 0])
             /\ UNCHANGED <<streams, st>>
    BY <1>a, <2>1, <2>2, <2>3, IdsAnnounce
  <2>4. CASE /\ st' = [st EXCEPT ![e][opening[e]] = "done"]
             /\ UNCHANGED wire
    <3>1. st' = [st EXCEPT ![e][n] = "done"] /\ wire' = wire
      BY <2>1, <2>4
    <3>2. StagesOn
      <4>1. st'[e][n] = "done" /\ \A x \in Ends, i \in Ids : x # e \/ i # n => st'[x][i] = st[x][i]
        BY <1>a, <3>1
      <4> QED
        BY <2>1, <4>1, StagesOnOne DEF Shut
    <3>3. \A i \in Ids : opening[e] = i => st'[e][i] \in Shut
      BY <1>a, <2>1, <3>1 DEF Shut
    <3>4. ListeningOn /\ \A x \in Ends : BusyOn(x)
      BY <2>2, ListeningSame
    <3> QED
      BY <1>a, <2>2, <3>1, <3>2, <3>3, <3>4, IdsOpening
  <2> QED
    BY <1>3, <2>3, <2>4 DEF OpenAnnounce
<1>4. CASE HandleOpen(e)
  <2>1. /\ loop[e].pc = "read" /\ wire[e] # <<>> /\ TakeFrame(e) /\ Head(wire[e]) \in Frame
        /\ Head(wire[e]).type = "open" /\ UNCHANGED <<alive, link, closedCh, nextID, opening>>
    BY <1>4, <1>a, TakeTyped DEF HandleOpen, HasFrame, procs
  <2>2. PICK f \in Frame : f = Head(wire[e])
    BY <2>1
  <2>3. \E s : st' = [st EXCEPT ![e][f.id] = s] /\ s # "none"
    BY <1>4, <2>2 DEF HandleOpen
  <2>4. UNCHANGED loop \/ loop' = [loop EXCEPT ![e] = At("reject", f)]
    BY <1>4, <2>2 DEF HandleOpen
  <2>5. /\ ListeningOn /\ \A x \in Ends \ {e} : BusyOn(x)
        /\ Busy(e)' => loop'[e].id = f.id
    <3>1. CASE UNCHANGED loop
      BY <2>1, <3>1, ListeningSame DEF Busy
    <3>2. CASE loop' = [loop EXCEPT ![e] = At("reject", f)]
      BY <1>a, <2>1, <3>2, LoopRecords, ListeningLoop DEF LoopStates
    <3> QED
      BY <2>4, <3>1, <3>2
  <2> QED
    BY <1>a, <2>1, <2>2, <2>3, <2>5, IdsHandleOpen
<1>5. CASE HandlePayload(e) \/ HandleClose(e)
  <2>1. /\ loop[e].pc = "read" /\ wire[e] # <<>> /\ TakeFrame(e) /\ Head(wire[e]) \in Frame
        /\ Head(wire[e]).type # "open" /\ UNCHANGED <<alive, link, closedCh, nextID, opening>>
    BY <1>5, <1>a, TakeTyped, KindsAre DEF HandlePayload, HandleClose, HasFrame, procs, table
  <2>2. PICK f \in Frame : f = Head(wire[e]) /\ f.id \in Ids
    BY <2>1 DEF Frame
  <2>3. \/ UNCHANGED loop
        \/ \E pc \in {"push", "close"} : loop' = [loop EXCEPT ![e] = At(pc, f)]
    BY <1>5, <2>2 DEF HandlePayload, HandleClose
  <2>4. /\ ListeningOn /\ \A x \in Ends \ {e} : BusyOn(x)
        /\ Busy(e)' => loop'[e].id = f.id
    <3>1. CASE UNCHANGED loop
      BY <2>1, <3>1, ListeningSame DEF Busy
    <3>2. ASSUME NEW pc \in {"push", "close"}, loop' = [loop EXCEPT ![e] = At(pc, f)]
          PROVE  /\ ListeningOn /\ \A x \in Ends \ {e} : BusyOn(x)
                 /\ loop'[e].id = f.id
      <4>1. At(pc, f).pc = pc /\ At(pc, f).id = f.id
        BY LoopRecords DEF LoopStates
      <4> QED
        BY <1>a, <2>1, <3>2, <4>1, ListeningLoop
    <3> QED
      BY <2>3, <3>1, <3>2
  <2>5. StagesOn
    <3>1. UNCHANGED st \/ (st' = [st EXCEPT ![e][f.id] = "signalled"] /\ st[e][f.id] = "open")
      BY <1>5, <2>2 DEF HandlePayload, HandleClose, stream
    <3>2. CASE UNCHANGED st
      BY <1>b, <3>2
    <3>3. CASE st' = [st EXCEPT ![e][f.id] = "signalled"] /\ st[e][f.id] = "open"
      <4>1. /\ st'[e][f.id] = "signalled"
            /\ \A x \in Ends, i \in Ids : x # e \/ i # f.id => st'[x][i] = st[x][i]
        BY <1>a, <2>2, <3>3
      <4> QED
        BY <2>2, <3>3, <4>1, StagesOnOne DEF Shut
    <3> QED
      BY <3>1, <3>2, <3>3
  <2> QED
    BY <1>a, <2>1, <2>2, <2>4, <2>5, IdsTake DEF SameIds
<1>6. CASE Push(e) \/ LoopResumes(e)
  <2>1. /\ loop[e].pc # "stop" /\ loop' = [loop EXCEPT ![e] = Idle]
        /\ UNCHANGED <<alive, link, closedCh, nextID, opening, st, wire>>
    BY <1>6 DEF Push, LoopResumes, procs, table, stream
  <2>2. ListeningOn /\ (\A x \in Ends \ {e} : BusyOn(x)) /\ loop'[e] = Idle
    BY <1>a, <2>1, LoopRecords, ListeningLoop
  <2>3. \A x \in Ends : BusyOn(x)
    BY <2>2, LoopRecords DEF BusyOn, Busy
  <2> QED
    BY <1>a, <1>b, <2>1, <2>2, <2>3, IdsQuiet DEF SameIds
<1>7. CASE PushPanics(e)
  BY <1>7, <1>a, IdsDies DEF PushPanics, table, stream
<1>8. CASE ReadFails(e)
  <2>1. /\ loop'[e].pc = "stop" /\ \A x \in Ends \ {e} : loop'[x] = loop[x]
        /\ wire' = [wire EXCEPT ![e] = <<>>]
        /\ UNCHANGED <<alive, link, closedCh, nextID, opening, st>>
    BY <1>8, <1>a DEF ReadFails, procs, table, stream
  <2>2. WriteFails(Peer(e))
    BY <1>8 DEF ReadFails, WriteFails, Peer
  <2>3. ~Listens(e)' /\ ListeningOn /\ \A x \in Ends : BusyOn(x)
    BY <2>1, <2>2 DEF ListeningOn, BusyOn, Listens, Busy, WriteFails
  <2> QED
    BY <1>a, <1>b, <2>1, <2>3, IdsClear DEF SameIds
<1>9. CASE Close(e, id) \/ ShutStep(e, id) \/ LeaveOnce(e, id) \/ MuxCloseStream(e, g, id)
  <2>1. UNCHANGED <<alive, link, closedCh, loop, nextID, opening, wire>>
    BY <1>9 DEF Close, ShutStep, LeaveOnce, MuxCloseStream, procs, table
  <2>2. StagesOn
    <3>1. \/ st[e][id] = "open" /\ opening[e] # id /\ st'[e][id] = "closing"
          \/ st[e][id] = "signalled" /\ st'[e][id] = "shut"
          \/ st[e][id] = "shut" /\ st'[e][id] = "done"
          \/ st[e][id] = "open" /\ st'[e][id] = "signalled"
      BY <1>9, <1>a DEF Close, ShutStep, LeaveOnce, MuxCloseStream, HasUser
    <3>2. \A x \in Ends, i \in Ids : x # e \/ i # id => st'[x][i] = st[x][i]
      BY <1>9, <1>a DEF Close, ShutStep, LeaveOnce, MuxCloseStream
    <3> QED
      BY <3>1, <3>2, StagesOnOne DEF Shut
  <2> QED
    BY <1>a, <2>1, <2>2, ListeningSame, IdsQuiet DEF SameIds
<1>10. CASE CloseAnnounce(e, id)
  <2>1. /\ UNCHANGED <<alive, link, closedCh, loop, nextID, opening>>
        /\ st[e][id] = "closing" /\ st' = [st EXCEPT ![e][id] = "signalled"]
    BY <1>10 DEF CloseAnnounce, procs, table
  <2>2. StagesOn
    <3>1. /\ st'[e][id] = "signalled"
          /\ \A x \in Ends, i \in Ids : x # e \/ i # id => st'[x][i] = st[x][i]
      BY <1>a, <2>1
    <3> QED
      BY <2>1, <3>1, StagesOnOne DEF Shut
  <2>3. SameIds /\ \A x \in Ends : BusyOn(x)
    BY <2>1, <2>2, ListeningSame DEF SameIds
  <2>4. CASE UNCHANGED wire
    BY <1>a, <2>3, <2>4, IdsQuiet
  <2>5. CASE CanWrite(e) /\ WriteFrame(e, [type |-> "close", id |-> id, n |-> 0])
    <3>1. PICK f \in Frame : f = [type |-> "close", id |-> id, n |-> 0] /\ f.type # "open" /\ f.id = id
      BY FramesAre
    <3>2. opening[e] # id
      BY <1>a, <2>1 DEF OwnIds
    <3>3. st[e][f.id] \notin {"none"} \cup Shut
      BY <2>1, <3>1 DEF Shut
    <3> QED
      BY <1>a, <2>3, <2>5, <3>1, <3>2, <3>3, IdsSend
  <2> QED
    BY <1>10, <2>4, <2>5 DEF CloseAnnounce
<1>11. CASE k \in Kinds /\ Send(e, id, k)
  <2>1. /\ UNCHANGED <<alive, link, closedCh, loop, nextID, opening, st>>
        /\ CanWrite(e) /\ WriteFrame(e, [type |-> k, id |-> id, n |-> sent[e][id][k] + 1])
        /\ st[e][id] \notin {"none"} \cup Shut /\ opening[e] # id
    BY <1>11 DEF Send, HasUser, procs, table, stream
  <2>2. sent[e][id][k] + 1 \in 0..MaxSent
    BY <1>11, <1>a, MuxAssumption DEF Send, Types, SentTyped
  <2>3. PICK f \in Frame : /\ f = [type |-> k, id |-> id, n |-> sent[e][id][k] + 1]
                           /\ f.type # "open" /\ f.id = id
    BY <1>11, <2>2, FramesAre, KindsAre
  <2>4. SameIds /\ \A x \in Ends : BusyOn(x)
    BY <1>b, <2>1, ListeningSame DEF SameIds
  <2> QED
    BY <1>a, <2>1, <2>3, <2>4, IdsSend
<1>12. CASE \/ ReadCheck(e, id)
            \/ k \in Kinds /\ (Receive(e, id, k) \/ ReceiveEOF(e, id, k))
            \/ MuxCloseEnter(e, g) \/ MuxCloseLock(e, g) \/ MuxCloseFinish(e, g)
  <2>1. UNCHANGED <<alive, link, closedCh, loop, nextID, opening, st, wire>>
    BY <1>12 DEF ReadCheck, Receive, ReceiveEOF, MuxCloseEnter, MuxCloseLock, MuxCloseFinish,
         procs, table, stream
  <2> QED
    BY <1>a, <1>b, <2>1, ListeningSame, IdsQuiet DEF SameIds
<1>13. CASE MuxCloseSignal(e, g)
  <2>1. UNCHANGED <<loop, nextID, opening, st>>
    BY <1>13 DEF MuxCloseSignal, table, stream
  <2>2. CASE closedCh[e]
    BY <1>13, <1>a, <2>1, <2>2, IdsDies DEF MuxCloseSignal
  <2>3. CASE ~closedCh[e]
    <3>1. UNCHANGED <<alive, link, wire>> /\ \A x \in Ends : closedCh[x] => closedCh'[x]
      BY <1>13, <1>a, <2>3 DEF MuxCloseSignal, Types, ProcsTyped
    <3>2. ListeningOn /\ \A x \in Ends : BusyOn(x)
      BY <2>1, <3>1, TwoEnds DEF ListeningOn, BusyOn, Listens, Busy, WriteFails
    <3> QED
      BY <1>a, <1>b, <2>1, <3>1, <3>2, IdsQuiet DEF SameIds
  <2> QED
    BY <2>2, <2>3
<1>14. CASE ServerExit
  BY <1>14, <1>a, IdsDies DEF ServerExit, table, stream, Ends
<1>15. CASE LinkBreaks
  <2>1. UNCHANGED <<alive, closedCh, loop, nextID, opening, st, wire>> /\ link' = "down"
    BY <1>15 DEF LinkBreaks, table, stream
  <2>2. ListeningOn /\ \A x \in Ends : BusyOn(x)
    BY <2>1 DEF ListeningOn, BusyOn, Listens, Busy, WriteFails
  <2> QED
    BY <1>a, <1>b, <2>1, <2>2, IdsQuiet DEF SameIds
<1> QED
  BY <1>1, <1>2, <1>3, <1>4, <1>5, <1>6, <1>7, <1>8, <1>9, <1>10, <1>11, <1>12, <1>13, <1>14, <1>15 DEF Step

-----------------------------------------------------------------------------
(* The payloads on their way to a reader                                   *)

\* The end has begun no more than it had, and hears no more than it heard.
Forward(x, i) == (Hears(x, i)' => Hears(x, i)) /\ (Closing(x, i) => Closing(x, i)')

\* Nothing is written to the lane, and nothing of it moves on but the wire.
Still(x, i, k) ==
  /\ queue'[x][i][k] = queue[x][i][k] /\ got'[x][i][k] = got[x][i][k]
  /\ sent'[Peer(x)][i][k] = sent[Peer(x)][i][k]
  /\ Pushing(x, i, k)' <=> Pushing(x, i, k)
  /\ Pushing(x, i, k) => loop'[x].n = loop[x].n

Lane(x, i, k) == Order(x, i, k) /\ Gapless(x, i, k)

\* A lane on which nothing happens stays what it is.
LEMMA LaneSame ==
  ASSUME NEW x \in Ends, NEW i \in Ids, NEW k \in Kinds, Lane(x, i, k), Still(x, i, k),
         Forward(x, i), wire'[x] = wire[x]
  PROVE  Lane(x, i, k)'
<1>1. Taken(x, i, k)' = Taken(x, i, k)
  BY DEF Taken, Still
<1>2. Order(x, i, k)'
  BY DEF Lane, Order, Still, Pos
<1>3. Gapless(x, i, k)'
  BY <1>1 DEF Lane, Gapless, Still, Forward, Pos
<1> QED
  BY <1>2, <1>3 DEF Lane

\* The frames of an end that hears nothing any more are lost.
LEMMA LaneCleared ==
  ASSUME NEW x \in Ends, NEW i \in Ids, NEW k \in Kinds, Lane(x, i, k), Still(x, i, k),
         Forward(x, i), wire'[x] = <<>>, ~Hears(x, i)'
  PROVE  Lane(x, i, k)'
<1>1. Pos(x)' = {}
  BY DEF Pos
<1>2. Order(x, i, k)'
  BY <1>1 DEF Lane, Order, Still
<1>3. Gapless(x, i, k)'
  BY DEF Lane, Gapless, Still, Forward
<1> QED
  BY <1>2, <1>3 DEF Lane

\* A frame that is not of the lane joins the wire.
LEMMA LanePassed ==
  ASSUME Types, NEW x \in Ends, NEW i \in Ids, NEW k \in Kinds, Lane(x, i, k), Still(x, i, k),
         Forward(x, i), NEW f \in Frame, wire'[x] = Append(wire[x], f), ~OnLane(f, i, k)
  PROVE  Lane(x, i, k)'
<1>1. /\ Len(wire'[x]) = Len(wire[x]) + 1 /\ Len(wire[x]) \in Nat
      /\ wire'[x][Len(wire[x]) + 1] = f
      /\ \A j \in Pos(x) : wire'[x][j] = wire[x][j]
  BY Putting DEF Types, WireTyped, Pos
<1>2. /\ \A j \in Pos(x)' : OnLane(wire'[x][j], i, k) => j \in Pos(x) /\ wire'[x][j] = wire[x][j]
      /\ \A j \in Pos(x) : j \in Pos(x)' /\ wire'[x][j] = wire[x][j]
  BY <1>1 DEF Pos
<1>3. \A j \in Pos(x) : 1..(j - 1) \subseteq Pos(x)
  BY <1>1 DEF Pos
<1>4. Taken(x, i, k)' = Taken(x, i, k)
  BY DEF Taken, Still
<1>5. Order(x, i, k)'
  <2>1. ASSUME NEW j \in Pos(x)', OnLane(wire'[x][j], i, k)
        PROVE  /\ got'[x][i][k] < wire'[x][j].n /\ wire'[x][j].n <= sent'[Peer(x)][i][k]
               /\ \A h \in 1..Len(queue'[x][i][k]) : queue'[x][i][k][h] < wire'[x][j].n
               /\ Pushing(x, i, k)' => loop'[x].n < wire'[x][j].n
               /\ \A h \in 1..(j - 1) : OnLane(wire'[x][h], i, k) => wire'[x][h].n < wire'[x][j].n
    BY <1>2, <1>3, <2>1 DEF Lane, Order, Still
  <2> QED
    BY <2>1 DEF Lane, Order, Still
<1>6. Gapless(x, i, k)'
  BY <1>2, <1>4 DEF Lane, Gapless, Still, Forward
<1> QED
  BY <1>5, <1>6 DEF Lane

\* The read loop takes a frame up that is not of the lane, or that is dropped.
LEMMA LaneTaken ==
  ASSUME Types, NEW x \in Ends, NEW i \in Ids, NEW k \in Kinds, Lane(x, i, k), Still(x, i, k),
         Forward(x, i), wire[x] # <<>>, wire'[x] = Tail(wire[x]),
         OnLane(wire[x][1], i, k) => ~Hears(x, i)
  PROVE  Lane(x, i, k)'
<1>1. /\ Len(wire[x]) \in Nat \ {0} /\ Len(wire'[x]) = Len(wire[x]) - 1
      /\ \A j \in Pos(x)' : wire'[x][j] = wire[x][j + 1]
  BY Taking DEF Types, WireTyped, Pos
<1>2. /\ \A j \in Pos(x)' : j + 1 \in Pos(x) /\ \A h \in 1..(j - 1) : h \in Pos(x)' /\ h + 1 \in 1..((j + 1) - 1)
      /\ \A j \in Pos(x) : j # 1 => j - 1 \in Pos(x)' /\ wire'[x][j - 1] = wire[x][j]
  BY <1>1 DEF Pos
<1>3. Taken(x, i, k)' = Taken(x, i, k)
  BY DEF Taken, Still
<1>4. Order(x, i, k)'
  <2>1. ASSUME NEW j \in Pos(x)', OnLane(wire'[x][j], i, k)
        PROVE  /\ got'[x][i][k] < wire'[x][j].n /\ wire'[x][j].n <= sent'[Peer(x)][i][k]
               /\ \A h \in 1..Len(queue'[x][i][k]) : queue'[x][i][k][h] < wire'[x][j].n
               /\ Pushing(x, i, k)' => loop'[x].n < wire'[x][j].n
               /\ \A h \in 1..(j - 1) : OnLane(wire'[x][h], i, k) => wire'[x][h].n < wire'[x][j].n
    BY <1>1, <1>2, <2>1 DEF Lane, Order, Still
  <2> QED
    BY <2>1 DEF Lane, Order, Still
<1>5. Gapless(x, i, k)'
  <2>1. ASSUME Hears(x, i)', ~Closing(x, i)',
               NEW n \in (Taken(x, i, k)' + 1)..sent'[Peer(x)][i][k]
        PROVE  \E j \in Pos(x)' : OnLane(wire'[x][j], i, k) /\ wire'[x][j].n = n
    <3>1. PICK j \in Pos(x) : OnLane(wire[x][j], i, k) /\ wire[x][j].n = n
      BY <1>3, <2>1 DEF Lane, Gapless, Still, Forward
    <3>2. j # 1
      BY <2>1, <3>1 DEF Forward
    <3> QED
      BY <1>2, <3>1, <3>2
  <2> QED
    BY <2>1 DEF Lane, Gapless, Still, Forward
<1> QED
  BY <1>4, <1>5 DEF Lane

\* The numbers of a lane are numbers.
LEMMA LaneNumbers ==
  ASSUME Types, NEW x \in Ends, NEW i \in Ids, NEW k \in Kinds
  PROVE  /\ got[x][i][k] \in Nat /\ sent[Peer(x)][i][k] \in Nat /\ loop[x].n \in Nat
         /\ queue[x][i][k] \in Seq(1..MaxSent) /\ Len(queue[x][i][k]) \in Nat
         /\ \A j \in 1..Len(queue[x][i][k]) : queue[x][i][k][j] \in Nat
         /\ \A j \in Pos(x) : wire[x][j].n \in Nat
<1>1. got[x][i][k] \in 0..MaxSent /\ sent[Peer(x)][i][k] \in 0..MaxSent /\ loop[x].n \in 0..MaxSent
  BY TwoEnds DEF Types, LaneTyped, SentTyped, LoopTyped
<1>2. queue[x][i][k] \in Seq(1..MaxSent)
  BY DEF Types, LaneTyped
<1>3. Len(queue[x][i][k]) \in Nat /\ \A j \in 1..Len(queue[x][i][k]) : queue[x][i][k][j] \in 1..MaxSent
  BY <1>2, Elements
<1>4. \A j \in Pos(x) : wire[x][j].n \in 0..MaxSent
  BY OnWire DEF Frame
<1> QED
  BY <1>1, <1>2, <1>3, <1>4

\* handleData or handleMsg goes on to push the next payload of the lane.
LEMMA LaneHanded ==
  ASSUME Types, NEW x \in Ends, NEW i \in Ids, NEW k \in Kinds, Lane(x, i, k),
         Forward(x, i), Hears(x, i), loop[x].pc = "read",
         wire[x] # <<>>, wire'[x] = Tail(wire[x]), OnLane(wire[x][1], i, k),
         Pushing(x, i, k)', loop'[x].n = wire[x][1].n, UNCHANGED <<queue, got, sent>>
  PROVE  Lane(x, i, k)'
<1> DEFINE q == queue[x][i][k]
           f == wire[x][1]
<1>a. got[x][i][k] \in Nat /\ Len(q) \in Nat /\ f.n \in Nat /\ sent[Peer(x)][i][k] \in Nat
  <2>1. 1 \in Pos(x)
    BY Taking DEF Types, WireTyped, Pos
  <2> QED
    BY <2>1, LaneNumbers
<1>b. PICK m \in Nat, d \in Nat, c \in Nat, s \in Nat :
        m = got[x][i][k] /\ d = Len(q) /\ c = f.n /\ s = sent[Peer(x)][i][k]
  BY <1>a
<1>1. /\ Len(wire[x]) \in Nat \ {0} /\ Len(wire'[x]) = Len(wire[x]) - 1
      /\ \A j \in Pos(x)' : wire'[x][j] = wire[x][j + 1]
  BY Taking DEF Types, WireTyped, Pos
<1>2. /\ \A j \in Pos(x)' : /\ j + 1 \in Pos(x) /\ 1 \in 1..((j + 1) - 1)
                            /\ \A h \in 1..(j - 1) : h \in Pos(x)' /\ h + 1 \in 1..((j + 1) - 1)
      /\ \A j \in Pos(x) : j # 1 => /\ j - 1 \in Pos(x)' /\ wire'[x][j - 1] = wire[x][j]
                                    /\ 1 \in 1..(j - 1)
      /\ 1 \in Pos(x)
  BY <1>1 DEF Pos
<1>3. /\ m <= s
      /\ \A j \in 1..d : q[j] < c /\ m < q[j] /\ q[j] <= s
      /\ \A j \in 1..d : \A h \in 1..(j - 1) : q[h] < q[j]
      /\ m < c /\ c <= s
  BY <1>2, <1>b DEF Lane, Order
<1>4. \A j \in Pos(x) : j # 1 /\ OnLane(wire[x][j], i, k) => c < wire[x][j].n
  BY <1>2, <1>b DEF Lane, Order
<1>5. Order(x, i, k)'
  <2>1. ASSUME NEW j \in Pos(x)', OnLane(wire'[x][j], i, k)
        PROVE  /\ m < wire'[x][j].n /\ wire'[x][j].n <= s
               /\ \A h \in 1..d : q[h] < wire'[x][j].n
               /\ \A h \in 1..(j - 1) : OnLane(wire'[x][h], i, k) => wire'[x][h].n < wire'[x][j].n
    BY <1>1, <1>2, <1>b, <2>1 DEF Lane, Order
  <2>2. ASSUME NEW j \in Pos(x)', OnLane(wire'[x][j], i, k)
        PROVE  c < wire'[x][j].n
    <3>1. j + 1 \in Pos(x) /\ j + 1 # 1 /\ wire'[x][j] = wire[x][j + 1]
      BY <1>1, <1>2 DEF Pos
    <3> QED
      BY <1>4, <2>2, <3>1
  <2> QED
    BY <1>3, <1>b, <2>1, <2>2 DEF Order
<1>6. ASSUME ~Closing(x, i)
      PROVE  /\ \A j \in 1..d : q[j] = m + j
             /\ c = m + d + 1
             /\ \A n \in (m + d + 2)..s :
                  \E j \in Pos(x)' : OnLane(wire'[x][j], i, k) /\ wire'[x][j].n = n
  <2>1. Taken(x, i, k) = m + d
    BY <1>b DEF Taken, Pushing
  <2>2. /\ \A j \in 1..d : q[j] = m + j
        /\ \A n \in (m + d + 1)..s :
             \E j \in Pos(x) : OnLane(wire[x][j], i, k) /\ wire[x][j].n = n
    BY <1>6, <1>b, <2>1 DEF Lane, Gapless
  <2>3. m + d + 1 <= c
    <3>1. CASE d = 0
      BY <1>3, <3>1
    <3>2. CASE d # 0
      <4>1. d \in 1..d
        BY <3>2
      <4>2. q[d] = m + d /\ q[d] < c
        BY <1>3, <2>2, <4>1
      <4> QED
        BY <4>2
    <3> QED
      BY <3>1, <3>2
  <2>4. c = m + d + 1
    <3>1. m + d + 1 \in (m + d + 1)..s
      BY <1>3, <2>3
    <3>2. PICK j \in Pos(x) : OnLane(wire[x][j], i, k) /\ wire[x][j].n = m + d + 1
      BY <2>2, <3>1
    <3>3. j # 1 => c < m + d + 1
      BY <1>4, <3>2
    <3>4. j = 1 => c = m + d + 1
      BY <1>b, <3>2
    <3> QED
      BY <2>3, <3>3, <3>4
  <2>5. ASSUME NEW n \in (m + d + 2)..s
        PROVE  \E j \in Pos(x)' : OnLane(wire'[x][j], i, k) /\ wire'[x][j].n = n
    <3>1. n \in (m + d + 1)..s /\ n # c
      BY <2>4
    <3>2. PICK j \in Pos(x) : OnLane(wire[x][j], i, k) /\ wire[x][j].n = n
      BY <2>2, <3>1
    <3> QED
      BY <1>2, <1>b, <3>1, <3>2
  <2> QED
    BY <2>2, <2>4, <2>5
<1>7. Gapless(x, i, k)'
  <2>1. Taken(x, i, k)' + 1 = m + d + 2
    BY <1>b DEF Taken
  <2>2. ~Closing(x, i)' => ~Closing(x, i)
    BY DEF Forward
  <2> QED
    BY <1>6, <1>b, <2>1, <2>2 DEF Gapless
<1> QED
  BY <1>5, <1>7 DEF Lane

\* The read loop puts its payload into the channel.
LEMMA LanePushed ==
  ASSUME Types, NEW x \in Ends, NEW i \in Ids, NEW k \in Kinds, Lane(x, i, k),
         Forward(x, i), Pushing(x, i, k), ~Pushing(x, i, k)',
         queue'[x][i][k] = Append(queue[x][i][k], loop[x].n), loop[x].n \in 1..MaxSent,
         UNCHANGED <<got, sent, wire>>
  PROVE  Lane(x, i, k)'
<1> DEFINE q == queue[x][i][k]
           r == queue'[x][i][k]
<1>a. /\ got[x][i][k] \in Nat /\ Len(q) \in Nat /\ sent[Peer(x)][i][k] \in Nat
      /\ q \in Seq(1..MaxSent)
  BY LaneNumbers
<1>b. PICK m \in Nat, d \in Nat, c \in Nat, s \in Nat :
        m = got[x][i][k] /\ d = Len(q) /\ c = loop[x].n /\ s = sent[Peer(x)][i][k]
  BY <1>a
<1>1. /\ Len(r) = d + 1 /\ r[d + 1] = c
      /\ \A j \in 1..d : r[j] = q[j]
  BY <1>a, <1>b, Putting
<1>2. /\ \A j \in 1..(d + 1) : j \in 1..d \/ j = d + 1
      /\ \A j \in 1..d : 1..(j - 1) \subseteq 1..d
      /\ 1..((d + 1) - 1) = 1..d
  OBVIOUS
<1>3. /\ \A j \in 1..d : m < q[j] /\ q[j] <= s /\ q[j] < c
      /\ \A j \in 1..d : \A h \in 1..(j - 1) : q[h] < q[j]
      /\ m < c /\ c <= s /\ m <= s
  BY <1>b DEF Lane, Order
<1>4. Order(x, i, k)'
  <2>1. \A j \in 1..(d + 1) : m < r[j] /\ r[j] <= s /\ \A h \in 1..(j - 1) : r[h] < r[j]
    BY <1>1, <1>2, <1>3
  <2>2. \A j \in Pos(x) : OnLane(wire[x][j], i, k) =>
          /\ m < wire[x][j].n /\ wire[x][j].n <= s
          /\ \A h \in 1..(d + 1) : r[h] < wire[x][j].n
          /\ \A h \in 1..(j - 1) : OnLane(wire[x][h], i, k) => wire[x][h].n < wire[x][j].n
    BY <1>1, <1>2, <1>b DEF Lane, Order
  <2>3. Pos(x)' = Pos(x) /\ wire' = wire
    BY DEF Pos
  <2> QED
    BY <1>1, <1>3, <1>b, <2>1, <2>2, <2>3 DEF Order
<1>5. Gapless(x, i, k)'
  <2>1. Taken(x, i, k) = m + d + 1 /\ Taken(x, i, k)' = m + (d + 1)
    BY <1>1, <1>b DEF Taken
  <2>2. Taken(x, i, k)' = Taken(x, i, k)
    BY <2>1
  <2>3. ~Closing(x, i) => \A j \in 1..(d + 1) : r[j] = m + j
    <3>1. ~Closing(x, i) => c = m + d + 1 /\ \A j \in 1..d : q[j] = m + j
      BY <1>b DEF Lane, Gapless
    <3>2. \A j \in 1..d : r[j] = q[j]
      BY <1>1
    <3>3. m + d + 1 = m + (d + 1) /\ r[d + 1] = c
      BY <1>1
    <3> QED
      BY <1>2, <3>1, <3>2, <3>3
  <2>4. Pos(x)' = Pos(x)
    BY DEF Pos
  <2> QED
    BY <1>1, <1>b, <2>2, <2>3, <2>4 DEF Lane, Gapless, Forward
<1> QED
  BY <1>4, <1>5 DEF Lane

\* A reader takes the first payload of its channel.
LEMMA LaneRead ==
  ASSUME Types, NEW x \in Ends, NEW i \in Ids, NEW k \in Kinds, Lane(x, i, k),
         Forward(x, i), queue[x][i][k] # <<>>,
         queue'[x][i][k] = Tail(queue[x][i][k]), got'[x][i][k] = Head(queue[x][i][k]),
         UNCHANGED <<sent, wire, loop>>
  PROVE  Lane(x, i, k)'
<1> DEFINE q == queue[x][i][k]
           r == queue'[x][i][k]
<1>a. /\ got[x][i][k] \in Nat /\ Len(q) \in Nat /\ sent[Peer(x)][i][k] \in Nat
      /\ q \in Seq(1..MaxSent) /\ loop[x].n \in Nat
  BY LaneNumbers
<1>b. PICK m \in Nat, d \in Nat, c \in Nat, s \in Nat :
        m = got[x][i][k] /\ d = Len(q) /\ c = loop[x].n /\ s = sent[Peer(x)][i][k]
  BY <1>a
<1>c. PICK l \in Nat : l = got'[x][i][k]
  <2>1. Head(q) \in 1..MaxSent
    BY <1>a, Taking
  <2>2. \A n \in 1..MaxSent : n \in Nat
    BY MuxAssumption
  <2> QED
    BY <2>1, <2>2
<1>1. /\ l = q[1] /\ d # 0 /\ Len(r) = d - 1
      /\ \A j \in 1..(d - 1) : r[j] = q[j + 1]
  BY <1>a, <1>b, <1>c, Taking
<1>2. /\ \A j \in 1..(d - 1) : /\ j + 1 \in 1..d /\ 1 \in 1..((j + 1) - 1)
                               /\ \A h \in 1..(j - 1) : h \in 1..(d - 1) /\ h + 1 \in 1..((j + 1) - 1)
      /\ 1 \in 1..d
  BY <1>1
<1>3. /\ \A j \in 1..d : m < q[j] /\ q[j] <= s
      /\ \A j \in 1..d : \A h \in 1..(j - 1) : q[h] < q[j]
      /\ Pushing(x, i, k) => c <= s /\ \A j \in 1..d : q[j] < c
  BY <1>b DEF Lane, Order
<1>4. Pos(x)' = Pos(x) /\ (Pushing(x, i, k)' <=> Pushing(x, i, k))
  BY DEF Pos, Pushing
<1>5. Order(x, i, k)'
  <2>1. \A j \in 1..(d - 1) : l < r[j] /\ r[j] <= s /\ \A h \in 1..(j - 1) : r[h] < r[j]
    BY <1>1, <1>2, <1>3
  <2>2. \A j \in Pos(x) : OnLane(wire[x][j], i, k) =>
          /\ l < wire[x][j].n /\ wire[x][j].n <= s
          /\ \A h \in 1..(d - 1) : r[h] < wire[x][j].n
          /\ Pushing(x, i, k) => c < wire[x][j].n
          /\ \A h \in 1..(j - 1) : OnLane(wire[x][h], i, k) => wire[x][h].n < wire[x][j].n
    BY <1>1, <1>2, <1>b DEF Lane, Order
  <2>3. l <= s /\ (Pushing(x, i, k) => l < c /\ c <= s /\ \A j \in 1..(d - 1) : r[j] < c)
    BY <1>1, <1>2, <1>3
  <2> QED
    BY <1>1, <1>4, <1>b, <1>c, <2>1, <2>2, <2>3 DEF Order
<1>6. Gapless(x, i, k)'
  <2>1. ASSUME ~Closing(x, i)
        PROVE  l = m + 1 /\ \A j \in 1..(d - 1) : r[j] = l + j
    <3>1. \A j \in 1..d : q[j] = m + j
      BY <1>b, <2>1 DEF Lane, Gapless
    <3>2. l = m + 1
      BY <1>1, <1>2, <3>1
    <3>3. ASSUME NEW j \in 1..(d - 1) PROVE r[j] = l + j
      <4>1. r[j] = m + (j + 1)
        BY <1>1, <1>2, <3>1
      <4>2. m + (j + 1) = l + j
        BY <3>2
      <4> QED
        BY <4>1, <4>2
    <3> QED
      BY <3>2, <3>3
  <2>2. ASSUME ~Closing(x, i)
        PROVE  /\ Taken(x, i, k)' = Taken(x, i, k)
               /\ Pushing(x, i, k) => c = l + (d - 1) + 1
    <3>1. l + (d - 1) = m + d
      BY <2>1, <2>2
    <3>2. Pushing(x, i, k) => c = m + d + 1
      BY <1>b, <2>2 DEF Lane, Gapless
    <3>3. got'[x][i][k] + Len(r) = got[x][i][k] + Len(q)
      BY <1>1, <1>b, <1>c, <3>1
    <3> QED
      BY <1>4, <3>1, <3>2, <3>3 DEF Taken
  <2>3. ~Closing(x, i)' => ~Closing(x, i)
    BY DEF Forward
  <2>4. ~Closing(x, i) /\ Hears(x, i)' =>
          \A n \in (Taken(x, i, k) + 1)..s :
            \E j \in Pos(x) : OnLane(wire[x][j], i, k) /\ wire[x][j].n = n
    BY <1>b DEF Lane, Gapless, Forward
  <2> QED
    BY <1>1, <1>4, <1>b, <1>c, <2>1, <2>2, <2>3, <2>4 DEF Gapless
<1> QED
  BY <1>5, <1>6 DEF Lane

\* The peer writes the next payload of the lane.
LEMMA LaneSent ==
  ASSUME Types, NEW x \in Ends, NEW i \in Ids, NEW k \in Kinds, Lane(x, i, k),
         Forward(x, i), UNCHANGED <<queue, got, loop>>,
         sent'[Peer(x)][i][k] = sent[Peer(x)][i][k] + 1,
         NEW f \in Frame, OnLane(f, i, k), f.n = sent[Peer(x)][i][k] + 1,
         wire'[x] = Append(wire[x], f)
  PROVE  Lane(x, i, k)'
<1> DEFINE q == queue[x][i][k]
<1>a. /\ got[x][i][k] \in Nat /\ sent[Peer(x)][i][k] \in Nat /\ loop[x].n \in Nat
      /\ \A j \in 1..Len(q) : q[j] \in Nat
      /\ \A j \in Pos(x) : wire[x][j].n \in Nat
  BY LaneNumbers
<1>b. PICK m \in Nat, c \in Nat, s \in Nat :
        m = got[x][i][k] /\ c = loop[x].n /\ s = sent[Peer(x)][i][k]
  BY <1>a
<1>c. \A n \in Nat : n <= s => n <= s + 1 /\ n < s + 1
  OBVIOUS
<1>1. /\ Len(wire'[x]) = Len(wire[x]) + 1 /\ Len(wire[x]) \in Nat
      /\ wire'[x][Len(wire[x]) + 1] = f
      /\ \A j \in Pos(x) : wire'[x][j] = wire[x][j]
  BY Putting DEF Types, WireTyped, Pos
<1>2. /\ \A j \in Pos(x)' :
           \/ j \in Pos(x) /\ wire'[x][j] = wire[x][j]
           \/ j = Len(wire[x]) + 1 /\ wire'[x][j] = f
      /\ \A j \in Pos(x) : j \in Pos(x)' /\ wire'[x][j] = wire[x][j] /\ 1..(j - 1) \subseteq Pos(x)
      /\ 1..((Len(wire[x]) + 1) - 1) = Pos(x) /\ Len(wire[x]) + 1 \in Pos(x)'
  BY <1>1 DEF Pos
<1>3. Pushing(x, i, k)' <=> Pushing(x, i, k)
  BY DEF Pushing
<1>4. /\ m <= s
      /\ \A j \in 1..Len(q) : m < q[j] /\ q[j] <= s /\ \A h \in 1..(j - 1) : q[h] < q[j]
      /\ Pushing(x, i, k) => m < c /\ c <= s /\ \A j \in 1..Len(q) : q[j] < c
      /\ \A j \in Pos(x) : OnLane(wire[x][j], i, k) => wire[x][j].n <= s
  BY <1>b DEF Lane, Order
<1>5. /\ \A j \in 1..Len(q) : q[j] <= s + 1 /\ q[j] < s + 1
      /\ Pushing(x, i, k) => c <= s + 1 /\ c < s + 1
      /\ \A j \in Pos(x) : OnLane(wire[x][j], i, k) => wire[x][j].n <= s + 1 /\ wire[x][j].n < s + 1
      /\ m <= s + 1 /\ m < s + 1
  BY <1>4, <1>a, <1>c
<1>6. Order(x, i, k)'
  <2>1. ASSUME NEW j \in Pos(x)', OnLane(wire'[x][j], i, k)
        PROVE  /\ m < wire'[x][j].n /\ wire'[x][j].n <= s + 1
               /\ \A h \in 1..Len(q) : q[h] < wire'[x][j].n
               /\ Pushing(x, i, k) => c < wire'[x][j].n
               /\ \A h \in 1..(j - 1) : OnLane(wire'[x][h], i, k) => wire'[x][h].n < wire'[x][j].n
    <3>1. CASE j \in Pos(x) /\ wire'[x][j] = wire[x][j]
      BY <1>2, <1>5, <1>b, <2>1, <3>1 DEF Lane, Order
    <3>2. CASE j = Len(wire[x]) + 1 /\ wire'[x][j] = f
      <4>1. f.n = s + 1 /\ s + 1 <= s + 1
        BY <1>b
      <4>2. \A h \in 1..(j - 1) : h \in Pos(x) /\ wire'[x][h] = wire[x][h]
        BY <1>2, <3>2
      <4> QED
        BY <1>5, <3>2, <4>1, <4>2
    <3> QED
      BY <1>2, <3>1, <3>2
  <2> QED
    BY <1>3, <1>4, <1>5, <1>b, <2>1 DEF Order
<1>7. Gapless(x, i, k)'
  <2>1. Taken(x, i, k)' = Taken(x, i, k)
    BY <1>3 DEF Taken
  <2>2. ASSUME ~Closing(x, i), Hears(x, i), NEW n \in (Taken(x, i, k) + 1)..(s + 1)
        PROVE  \E j \in Pos(x)' : OnLane(wire'[x][j], i, k) /\ wire'[x][j].n = n
    <3>1. CASE n = s + 1
      BY <1>1, <1>2, <1>b, <3>1
    <3>2. CASE n # s + 1
      <4>1. n \in (Taken(x, i, k) + 1)..s
        BY <3>2
      <4> QED
        BY <1>2, <1>b, <2>2, <4>1 DEF Lane, Gapless
    <3> QED
      BY <3>1, <3>2
  <2> QED
    BY <1>3, <1>b, <2>1, <2>2 DEF Lane, Gapless, Forward
<1> QED
  BY <1>6, <1>7 DEF Lane

\* The read loop gives its payload up: the stream is being closed.
LEMMA LaneDropped ==
  ASSUME NEW x \in Ends, NEW i \in Ids, NEW k \in Kinds, Lane(x, i, k), Forward(x, i),
         Closing(x, i), ~Pushing(x, i, k)', UNCHANGED <<queue, got, sent, wire>>
  PROVE  Lane(x, i, k)'
<1>1. Order(x, i, k)'
  <2>1. Pos(x)' = Pos(x)
    BY DEF Pos
  <2> QED
    BY <2>1 DEF Lane, Order
<1>2. Gapless(x, i, k)'
  BY DEF Gapless, Forward
<1> QED
  BY <1>1, <1>2 DEF Lane

\* What it takes for an end that does not hear a stream not to hear it again.
LEMMA ForwardIf ==
  ASSUME NEW x \in Ends, NEW i \in Ids, Listens(x)' => Listens(x),
         i \in streams'[x] => i \in streams[x] \/ st[x][i] = "none",
         st[x][i] \in Shut => st'[x][i] \in Shut,
         st'[x][i] = "none" => st[x][i] = "none",
         Closing(x, i) => Closing(x, i)'
  PROVE  Forward(x, i)
BY DEF Forward, Hears

\* A process that is gone stays gone, and so does a read loop that stopped.
LEMMA StepListens ==
  ASSUME Types, NEW e \in Ends, NEW id \in Ids, NEW k, NEW g \in Closers, Step(e, id, k, g)
  PROVE  \A x \in Ends : Listens(x)' => Listens(x)
<1>1. \A x \in Ends : alive'[x] => alive[x]
  <2>1. alive \in [Ends -> BOOLEAN]
    BY DEF Types, ProcsTyped
  <2>2. alive' = alive \/ \E y \in Ends : alive' = [alive EXCEPT ![y] = FALSE]
    BY DEF Step, OpenCheck, OpenRegister, OpenAnnounce, HandleOpen, HandlePayload, HandleClose, Push,
         PushPanics, LoopResumes, ReadFails, Close, CloseAnnounce, ShutStep, LeaveOnce, Send, ReadCheck,
         Receive, ReceiveEOF, MuxCloseEnter, MuxCloseSignal, MuxCloseLock, MuxCloseStream,
         MuxCloseFinish, ServerExit, LinkBreaks, Dies, procs, Ends
  <2> QED
    BY <2>1, <2>2
<1>2. \A x \in Ends : loop'[x].pc # "stop" => loop[x].pc # "stop"
  <2>1. loop' = loop \/ (loop[e].pc # "stop" /\ \A x \in Ends \ {e} : loop'[x] = loop[x])
    <3>1. CASE \/ HandleOpen(e) \/ HandlePayload(e) \/ HandleClose(e)
               \/ Push(e) \/ LoopResumes(e) \/ ReadFails(e)
      BY <3>1 DEF HandleOpen, HandlePayload, HandleClose, HasFrame, Push, LoopResumes, ReadFails,
           Types, LoopTyped
    <3>2. CASE ~(\/ HandleOpen(e) \/ HandlePayload(e) \/ HandleClose(e)
                 \/ Push(e) \/ LoopResumes(e) \/ ReadFails(e))
      BY <3>2 DEF Step, OpenCheck, OpenRegister, OpenAnnounce, PushPanics, Close, CloseAnnounce,
           ShutStep, LeaveOnce, Send, ReadCheck, Receive, ReceiveEOF, MuxCloseEnter, MuxCloseSignal,
           MuxCloseLock, MuxCloseStream, MuxCloseFinish, ServerExit, LinkBreaks
    <3> QED
      BY <3>1, <3>2
  <2> QED
    BY <2>1
<1> QED
  BY <1>1, <1>2 DEF Listens

\* Every step takes every stream forward.
LEMMA StepForward ==
  ASSUME MuxInv, NEW e \in Ends, NEW id \in Ids, NEW k, NEW g \in Closers, Step(e, id, k, g)
  PROVE  \A x \in Ends, i \in Ids : Forward(x, i)
<1> SUFFICES ASSUME NEW x \in Ends, NEW i \in Ids PROVE Forward(x, i)
  OBVIOUS
<1>a. /\ Types /\ Stage(x, i) /\ (Listens(x)' => Listens(x)) /\ OwnIds(e) /\ OpenFrames(e)
      /\ st \in [Ends -> [Ids -> Stages]] /\ owner \in [Ends -> [Ids -> Owners]]
      /\ streams \in [Ends -> SUBSET Ids] /\ nextID \in [Ends -> Nat]
  BY StepListens DEF MuxInv, StageInv, IdInv, Types, StreamTyped, TableTyped
<1>1. CASE \/ OpenCheck(e) \/ PushPanics(e) \/ ReadFails(e) \/ ReadCheck(e, id)
           \/ HandlePayload(e) \/ Push(e) \/ LoopResumes(e)
           \/ k \in Kinds /\ (Send(e, id, k) \/ Receive(e, id, k) \/ ReceiveEOF(e, id, k))
           \/ MuxCloseEnter(e, g) \/ MuxCloseSignal(e, g) \/ MuxCloseLock(e, g) \/ MuxCloseFinish(e, g)
           \/ ServerExit \/ LinkBreaks
  <2>1. UNCHANGED stream
    BY <1>1 DEF OpenCheck, PushPanics, ReadFails, ReadCheck, HandlePayload, Push, LoopResumes, Send,
         Receive, ReceiveEOF, MuxCloseEnter, MuxCloseSignal, MuxCloseLock, MuxCloseFinish,
         ServerExit, LinkBreaks
  <2>2. i \in streams'[x] => i \in streams[x]
    <3>1. CASE LoopResumes(e) \/ MuxCloseFinish(e, g)
      BY <1>a, <3>1 DEF LoopResumes, MuxCloseFinish
    <3>2. CASE ~(LoopResumes(e) \/ MuxCloseFinish(e, g))
      BY <1>1, <3>2 DEF OpenCheck, PushPanics, ReadFails, ReadCheck, HandlePayload, Push, Send,
           Receive, ReceiveEOF, MuxCloseEnter, MuxCloseSignal, MuxCloseLock, ServerExit, LinkBreaks, table
    <3> QED
      BY <3>1, <3>2
  <2> QED
    BY <1>a, <2>1, <2>2, ForwardIf DEF stream, Closing
<1>2. CASE OpenRegister(e)
  <2>1. PICK n \in Ids : n = nextID[e] /\ ~(n < nextID[e]) /\ Own(e, n)
    BY <1>2, <1>a DEF OpenRegister, OwnIds, Ids
  <2>2. st[e][n] = "none"
    BY <1>a, <2>1 DEF OwnIds
  <2>3. /\ st' = [st EXCEPT ![e][n] = "open"] /\ owner' = owner
        /\ streams' = [streams EXCEPT ![e] = @ \cup {n}]
    BY <1>2, <2>1 DEF OpenRegister
  <2>4. /\ x # e \/ i # n => st'[x][i] = st[x][i] /\ (i \in streams'[x] <=> i \in streams[x])
        /\ st'[e][n] = "open"
    BY <1>a, <2>1, <2>3
  <2> QED
    BY <1>a, <2>2, <2>3, <2>4, ForwardIf DEF Closing, Shut
<1>3. CASE HandleOpen(e)
  <2>1. Head(wire[e]) \in Frame /\ Head(wire[e]) = wire[e][1] /\ 1 \in Pos(e)
    BY <1>3, <1>a, TakeTyped, Taking DEF HandleOpen, HasFrame, Types, WireTyped, Pos
  <2>2. PICK f \in Frame : f = Head(wire[e]) /\ f.id \in Ids
    BY <2>1 DEF Frame
  <2>3. st[e][f.id] = "none"
    BY <1>3, <1>a, <2>1, <2>2 DEF OpenFrames, HandleOpen, HasFrame
  <2>4. /\ streams' = [streams EXCEPT ![e] = @ \cup {f.id}]
        /\ \E s \in {"open", "closing"} : st' = [st EXCEPT ![e][f.id] = s]
        /\ owner' = owner \/ owner' = [owner EXCEPT ![e][f.id] = "reject"]
    BY <1>3, <2>2 DEF HandleOpen
  <2>5. /\ x # e \/ i # f.id => st'[x][i] = st[x][i] /\ (i \in streams'[x] <=> i \in streams[x])
        /\ st'[e][f.id] \in {"open", "closing"}
    BY <1>a, <2>2, <2>4
  <2>6. owner'[x][i] = owner[x][i] \/ owner'[x][i] = "reject"
    BY <1>a, <2>2, <2>4
  <2> QED
    BY <1>a, <2>3, <2>5, <2>6, ForwardIf DEF Closing, Shut
<1>4. CASE OpenAnnounce(e) \/ HandleClose(e)
  <2>1. owner'[x][i] = owner[x][i] \/ st[x][i] = "open"
    <3>1. CASE HandleClose(e)
      <4>1. PICK f \in Frame : f = Head(wire[e]) /\ f.id \in Ids
        BY <1>a, <3>1, TakeTyped DEF HandleClose, HasFrame, Frame
      <4>2. owner' = owner \/ (owner' = [owner EXCEPT ![e][f.id] = "remote"] /\ st[e][f.id] = "open")
        BY <3>1, <4>1 DEF HandleClose, stream
      <4>3. x # e \/ i # f.id => owner'[x][i] = owner[x][i]
        <5>1. CASE owner' = owner
          BY <5>1
        <5>2. CASE owner' = [owner EXCEPT ![e][f.id] = "remote"]
          BY <1>a, <4>1, <5>2
        <5> QED
          BY <4>2, <5>1, <5>2
      <4>4. owner' = owner \/ st[e][f.id] = "open"
        BY <4>2
      <4> QED
        BY <4>3, <4>4
    <3>2. CASE OpenAnnounce(e)
      BY <3>2 DEF OpenAnnounce
    <3> QED
      BY <1>4, <3>1, <3>2
  <2>2. /\ i \in streams'[x] => i \in streams[x]
        /\ st'[x][i] = st[x][i] \/ st'[x][i] = "done" \/ (st[x][i] = "open" /\ st'[x][i] = "signalled")
    <3>1. CASE HandleClose(e)
      <4>1. PICK f \in Frame : f = Head(wire[e]) /\ f.id \in Ids
        BY <1>a, <3>1, TakeTyped DEF HandleClose, HasFrame, Frame
      <4>2. /\ st' = st \/ (st' = [st EXCEPT ![e][f.id] = "signalled"] /\ st[e][f.id] = "open")
            /\ streams' = streams
        BY <3>1, <4>1 DEF HandleClose, stream, table
      <4> QED
        BY <1>a, <4>1, <4>2
    <3>2. CASE OpenAnnounce(e)
      <4>1. PICK n \in Ids : n = opening[e]
        BY <3>2 DEF OpenAnnounce
      <4>2. \/ UNCHANGED <<streams, st>>
            \/ /\ streams' = [streams EXCEPT ![e] = @ \ {n}]
               /\ st' = [st EXCEPT ![e][n] = "done"]
        BY <3>2, <4>1 DEF OpenAnnounce
      <4>3. CASE UNCHANGED <<streams, st>>
        BY <4>3
      <4>4. CASE /\ streams' = [streams EXCEPT ![e] = @ \ {n}]
                 /\ st' = [st EXCEPT ![e][n] = "done"]
        <5>1. st'[x][i] = st[x][i] \/ st'[x][i] = "done"
          BY <1>a, <4>1, <4>4
        <5>2. i \in streams'[x] => i \in streams[x]
          BY <1>a, <4>1, <4>4
        <5> QED
          BY <5>1, <5>2
      <4> QED
        BY <4>2, <4>3, <4>4
    <3> QED
      BY <1>4, <3>1, <3>2
  <2>3. st[x][i] = "open" => owner[x][i] = "nobody"
    BY <1>a DEF Stage
  <2> QED
    BY <1>a, <2>1, <2>2, <2>3, ForwardIf DEF Closing, Shut
<1>5. CASE Close(e, id) \/ CloseAnnounce(e, id) \/ ShutStep(e, id) \/ LeaveOnce(e, id) \/ MuxCloseStream(e, g, id)
  <2>1. i \in streams'[x] => i \in streams[x]
    BY <1>5, <1>a DEF Close, CloseAnnounce, ShutStep, LeaveOnce, MuxCloseStream, table
  <2>2. x # e \/ i # id => st'[x][i] = st[x][i] /\ owner'[x][i] = owner[x][i]
    BY <1>5, <1>a DEF Close, CloseAnnounce, ShutStep, LeaveOnce, MuxCloseStream
  <2>3. \/ st[e][id] = "open" /\ st'[e][id] = "closing" /\ owner'[e][id] = "local"
        \/ st[e][id] = "open" /\ st'[e][id] = "signalled" /\ owner'[e][id] = "mux"
        \/ st[e][id] = "closing" /\ st'[e][id] = "signalled" /\ owner'[e][id] = owner[e][id]
        \/ st[e][id] = "signalled" /\ st'[e][id] = "shut" /\ owner'[e][id] = owner[e][id]
        \/ st[e][id] = "shut" /\ st'[e][id] = "done" /\ owner'[e][id] = owner[e][id]
    BY <1>5, <1>a DEF Close, CloseAnnounce, ShutStep, LeaveOnce, MuxCloseStream
  <2>4. /\ st[x][i] \in Shut => st'[x][i] \in Shut
        /\ st'[x][i] = "none" => st[x][i] = "none"
        /\ Closing(x, i) => Closing(x, i)'
    BY <2>2, <2>3 DEF Shut, Closing
  <2> QED
    BY <1>a, <2>1, <2>4, ForwardIf
<1> QED
  BY <1>1, <1>2, <1>3, <1>4, <1>5 DEF Step

\* The read loops keep the payloads they have, and are given none.
PushingSame ==
  \A x \in Ends :
    \/ loop'[x] = loop[x]
    \/ loop[x].pc # "push" /\ loop'[x].pc # "push"
LanesSame == PushingSame /\ UNCHANGED <<queue, got, sent>>

\* When no lane changes, each of them is still.
LEMMA LanesStill ==
  ASSUME LanesSame
  PROVE  \A x \in Ends, i \in Ids, c \in Kinds : Still(x, i, c)
BY DEF LanesSame, PushingSame, Still, Pushing

\* No lane changes when its variables do not.
LEMMA LanesUnchanged == UNCHANGED <<lane, loop, sent>> => LanesSame
BY DEF lane, LanesSame, PushingSame

\* Every step keeps the lanes.
LEMMA StepLanes ==
  ASSUME MuxInv, NEW e \in Ends, NEW id \in Ids, NEW k, NEW g \in Closers, Step(e, id, k, g)
  PROVE  LaneInv'
<1>a. /\ Types /\ LaterFrames(e) /\ PeerCannotPanicPush
      /\ \A x \in Ends, i \in Ids, c \in Kinds : Lane(x, i, c)
  BY DEF MuxInv, LaneInv, IdInv, StageInv, Lane
<1>b. /\ wire \in [Ends -> Seq(Frame)] /\ queue \in [Ends -> [Ids -> [Kinds -> Seq(1..MaxSent)]]]
      /\ got \in [Ends -> [Ids -> [Kinds -> 0..MaxSent]]]
      /\ sent \in [Ends -> [Ids -> [Kinds -> 0..MaxSent]]]
      /\ loop \in [Ends -> [pc : LoopStates, type : {"open", "close"} \cup Kinds,
                            id : Ids, n : 0..MaxSent]]
  BY <1>a DEF Types, WireTyped, LaneTyped, SentTyped, LoopTyped
<1>q. queue \in [Ends -> [Ids -> [Kinds -> Seq(1..MaxSent)]]]
  BY <1>b
<1>g. got \in [Ends -> [Ids -> [Kinds -> 0..MaxSent]]]
  BY <1>b
<1>c. \A x \in Ends, i \in Ids : Forward(x, i)
  BY StepForward
<1>d. PICK p \in Ends : p = Peer(e) /\ Peer(p) = e /\ p # e /\ \A x \in Ends : x = e \/ x = p
  BY TwoEnds
<1> SUFFICES ASSUME NEW x \in Ends, NEW i \in Ids, NEW c \in Kinds PROVE Lane(x, i, c)'
  BY DEF LaneInv, Lane
<1>1. ASSUME LanesSame, UNCHANGED wire PROVE Lane(x, i, c)'
  BY <1>1, <1>a, <1>c, LanesStill, LaneSame
<1>2. ASSUME NEW y \in Ends, LanesSame, wire' = [wire EXCEPT ![y] = <<>>], ~Listens(y)'
      PROVE  Lane(x, i, c)'
  <2>1. Lane(x, i, c) /\ Still(x, i, c) /\ Forward(x, i)
    BY <1>2, <1>a, <1>c, LanesStill
  <2>2. CASE x = y
    <3>1. wire'[x] = <<>> /\ ~Hears(x, i)'
      BY <1>2, <1>b, <2>2 DEF Hears
    <3> QED
      BY <2>1, <3>1, LaneCleared
  <2>3. CASE x # y
    <3>1. wire'[x] = wire[x]
      BY <1>2, <1>b, <2>3
    <3> QED
      BY <2>1, <3>1, LaneSame
  <2> QED
    BY <2>2, <2>3
<1>3. ASSUME LanesSame, NEW f \in Frame, f.type \notin Kinds, WriteFrame(e, f)
      PROVE  Lane(x, i, c)'
  <2>1. Lane(x, i, c) /\ Still(x, i, c) /\ Forward(x, i)
    BY <1>3, <1>a, <1>c, LanesStill
  <2>2. CASE x = p
    <3>1. wire'[x] = Append(wire[x], f) /\ ~OnLane(f, i, c)
      BY <1>3, <1>b, <1>d, <2>2 DEF WriteFrame, OnLane
    <3> QED
      BY <1>a, <2>1, <3>1, LanePassed
  <2>3. CASE x = e
    <3>1. wire'[x] = wire[x]
      BY <1>3, <1>b, <1>d, <2>3 DEF WriteFrame
    <3> QED
      BY <2>1, <3>1, LaneSame
  <2> QED
    BY <1>d, <2>2, <2>3
<1>4. ASSUME LanesSame, wire[e] # <<>>, TakeFrame(e), Head(wire[e]).type \notin Kinds
      PROVE  Lane(x, i, c)'
  <2>1. Lane(x, i, c) /\ Still(x, i, c) /\ Forward(x, i)
    BY <1>4, <1>a, <1>c, LanesStill
  <2>2. CASE x = e
    <3>1. wire'[x] = Tail(wire[x]) /\ wire[x][1] = Head(wire[x])
      BY <1>4, <1>b, <2>2, Taking DEF TakeFrame
    <3>2. ~OnLane(wire[x][1], i, c)
      BY <1>4, <2>2, <3>1 DEF OnLane
    <3> QED
      BY <1>4, <1>a, <2>1, <2>2, <3>1, <3>2, LaneTaken
  <2>3. CASE x # e
    <3>1. wire'[x] = wire[x]
      BY <1>4, <1>b, <2>3 DEF TakeFrame
    <3> QED
      BY <2>1, <3>1, LaneSame
  <2> QED
    BY <2>2, <2>3
<1>5. CASE \/ OpenCheck(e) \/ OpenRegister(e) \/ Close(e, id) \/ ShutStep(e, id) \/ LeaveOnce(e, id)
           \/ ReadCheck(e, id) \/ (k \in Kinds /\ ReceiveEOF(e, id, k))
           \/ MuxCloseEnter(e, g) \/ MuxCloseLock(e, g) \/ MuxCloseStream(e, g, id)
           \/ MuxCloseFinish(e, g) \/ LinkBreaks
  <2>1. CASE ReadCheck(e, id) \/ (k \in Kinds /\ ReceiveEOF(e, id, k))
    <3>1. LanesSame /\ UNCHANGED wire
      BY <2>1 DEF ReadCheck, ReceiveEOF, LanesSame, PushingSame
    <3> QED
      BY <1>1, <3>1
  <2>2. CASE ~(ReadCheck(e, id) \/ (k \in Kinds /\ ReceiveEOF(e, id, k)))
    <3>1. UNCHANGED <<lane, loop, sent, wire>>
      BY <1>5, <2>2 DEF OpenCheck, OpenRegister, Close, ShutStep, LeaveOnce, MuxCloseEnter,
           MuxCloseLock, MuxCloseStream, MuxCloseFinish, LinkBreaks
    <3> QED
      BY <1>1, <3>1, LanesUnchanged
  <2> QED
    BY <2>1, <2>2
<1>6. CASE OpenAnnounce(e) \/ CloseAnnounce(e, id)
  <2>1. LanesSame
    <3>1. UNCHANGED <<lane, loop, sent>>
      BY <1>6 DEF OpenAnnounce, CloseAnnounce
    <3> QED
      BY <3>1, LanesUnchanged
  <2>2. UNCHANGED wire \/ \E f \in Frame : f.type \notin Kinds /\ WriteFrame(e, f)
    <3>1. \A j \in Ids : /\ [type |-> "open", id |-> j, n |-> 0] \in Frame
                         /\ [type |-> "close", id |-> j, n |-> 0] \in Frame
      BY FramesAre
    <3>2. "open" \notin Kinds /\ "close" \notin Kinds
      BY KindsAre
    <3> QED
      BY <1>6, <3>1, <3>2 DEF OpenAnnounce, CloseAnnounce
  <2> QED
    BY <1>1, <1>3, <2>1, <2>2
<1>7. CASE PushPanics(e) \/ ReadFails(e) \/ MuxCloseSignal(e, g) \/ ServerExit
  <2>1. CASE ReadFails(e)
    <3>1. loop[e].pc = "read" /\ loop'[e].pc = "stop" /\ \A y \in Ends \ {e} : loop'[y] = loop[y]
      BY <1>b, <2>1 DEF ReadFails
    <3>2. PushingSame /\ ~Listens(e)'
      BY <3>1 DEF PushingSame, Listens
    <3>3. UNCHANGED <<lane, sent>> /\ wire' = [wire EXCEPT ![e] = <<>>]
      BY <2>1 DEF ReadFails
    <3>4. LanesSame
      BY <3>2, <3>3 DEF LanesSame, lane
    <3> QED
      BY <1>2, <3>2, <3>3, <3>4
  <2>2. CASE PushPanics(e) \/ MuxCloseSignal(e, g) \/ ServerExit
    <3>1. LanesSame
      BY <2>2, LanesUnchanged DEF PushPanics, MuxCloseSignal, ServerExit
    <3>2. UNCHANGED wire \/ \E y \in Ends : Dies(y)
      BY <2>2 DEF PushPanics, MuxCloseSignal, ServerExit, Ends
    <3>3. ASSUME NEW y \in Ends, Dies(y) PROVE wire' = [wire EXCEPT ![y] = <<>>] /\ ~Listens(y)'
      BY <1>a, <3>3 DEF Dies, Listens, Types, ProcsTyped
    <3> QED
      BY <1>1, <1>2, <3>1, <3>2, <3>3
  <2> QED
    BY <1>7, <2>1, <2>2
<1>8. CASE HandleOpen(e) \/ HandleClose(e)
  <2>1. /\ wire[e] # <<>> /\ TakeFrame(e) /\ Head(wire[e]).type \notin Kinds /\ loop[e].pc = "read"
    BY <1>8, KindsAre DEF HandleOpen, HandleClose, HasFrame
  <2>2. Head(wire[e]) \in Frame
    BY <1>a, <2>1, TakeTyped
  <2>3. \/ loop' = loop
        \/ loop' = [loop EXCEPT ![e] = At("reject", Head(wire[e]))]
        \/ loop' = [loop EXCEPT ![e] = At("close", Head(wire[e]))]
    BY <1>8 DEF HandleOpen, HandleClose
  <2>4. PushingSame
    <3>1. /\ At("reject", Head(wire[e])).pc # "push"
          /\ At("close", Head(wire[e])).pc # "push"
      BY <2>2, LoopRecords DEF LoopStates
    <3> QED
      BY <1>b, <2>1, <2>3, <3>1 DEF PushingSame
  <2>5. UNCHANGED <<lane, sent>>
    BY <1>8 DEF HandleOpen, HandleClose
  <2>6. LanesSame
    BY <2>4, <2>5 DEF lane, LanesSame
  <2> QED
    BY <1>4, <2>1, <2>6
<1>9. CASE LoopResumes(e)
  <2>1. /\ loop[e].pc # "push" /\ loop' = [loop EXCEPT ![e] = Idle] /\ UNCHANGED <<lane, sent, wire>>
    BY <1>9 DEF LoopResumes
  <2>2. PushingSame
    BY <1>b, <2>1, LoopRecords DEF PushingSame
  <2>3. LanesSame
    BY <2>1, <2>2 DEF LanesSame, lane
  <2> QED
    BY <1>1, <2>1, <2>3
<1>10. CASE HandlePayload(e)
  <2>1. /\ wire[e] # <<>> /\ TakeFrame(e) /\ Head(wire[e]).type \in Kinds /\ loop[e].pc = "read"
        /\ alive[e] /\ UNCHANGED <<queue, got, sent>>
    BY <1>10 DEF HandlePayload, HasFrame, lane
  <2>2. PICK f \in Frame : f = Head(wire[e]) /\ f = wire[e][1] /\ f.id \in Ids /\ 1 \in Pos(e)
    <3>1. Head(wire[e]) = wire[e][1] /\ Len(wire[e]) \in Nat \ {0}
      BY <1>b, <2>1, Taking
    <3>2. PICK f \in Frame : f = Head(wire[e])
      BY <1>a, <2>1, TakeTyped
    <3>3. f.id \in Ids
      BY DEF Frame
    <3> QED
      BY <3>1, <3>2, <3>3 DEF Pos
  <2>3. wire'[e] = Tail(wire[e]) /\ \A y \in Ends \ {e} : wire'[y] = wire[y]
    BY <1>b, <2>1 DEF TakeFrame
  <2>4. Lane(x, i, c) /\ Forward(x, i)
    BY <1>a, <1>c
  <2>5. CASE f.id \in streams[e] /\ st[e][f.id] \notin Shut
    <3>1. loop' = [loop EXCEPT ![e] = At("push", f)]
      BY <1>10, <2>2, <2>5 DEF HandlePayload
    <3>2. /\ loop'[e].pc = "push" /\ loop'[e].id = f.id /\ loop'[e].type = f.type /\ loop'[e].n = f.n
          /\ \A y \in Ends \ {e} : loop'[y] = loop[y]
      BY <1>b, <3>1, LoopRecords DEF LoopStates
    <3>3. CASE x # e
      <4>1. Still(x, i, c)
        BY <2>1, <3>2, <3>3 DEF Still, Pushing
      <4> QED
        BY <2>3, <2>4, <3>3, <4>1, LaneSame
    <3>4. CASE x = e /\ OnLane(f, i, c)
      <4>1. Hears(e, f.id) /\ Pushing(e, f.id, c)'
        BY <2>1, <2>5, <3>2, <3>4 DEF Hears, Listens, Pushing, OnLane
      <4> QED
        BY <1>a, <2>1, <2>2, <2>3, <2>4, <3>2, <3>4, <4>1, LaneHanded DEF OnLane
    <3>5. CASE x = e /\ ~OnLane(f, i, c)
      <4>1. Still(x, i, c)
        BY <2>1, <3>2, <3>5 DEF Still, Pushing, OnLane
      <4> QED
        BY <1>a, <2>1, <2>2, <2>3, <2>4, <3>5, <4>1, LaneTaken
    <3> QED
      BY <3>3, <3>4, <3>5
  <2>6. CASE ~(f.id \in streams[e] /\ st[e][f.id] \notin Shut)
    <3>1. loop' = loop
      BY <1>10, <2>2, <2>6 DEF HandlePayload
    <3>2. Still(x, i, c)
      BY <2>1, <3>1 DEF Still, Pushing
    <3>3. CASE x # e
      BY <2>3, <2>4, <3>2, <3>3, LaneSame
    <3>4. CASE x = e
      <4>1. st[e][f.id] # "none"
        <5>1. f.type # "open" /\ 1..(1 - 1) = {}
          BY <2>1, <2>2, KindsAre
        <5> QED
          BY <1>a, <2>2, <5>1 DEF LaterFrames
      <4>2. OnLane(wire[x][1], i, c) => ~Hears(x, i)
        BY <2>2, <2>6, <3>4, <4>1 DEF OnLane, Hears
      <4> QED
        BY <1>a, <2>1, <2>3, <2>4, <3>2, <3>4, <4>2, LaneTaken
    <3> QED
      BY <3>3, <3>4
  <2> QED
    BY <2>5, <2>6
<1>11. CASE Push(e)
  <2>1. PICK j \in Ids, t \in Kinds : j = loop[e].id /\ t = loop[e].type
    BY <1>11, <1>a DEF Push, Types, LoopTyped
  <2>2. /\ loop[e].pc = "push" /\ loop'[e].pc # "push" /\ \A y \in Ends \ {e} : loop'[y] = loop[y]
        /\ UNCHANGED <<got, sent, wire>> /\ Pushing(e, j, t)
    BY <1>11, <1>b, <2>1, LoopRecords DEF Push, Pushing
  <2>3. \/ queue' = [queue EXCEPT ![e][j][t] = Append(@, loop[e].n)]
        \/ st[e][j] \in Signalled /\ queue' = queue
    BY <1>11, <2>1 DEF Push
  <2>4. Lane(x, i, c) /\ Forward(x, i)
    BY <1>a, <1>c
  <2>5. CASE x # e \/ i # j \/ c # t
    <3>1. queue'[x][i][c] = queue[x][i][c]
      <4>1. CASE queue' = queue
        BY <4>1
      <4>2. CASE queue' = [queue EXCEPT ![e][j][t] = Append(@, loop[e].n)]
        <5>1. PICK v : queue' = [queue EXCEPT ![e][j][t] = v]
          BY <4>2
        <5> QED
          BY <1>q, <2>5, <5>1
      <4> QED
        BY <2>3, <4>1, <4>2
    <3>2. Pushing(x, i, c)' <=> Pushing(x, i, c)
      BY <2>1, <2>2, <2>5 DEF Pushing
    <3>3. Pushing(x, i, c) => loop'[x].n = loop[x].n
      BY <2>1, <2>2, <2>5 DEF Pushing
    <3> QED
      BY <2>2, <2>4, <3>1, <3>2, <3>3, LaneSame DEF Still
  <2>6. CASE x = e /\ i = j /\ c = t
    <3>1. ~Pushing(x, i, c)' /\ Pushing(x, i, c)
      BY <2>2, <2>6 DEF Pushing
    <3>2. CASE queue' = [queue EXCEPT ![e][j][t] = Append(@, loop[e].n)]
      <4>1. queue'[x][i][c] = Append(queue[x][i][c], loop[x].n)
        <5>1. PICK v : v = Append(queue[e][j][t], loop[e].n) /\ queue' = [queue EXCEPT ![e][j][t] = v]
          BY <3>2
        <5>2. queue'[e][j][t] = v
          BY <1>q, <5>1
        <5> QED
          BY <2>6, <5>1, <5>2
      <4>2. loop[x].n \in 1..MaxSent
        <5>1. PICK m \in Nat, n \in 0..MaxSent : m = got[x][i][c] /\ n = loop[x].n
          BY <1>a, <1>b, LaneNumbers
        <5>2. m < n
          BY <2>4, <3>1, <5>1 DEF Lane, Order
        <5>3. n \in 1..MaxSent
          BY <5>2
        <5> QED
          BY <5>1, <5>3
      <4> QED
        BY <1>a, <2>2, <2>4, <3>1, <4>1, <4>2, LanePushed
    <3>3. CASE st[e][j] \in Signalled /\ queue' = queue
      <4>1. Closing(x, i)
        BY <1>a, <2>1, <2>2, <2>6, <3>3 DEF PeerCannotPanicPush, Closing
      <4> QED
        BY <2>2, <2>4, <3>1, <3>3, <4>1, LaneDropped
    <3> QED
      BY <2>3, <3>2, <3>3
  <2> QED
    BY <2>5, <2>6
<1>12. CASE k \in Kinds /\ Receive(e, id, k)
  <2>1. /\ queue[e][id][k] # <<>> /\ UNCHANGED <<sent, wire, loop>>
        /\ got' = [got EXCEPT ![e][id][k] = Head(queue[e][id][k])]
        /\ queue' = [queue EXCEPT ![e][id][k] = Tail(@)]
    BY <1>12 DEF Receive
  <2>2. Lane(x, i, c) /\ Forward(x, i)
    BY <1>a, <1>c
  <2>3. CASE x # e \/ i # id \/ c # k
    <3>1. queue'[x][i][c] = queue[x][i][c] /\ got'[x][i][c] = got[x][i][c]
      <4>1. PICK v, w : /\ queue' = [queue EXCEPT ![e][id][k] = v]
                       /\ got' = [got EXCEPT ![e][id][k] = w]
        BY <2>1
      <4>2. queue'[x][i][c] = queue[x][i][c]
        BY <1>12, <1>q, <2>3, <4>1
      <4>3. got'[x][i][c] = got[x][i][c]
        BY <1>12, <1>g, <2>3, <4>1
      <4> QED
        BY <4>2, <4>3
    <3>2. Still(x, i, c)
      BY <2>1, <3>1 DEF Still, Pushing
    <3> QED
      BY <2>1, <2>2, <3>2, LaneSame
  <2>4. CASE x = e /\ i = id /\ c = k
    <3>1. queue'[x][i][c] = Tail(queue[x][i][c]) /\ got'[x][i][c] = Head(queue[x][i][c])
      BY <1>12, <1>b, <2>1, <2>4
    <3> QED
      BY <1>a, <2>1, <2>2, <2>4, <3>1, LaneRead
  <2> QED
    BY <2>3, <2>4
<1>13. CASE k \in Kinds /\ Send(e, id, k)
  <2>1. /\ sent' = [sent EXCEPT ![e][id][k] = @ + 1] /\ UNCHANGED <<queue, got, loop>>
        /\ WriteFrame(e, [type |-> k, id |-> id, n |-> sent[e][id][k] + 1])
    BY <1>13 DEF Send, lane
  <2>2. sent[e][id][k] + 1 \in 0..MaxSent
    <3>1. sent[e][id][k] \in 0..MaxSent /\ sent[e][id][k] < MaxSent
      BY <1>13, <1>b DEF Send
    <3> QED
      BY <3>1, MuxAssumption
  <2>3. PICK f \in Frame : f.type = k /\ f.id = id /\ f.n = sent[e][id][k] + 1 /\ WriteFrame(e, f)
    <3>1. [type |-> k, id |-> id, n |-> sent[e][id][k] + 1] \in Frame
      BY <1>13, <2>2, FramesAre
    <3> QED
      BY <2>1, <3>1
  <2>4. wire'[p] = Append(wire[p], f) /\ wire'[e] = wire[e]
    BY <1>b, <1>d, <2>3 DEF WriteFrame
  <2>5. Lane(x, i, c) /\ Forward(x, i)
    BY <1>a, <1>c
  <2>6. CASE x = e
    <3>1. sent'[Peer(x)][i][c] = sent[Peer(x)][i][c]
      BY <1>13, <1>b, <1>d, <2>1, <2>6
    <3>2. Still(x, i, c)
      BY <2>1, <3>1 DEF Still, Pushing
    <3> QED
      BY <2>4, <2>5, <2>6, <3>2, LaneSame
  <2>7. CASE x = p /\ ~(i = id /\ c = k)
    <3>1. sent'[Peer(x)][i][c] = sent[Peer(x)][i][c]
      BY <1>13, <1>b, <1>d, <2>1, <2>7
    <3>2. Still(x, i, c) /\ ~OnLane(f, i, c)
      BY <2>1, <2>3, <2>7, <3>1 DEF Still, Pushing, OnLane
    <3> QED
      BY <1>a, <2>4, <2>5, <2>7, <3>2, LanePassed
  <2>8. CASE x = p /\ i = id /\ c = k
    <3>1. sent'[Peer(x)][i][c] = sent[Peer(x)][i][c] + 1
      BY <1>13, <1>b, <1>d, <2>1, <2>8
    <3>2. OnLane(f, i, c) /\ f.n = sent[Peer(x)][i][c] + 1
      BY <1>d, <2>3, <2>8 DEF OnLane
    <3> QED
      BY <1>a, <2>1, <2>4, <2>5, <2>8, <3>1, <3>2, LaneSent
  <2> QED
    BY <1>d, <2>6, <2>7, <2>8
<1> QED
  BY <1>5, <1>6, <1>7, <1>8, <1>9, <1>10, <1>11, <1>12, <1>13 DEF Step

-----------------------------------------------------------------------------
(* The theorems                                                            *)

\* Init establishes the invariant.
LEMMA InitSound == Init => MuxInv
<1> SUFFICES ASSUME Init PROVE MuxInv
  OBVIOUS
<1>a. /\ 1 \in Nat /\ 2 \in Nat /\ 0 \in 0..MaxId /\ 0 \in 0..MaxSent /\ 0 <= ChanCap /\ 0 <= WireCap
      /\ \A S : <<>> \in Seq(S)
  BY MuxAssumption
<1>b. /\ wire = [e \in Ends |-> <<>>] /\ nextID = [e \in Ends |-> IF e = "client" THEN 1 ELSE 2]
      /\ opening = [e \in Ends |-> 0] /\ loop = [e \in Ends |-> Idle]
      /\ st = [e \in Ends |-> [id \in Ids |-> "none"]] /\ alive = [e \in Ends |-> TRUE]
      /\ owner = [e \in Ends |-> [id \in Ids |-> "nobody"]] /\ streams = [e \in Ends |-> {}]
      /\ queue = [e \in Ends |-> [id \in Ids |-> [k \in Kinds |-> <<>>]]]
      /\ got = [e \in Ends |-> [id \in Ids |-> [k \in Kinds |-> 0]]]
      /\ sent = [e \in Ends |-> [id \in Ids |-> [k \in Kinds |-> 0]]]
  BY DEF Init
<1>c. \A e \in Ends : loop[e].pc = "read" /\ Pos(e) = {}
  BY <1>b, LoopRecords DEF Pos
<1>1. Types
  <2>1. ProcsTyped
    BY DEF Init, ProcsTyped
  <2>2. TableTyped
    BY <1>a, <1>b DEF TableTyped
  <2>3. StreamTyped
    BY <1>b DEF StreamTyped, Stages, Owners
  <2>4. LaneTyped
    <3>1. /\ queue \in [Ends -> [Ids -> [Kinds -> Seq(1..MaxSent)]]]
          /\ \A e \in Ends, id \in Ids, k \in Kinds : Len(queue[e][id][k]) <= ChanCap
      BY <1>a, <1>b
    <3>2. got \in [Ends -> [Ids -> [Kinds -> 0..MaxSent]]] /\ reads \in [Ends -> [Ids -> [Kinds -> Nat]]]
      BY <1>a DEF Init
    <3>3. reader \in [Ends -> [Ids -> [Kinds -> {"check", "select", "eof"}]]]
      BY DEF Init, NewLane
    <3> QED
      BY <3>1, <3>2, <3>3 DEF LaneTyped
  <2>5. WireTyped
    BY <1>a, <1>b DEF WireTyped
  <2>6. LoopTyped
    BY <1>b, LoopRecords DEF LoopTyped
  <2>7. SentTyped
    BY <1>a, <1>b DEF SentTyped
  <2> QED
    BY <2>1, <2>2, <2>3, <2>4, <2>5, <2>6, <2>7 DEF Types
<1>2. IdInv
  <2> SUFFICES ASSUME NEW e \in Ends
               PROVE  OwnIds(e) /\ OpenFrames(e) /\ LaterFrames(e) /\ Known(e) /\ Deaf(e)
    BY DEF IdInv
  <2>1. OwnIds(e)
    <3>1. Own(e, nextID[e]) /\ nextID[e] # 0
      BY <1>b DEF Own, Ends
    <3>2. opening[e] = 0 /\ opening[e] # Entering /\ 0 \notin Ids
      BY <1>b DEF Entering, Ids
    <3>3. \A id \in Ids : Own(e, id) => ~(id < nextID[e])
      BY <1>b DEF Own, Ends, Ids
    <3>4. \A id \in Ids : st[e][id] = "none" /\ st[Peer(e)][id] = "none"
      BY <1>b, TwoEnds
    <3>5. ~Busy(e)
      BY <1>c DEF Busy
    <3> QED
      BY <1>c, <3>1, <3>2, <3>3, <3>4, <3>5 DEF OwnIds
  <2>2. OpenFrames(e) /\ LaterFrames(e)
    BY <1>c DEF OpenFrames, LaterFrames
  <2>3. Known(e)
    BY <1>b, TwoEnds DEF Known
  <2>4. Deaf(e)
    BY <1>b, <1>c DEF Deaf, Listens
  <2> QED
    BY <2>1, <2>2, <2>3, <2>4
<1>3. StageInv
  BY <1>b, <1>c DEF StageInv, PeerCannotPanicPush, Stage
<1>4. LaneInv
  <2> SUFFICES ASSUME NEW e \in Ends, NEW id \in Ids, NEW k \in Kinds
               PROVE  Order(e, id, k) /\ Gapless(e, id, k)
    BY DEF LaneInv
  <2>1. queue[e][id][k] = <<>> /\ got[e][id][k] = 0 /\ sent[Peer(e)][id][k] = 0 /\ ~Pushing(e, id, k)
    BY <1>b, <1>c, TwoEnds DEF Pushing
  <2>2. Taken(e, id, k) = 0 /\ 1..Len(queue[e][id][k]) = {} /\ (0 + 1)..0 = {}
    BY <2>1 DEF Taken
  <2>3. Order(e, id, k)
    BY <1>c, <2>1, <2>2 DEF Order
  <2>4. Gapless(e, id, k)
    BY <2>1, <2>2 DEF Gapless
  <2> QED
    BY <2>3, <2>4
<1> QED
  BY <1>1, <1>2, <1>3, <1>4 DEF MuxInv

\* Every step keeps it.
LEMMA NextSound == MuxInv /\ [Next]_vars => MuxInv'
<1> SUFFICES ASSUME MuxInv, [Next]_vars PROVE MuxInv'
  OBVIOUS
<1>1. CASE Next
  <2>1. PICK e \in Ends, id \in Ids, g \in Closers : \E k : Step(e, id, k, g)
    BY <1>1, Steps
  <2>2. PICK k : Step(e, id, k, g)
    BY <2>1
  <2> QED
    BY <2>2, StepTypes, StepIds, StepStages, StepLanes DEF MuxInv
<1>2. CASE UNCHANGED vars
  <2>1. UNCHANGED <<procs, table, stream, lane, wire, loop, sent>>
    BY <1>2 DEF vars
  <2>2. UNCHANGED <<alive, link, closedCh, muxClose, streamMu, nextID, streams, opening, st, owner>>
    BY <2>1 DEF procs, table, stream
  <2>3. UNCHANGED <<queue, reader, got, reads, wire, loop, sent>>
    BY <2>1 DEF lane
  <2>4. Types'
    BY <2>2, <2>3 DEF MuxInv, Types, ProcsTyped, TableTyped, StreamTyped, LaneTyped, WireTyped,
         LoopTyped, SentTyped
  <2>5. IdInv'
    BY <2>2, <2>3, IdsQuiet, ListeningSame DEF MuxInv, SameIds, StagesOn
  <2>6. StageInv'
    BY <2>1, <2>2, StageSame DEF MuxInv
  <2>7. LaneInv'
    <3>1. LanesSame
      BY <2>1, LanesUnchanged
    <3>2. \A x \in Ends, i \in Ids : Forward(x, i)
      BY <2>2, <2>3 DEF Forward, Hears, Listens, Closing
    <3> QED
      BY <2>3, <3>1, <3>2, LanesStill, LaneSame DEF MuxInv, LaneInv, Lane
  <2> QED
    BY <2>4, <2>5, <2>6, <2>7 DEF MuxInv
<1> QED
  BY <1>1, <1>2

\* It always holds.
LEMMA Invariant == Spec => []MuxInv
BY InitSound, NextSound, PTL DEF Spec

\* TypeOK: every variable keeps its type, no channel and no connection holds
\* more than it can, and an open frame never names a stream its receiver has.
THEOREM Typing == Spec => []TypeOK
<1>1. MuxInv => TypeOK
  <2>1. MuxInv => \A e \in Ends : \A i \in DOMAIN wire[e] :
                    wire[e][i].type = "open" => st[e][wire[e][i].id] = "none"
    <3> SUFFICES ASSUME MuxInv, NEW e \in Ends, NEW i \in DOMAIN wire[e], wire[e][i].type = "open"
                 PROVE  st[e][wire[e][i].id] = "none"
      OBVIOUS
    <3>1. i \in Pos(e)
      BY DEF MuxInv, Types, WireTyped, Pos
    <3> QED
      BY <3>1 DEF MuxInv, IdInv, OpenFrames
  <2> QED
    BY <2>1 DEF MuxInv, Types, ProcsTyped, TableTyped, StreamTyped, LaneTyped, WireTyped, LoopTyped,
         SentTyped, TypeOK
<1> QED
  BY <1>1, Invariant, PTL

\* PeerCannotPanicPush: while the read loop stands in pushData or pushMsg only
\* this end can close the stream, so no frame of the peer makes the send panic.
THEOREM PushSafe == Spec => []PeerCannotPanicPush
<1>1. MuxInv => PeerCannotPanicPush
  BY DEF MuxInv, StageInv
<1> QED
  BY <1>1, Invariant, PTL

-----------------------------------------------------------------------------
(* What Mux.Close leaves behind                                            *)

\* Init establishes it.
LEMMA InitSweep == Init => SweepInv
<1> SUFFICES ASSUME Init PROVE SweepInv
  OBVIOUS
<1>1. /\ opening = [e \in Ends |-> 0] /\ wire = [e \in Ends |-> <<>>]
      /\ closedCh = [e \in Ends |-> FALSE]
      /\ muxClose = [e \in Ends |-> [g \in Closers |-> "idle"]]
  BY DEF Init
<1>2. "server" \in Ends /\ "client" \in Ends /\ "loop" \in Closers /\ "app" \in Closers
  BY DEF Ends, Closers
<1>3. Pos("client") = {}
  BY <1>1, <1>2 DEF Pos
<1> QED
  BY <1>1, <1>2, <1>3 DEF SweepInv, SweepAt

\* The server opens no stream, and tells the client of none.
LEMMA ClientOpens ==
  ASSUME Openers \subseteq {"client"}, MuxInv, SweepInv,
         NEW e \in Ends, NEW id \in Ids, NEW k, NEW g \in Closers, Step(e, id, k, g)
  PROVE  /\ opening'["server"] = 0
         /\ \A i \in Pos("client")' : wire'["client"][i].type # "open"
<1>a. /\ Types /\ "server" \in Ends /\ "client" \in Ends /\ Entering # 0 /\ 0 \notin Ids
      /\ opening["server"] = 0 /\ \A i \in Pos("client") : wire["client"][i].type # "open"
  BY DEF MuxInv, SweepInv, Ends, Entering, Ids
<1>b. opening \in [Ends -> {Entering} \cup 0..MaxId] /\ wire \in [Ends -> Seq(Frame)]
  BY <1>a DEF Types, TableTyped, WireTyped
<1>1. opening'["server"] = 0
  <2>1. CASE OpenCheck(e) \/ OpenRegister(e) \/ OpenAnnounce(e)
    <3>1. e # "server"
      BY <1>a, <2>1 DEF OpenCheck, OpenRegister, OpenAnnounce
    <3>2. \E v : opening' = [opening EXCEPT ![e] = v]
      BY <2>1 DEF OpenCheck, OpenRegister, OpenAnnounce
    <3> QED
      BY <1>a, <1>b, <3>1, <3>2
  <2>2. CASE ~(OpenCheck(e) \/ OpenRegister(e) \/ OpenAnnounce(e))
    <3>1. opening' = opening
      BY <2>2 DEF Step, HandleOpen, HandlePayload, HandleClose, Push, PushPanics, LoopResumes, ReadFails,
         Close, CloseAnnounce, ShutStep, LeaveOnce, Send, ReadCheck, Receive, ReceiveEOF,
         MuxCloseEnter, MuxCloseSignal, MuxCloseLock, MuxCloseStream, MuxCloseFinish, ServerExit,
         LinkBreaks, table
    <3> QED
      BY <1>a, <3>1
  <2> QED
    BY <2>1, <2>2
<1>2. \/ wire' = wire
      \/ \E y \in Ends : wire' = [wire EXCEPT ![y] = <<>>]
      \/ wire[e] # <<>> /\ wire' = [wire EXCEPT ![e] = Tail(@)]
      \/ \E f \in Frame : /\ f.type # "open" \/ e # "server"
                          /\ WriteFrame(e, f)
  <2>1. CASE OpenAnnounce(e)
    <3>1. PICK i \in Ids : i = opening[e]
      BY <2>1 DEF OpenAnnounce
    <3>2. e # "server" /\ [type |-> "open", id |-> i, n |-> 0] \in Frame
      BY <1>a, <3>1, FramesAre
    <3> QED
      BY <2>1, <3>1, <3>2 DEF OpenAnnounce
  <2>2. CASE CloseAnnounce(e, id)
    <3>1. PICK f \in Frame : f = [type |-> "close", id |-> id, n |-> 0] /\ f.type # "open"
      BY FramesAre
    <3> QED
      BY <2>2, <3>1 DEF CloseAnnounce
  <2>3. CASE k \in Kinds /\ Send(e, id, k)
    <3>1. sent[e][id][k] \in 0..MaxSent /\ sent[e][id][k] < MaxSent
      BY <1>a, <2>3 DEF Types, SentTyped, Send
    <3>2. sent[e][id][k] + 1 \in 0..MaxSent
      BY <3>1, MuxAssumption
    <3>3. PICK n \in 0..MaxSent : n = sent[e][id][k] + 1
      BY <3>2
    <3>4. PICK f \in Frame : f = [type |-> k, id |-> id, n |-> n] /\ f.type # "open"
      BY <2>3, FramesAre, KindsAre
    <3> QED
      BY <2>3, <3>3, <3>4 DEF Send
  <2>4. CASE HandleOpen(e) \/ HandlePayload(e) \/ HandleClose(e)
    BY <2>4 DEF HandleOpen, HandlePayload, HandleClose, HasFrame, TakeFrame
  <2>5. CASE PushPanics(e) \/ ReadFails(e) \/ MuxCloseSignal(e, g) \/ ServerExit
    BY <1>a, <2>5 DEF PushPanics, ReadFails, MuxCloseSignal, ServerExit, Dies
  <2>6. CASE \/ OpenCheck(e) \/ OpenRegister(e) \/ Push(e) \/ LoopResumes(e)
             \/ Close(e, id) \/ ShutStep(e, id) \/ LeaveOnce(e, id) \/ ReadCheck(e, id)
             \/ Receive(e, id, k) \/ ReceiveEOF(e, id, k) \/ MuxCloseEnter(e, g)
             \/ MuxCloseLock(e, g) \/ MuxCloseStream(e, g, id) \/ MuxCloseFinish(e, g) \/ LinkBreaks
    BY <2>6 DEF OpenCheck, OpenRegister, Push, LoopResumes, Close, ShutStep, LeaveOnce, ReadCheck,
       Receive, ReceiveEOF, MuxCloseEnter, MuxCloseLock, MuxCloseStream, MuxCloseFinish, LinkBreaks
  <2> QED
    BY <2>1, <2>2, <2>3, <2>4, <2>5, <2>6 DEF Step
<1>3. \A i \in Pos("client")' : wire'["client"][i].type # "open"
  <2>1. CASE wire'["client"] = wire["client"]
    BY <1>a, <2>1 DEF Pos
  <2>2. CASE wire'["client"] = <<>>
    BY <2>2 DEF Pos
  <2>3. CASE wire["client"] # <<>> /\ wire'["client"] = Tail(wire["client"])
    <3>1. PICK s \in Seq(Frame) : s = wire["client"]
      BY <1>a, <1>b
    <3>2. /\ Len(s) \in Nat \ {0} /\ Len(Tail(s)) = Len(s) - 1
          /\ \A i \in 1..Len(Tail(s)) : Tail(s)[i] = s[i + 1]
      BY <2>3, <3>1, Taking
    <3>3. \A i \in 1..Len(Tail(s)) : i + 1 \in 1..Len(s)
      BY <3>2
    <3> QED
      BY <1>a, <2>3, <3>1, <3>2, <3>3 DEF Pos
  <2>4. ASSUME NEW f \in Frame, f.type # "open", wire'["client"] = Append(wire["client"], f)
        PROVE  \A i \in Pos("client")' : wire'["client"][i].type # "open"
    <3>1. PICK s \in Seq(Frame) : s = wire["client"]
      BY <1>a, <1>b
    <3>2. /\ Len(Append(s, f)) = Len(s) + 1 /\ Len(s) \in Nat /\ Append(s, f)[Len(s) + 1] = f
          /\ \A i \in 1..Len(s) : Append(s, f)[i] = s[i]
      BY <3>1, Putting
    <3>3. \A i \in 1..(Len(s) + 1) : i \in 1..Len(s) \/ i = Len(s) + 1
      BY <3>2
    <3> QED
      BY <1>a, <2>4, <3>1, <3>2, <3>3 DEF Pos
  <2>5. \/ wire'["client"] = wire["client"] \/ wire'["client"] = <<>>
        \/ wire["client"] # <<>> /\ wire'["client"] = Tail(wire["client"])
        \/ \E f \in Frame : f.type # "open" /\ wire'["client"] = Append(wire["client"], f)
    <3>1. ASSUME NEW f \in Frame, f.type # "open" \/ e # "server", WriteFrame(e, f)
          PROVE  \/ wire'["client"] = wire["client"]
                 \/ f.type # "open" /\ wire'["client"] = Append(wire["client"], f)
      BY <1>a, <1>b, <3>1 DEF WriteFrame, Peer, Ends
    <3> QED
      BY <1>a, <1>b, <1>2, <3>1
  <2> QED
    BY <2>1, <2>2, <2>3, <2>4, <2>5
<1> QED
  BY <1>1, <1>3

\* The server closes its mux from the read loop only, once the loop stopped.
LEMMA ServerCloses ==
  ASSUME MuxInv, SweepInv, NEW e \in Ends, NEW id \in Ids, NEW k, NEW g \in Closers, Step(e, id, k, g)
  PROVE  /\ closedCh'["server"] \/ muxClose'["server"]["loop"] # "idle" => loop'["server"].pc = "stop"
         /\ muxClose'["server"]["app"] = "idle"
<1>a. /\ Types /\ "server" \in Ends /\ Closers = {"loop", "app"} /\ "loop" # "app"
      /\ closedCh["server"] \/ muxClose["server"]["loop"] # "idle" => loop["server"].pc = "stop"
      /\ muxClose["server"]["app"] = "idle"
  BY DEF MuxInv, SweepInv, Ends, Closers
<1>b. /\ closedCh \in [Ends -> BOOLEAN]
      /\ muxClose \in [Ends -> [Closers -> {"idle", "chosen", "locking", "sweeping", "done"}]]
      /\ loop \in [Ends -> [pc : LoopStates, type : {"open", "close"} \cup Kinds,
                            id : Ids, n : 0..MaxSent]]
  BY <1>a DEF Types, ProcsTyped, LoopTyped
<1>1. loop["server"].pc = "stop" => loop'["server"].pc = "stop"
  <2>1. CASE \/ HandleOpen(e) \/ HandlePayload(e) \/ HandleClose(e) \/ Push(e) \/ LoopResumes(e)
    <3>1. loop[e].pc # "stop" /\ \E l : loop' = [loop EXCEPT ![e] = l]
      <4>1. loop' = loop => loop' = [loop EXCEPT ![e] = loop[e]]
        BY <1>b
      <4>2. \/ loop' = loop \/ \E l : loop' = [loop EXCEPT ![e] = l]
        BY <2>1 DEF HandleOpen, HandlePayload, HandleClose, Push, LoopResumes
      <4>3. loop[e].pc # "stop"
        BY <2>1 DEF HandleOpen, HandlePayload, HandleClose, Push, LoopResumes, HasFrame
      <4> QED
        BY <4>1, <4>2, <4>3
    <3> QED
      BY <1>a, <1>b, <3>1
  <2>2. CASE ReadFails(e)
    BY <1>a, <1>b, <2>2 DEF ReadFails
  <2>3. CASE \/ OpenCheck(e) \/ OpenRegister(e) \/ OpenAnnounce(e) \/ PushPanics(e)
             \/ Close(e, id) \/ CloseAnnounce(e, id) \/ ShutStep(e, id) \/ LeaveOnce(e, id)
             \/ Send(e, id, k) \/ ReadCheck(e, id) \/ Receive(e, id, k) \/ ReceiveEOF(e, id, k)
             \/ MuxCloseEnter(e, g) \/ MuxCloseSignal(e, g) \/ MuxCloseLock(e, g)
             \/ MuxCloseStream(e, g, id) \/ MuxCloseFinish(e, g) \/ ServerExit \/ LinkBreaks
    <3>1. loop' = loop
      BY <2>3 DEF OpenCheck, OpenRegister, OpenAnnounce, PushPanics, Close, CloseAnnounce, ShutStep,
         LeaveOnce, Send, ReadCheck, Receive, ReceiveEOF, MuxCloseEnter, MuxCloseSignal,
         MuxCloseLock, MuxCloseStream, MuxCloseFinish, ServerExit, LinkBreaks
    <3> QED
      BY <3>1
  <2> QED
    BY <2>1, <2>2, <2>3 DEF Step
<1>2. \/ closedCh' = closedCh /\ muxClose' = muxClose
      \/ MuxCloseEnter(e, g) \/ MuxCloseSignal(e, g) \/ MuxCloseLock(e, g) \/ MuxCloseFinish(e, g)
  BY DEF Step, OpenCheck, OpenRegister, OpenAnnounce, HandleOpen, HandlePayload, HandleClose, Push,
     PushPanics, LoopResumes, ReadFails, Close, CloseAnnounce, ShutStep, LeaveOnce, Send, ReadCheck,
     Receive, ReceiveEOF, MuxCloseStream, ServerExit, LinkBreaks, procs
<1>3. CASE closedCh' = closedCh /\ muxClose' = muxClose
  BY <1>a, <1>1, <1>3
<1>4. CASE MuxCloseEnter(e, g) \/ MuxCloseSignal(e, g) \/ MuxCloseLock(e, g) \/ MuxCloseFinish(e, g)
  <2>1. e = "server" => g = "loop" /\ loop["server"].pc = "stop"
    <3>1. CASE MuxCloseEnter(e, g)
      BY <1>a, <3>1 DEF MuxCloseEnter
    <3>2. CASE MuxCloseSignal(e, g) \/ MuxCloseLock(e, g) \/ MuxCloseFinish(e, g)
      <4>1. muxClose[e][g] # "idle"
        BY <3>2 DEF MuxCloseSignal, MuxCloseLock, MuxCloseFinish
      <4> QED
        BY <1>a, <4>1
    <3> QED
      BY <1>4, <3>1, <3>2
  <2>2. /\ closedCh' = closedCh \/ closedCh' = [closedCh EXCEPT ![e] = TRUE]
        /\ \/ muxClose' = muxClose
           \/ \E v : muxClose' = [muxClose EXCEPT ![e][g] = v]
    <3>1. CASE MuxCloseEnter(e, g)
      BY <3>1 DEF MuxCloseEnter
    <3>2. CASE MuxCloseSignal(e, g)
      BY <3>2 DEF MuxCloseSignal
    <3>3. CASE MuxCloseLock(e, g)
      BY <3>3 DEF MuxCloseLock
    <3>4. CASE MuxCloseFinish(e, g)
      BY <3>4 DEF MuxCloseFinish
    <3> QED
      BY <1>4, <3>1, <3>2, <3>3, <3>4
  <2>3. CASE e = "server"
    <3>1. muxClose'["server"]["app"] = "idle"
      BY <1>a, <1>b, <2>1, <2>2, <2>3
    <3> QED
      BY <1>1, <2>1, <2>3, <3>1
  <2>4. CASE e # "server"
    <3>1. closedCh'["server"] = closedCh["server"] /\ muxClose'["server"] = muxClose["server"]
      BY <1>a, <1>b, <2>2, <2>4
    <3> QED
      BY <1>a, <1>1, <3>1
  <2> QED
    BY <2>3, <2>4
<1> QED
  BY <1>2, <1>3, <1>4

\* A stream that is open once the mux is closed and swept is being opened.
LEMMA SweepLeaves ==
  ASSUME MuxInv, SweepInv, NEW e \in Ends, NEW id \in Ids, NEW k, NEW g \in Closers, Step(e, id, k, g),
         NEW x \in Ends, NEW i \in Ids
  PROVE  SweepAt(x, i)'
<1>a. /\ Types /\ SweepAt(x, i) /\ Stage(x, i) /\ opening["server"] = 0
      /\ \A j \in Pos("client") : wire["client"][j].type # "open"
      /\ closedCh["server"] => loop["server"].pc = "stop"
  BY DEF MuxInv, StageInv, SweepInv, SweepAt
<1>b. /\ opening \in [Ends -> {Entering} \cup 0..MaxId] /\ wire \in [Ends -> Seq(Frame)]
      /\ closedCh \in [Ends -> BOOLEAN] /\ st \in [Ends -> [Ids -> Stages]]
      /\ muxClose \in [Ends -> [Closers -> {"idle", "chosen", "locking", "sweeping", "done"}]]
  BY <1>a DEF Types, ProcsTyped, TableTyped, WireTyped, StreamTyped
<1>c. Entering \notin Ids
  BY DEF Entering, Ids
<1>1. CASE \/ HandlePayload(e) \/ HandleClose(e) \/ Push(e) \/ PushPanics(e) \/ LoopResumes(e)
           \/ ReadFails(e) \/ Close(e, id) \/ CloseAnnounce(e, id) \/ ShutStep(e, id)
           \/ LeaveOnce(e, id) \/ Send(e, id, k) \/ ReadCheck(e, id) \/ Receive(e, id, k)
           \/ ReceiveEOF(e, id, k) \/ MuxCloseStream(e, g, id) \/ ServerExit \/ LinkBreaks
  <2>1. closedCh' = closedCh /\ muxClose' = muxClose /\ opening' = opening
    BY <1>1 DEF HandlePayload, HandleClose, Push, PushPanics, LoopResumes, ReadFails, Close,
       CloseAnnounce, ShutStep, LeaveOnce, Send, ReadCheck, Receive, ReceiveEOF, MuxCloseStream,
       ServerExit, LinkBreaks, procs, table
  <2>2. \/ st' = st
        \/ \E j, s : s # "open" /\ st' = [st EXCEPT ![e][j] = s]
    <3>1. CASE HandleClose(e)
      BY <3>1 DEF HandleClose, stream
    <3>2. CASE Close(e, id) \/ CloseAnnounce(e, id) \/ ShutStep(e, id) \/ LeaveOnce(e, id) \/ MuxCloseStream(e, g, id)
      BY <3>2 DEF Close, CloseAnnounce, ShutStep, LeaveOnce, MuxCloseStream
    <3>3. CASE \/ HandlePayload(e) \/ Push(e) \/ PushPanics(e) \/ LoopResumes(e)
               \/ ReadFails(e) \/ Send(e, id, k) \/ ReadCheck(e, id) \/ Receive(e, id, k)
               \/ ReceiveEOF(e, id, k) \/ ServerExit \/ LinkBreaks
      BY <3>3 DEF HandlePayload, Push, PushPanics, LoopResumes, ReadFails, Send, ReadCheck, Receive,
         ReceiveEOF, ServerExit, LinkBreaks, stream
    <3> QED
      BY <1>1, <3>1, <3>2, <3>3
  <2>3. st'[x][i] = "open" => st[x][i] = "open"
    <3>1. ASSUME NEW j, NEW s, s # "open", st' = [st EXCEPT ![e][j] = s]
          PROVE  st'[x][i] = "open" => st[x][i] = "open"
      <4>1. st \in [Ends -> [Ids -> Stages]]
        BY <1>b
      <4>2. CASE x = e /\ i = j
        BY <3>1, <4>1, <4>2
      <4>3. CASE ~(x = e /\ i = j)
        BY <3>1, <4>1, <4>3
      <4> QED
        BY <4>2, <4>3
    <3> QED
      BY <2>2, <3>1
  <2> QED
    BY <1>a, <2>1, <2>3 DEF SweepAt
<1>2. CASE OpenCheck(e)
  <2>1. x = e => ~closedCh[x]
    BY <1>2 DEF OpenCheck
  <2>2. x # e => opening'[x] = opening[x]
    BY <1>2, <1>b DEF OpenCheck
  <2>3. UNCHANGED <<closedCh, muxClose, st>>
    BY <1>2 DEF OpenCheck, procs, stream
  <2> QED
    BY <1>a, <2>1, <2>2, <2>3 DEF SweepAt
<1>3. CASE OpenRegister(e)
  <2>1. nextID[e] \in Ids /\ opening[e] = Entering
    BY <1>3 DEF OpenRegister, MuxInv, IdInv, OwnIds
  <2>2. PICK n \in Ids : n = nextID[e]
    BY <2>1
  <2>3. /\ opening' = [opening EXCEPT ![e] = n] /\ st' = [st EXCEPT ![e][n] = "open"]
        /\ UNCHANGED <<closedCh, muxClose>>
    BY <1>3, <2>2 DEF OpenRegister, procs
  <2>4. CASE x = e /\ i = n
    BY <1>b, <2>3, <2>4 DEF SweepAt
  <2>5. CASE x = e /\ i # n
    <3>1. st'[x][i] = st[x][i] /\ opening[x] # i
      BY <1>b, <1>c, <2>1, <2>2, <2>3, <2>5
    <3> QED
      BY <1>a, <2>3, <3>1 DEF SweepAt
  <2>6. CASE x # e
    <3>1. st'[x][i] = st[x][i] /\ opening'[x] = opening[x]
      BY <1>b, <2>3, <2>6
    <3> QED
      BY <1>a, <2>3, <3>1 DEF SweepAt
  <2> QED
    BY <2>4, <2>5, <2>6
<1>4. CASE OpenAnnounce(e)
  <2>1. PICK n \in Ids : n = opening[e]
    BY <1>4 DEF OpenAnnounce
  <2>2. /\ opening' = [opening EXCEPT ![e] = 0] /\ UNCHANGED <<closedCh, muxClose>>
        /\ (~closedCh[e] /\ st' = st) \/ st' = [st EXCEPT ![e][n] = "done"]
    BY <1>4, <2>1 DEF OpenAnnounce, procs, CanWrite, WriteFails
  <2>3. CASE x = e
    <3>1. CASE ~closedCh[e]
      BY <2>2, <2>3, <3>1 DEF SweepAt
    <3>2. CASE st' = [st EXCEPT ![e][n] = "done"]
      <4>1. CASE i = n
        <5>1. st'[x][i] = "done"
          BY <1>b, <2>3, <3>2, <4>1
        <5> QED
          BY <5>1 DEF SweepAt
      <4>2. CASE i # n
        <5>1. st'[x][i] = st[x][i]
          BY <1>b, <2>3, <3>2, <4>2
        <5> QED
          BY <1>a, <2>1, <2>2, <2>3, <4>2, <5>1 DEF SweepAt
      <4> QED
        BY <4>1, <4>2
    <3> QED
      BY <2>2, <3>1, <3>2
  <2>4. CASE x # e
    <3>1. st'[x][i] = st[x][i] /\ opening'[x] = opening[x]
      BY <1>b, <2>2, <2>4
    <3> QED
      BY <1>a, <2>2, <3>1 DEF SweepAt
  <2> QED
    BY <2>3, <2>4
<1>5. CASE HandleOpen(e)
  <2>1. /\ wire[e] # <<>> /\ Head(wire[e]).type = "open" /\ loop[e].pc = "read"
        /\ UNCHANGED <<closedCh, muxClose, opening>>
    BY <1>5 DEF HandleOpen, HasFrame, procs
  <2>2. e = "server"
    <3>1. Head(wire[e]) = wire[e][1] /\ Len(wire[e]) \in Nat \ {0}
      BY <1>b, <2>1, Taking
    <3>2. 1 \in Pos(e)
      BY <3>1 DEF Pos
    <3> QED
      BY <1>a, <2>1, <3>1, <3>2 DEF Ends
  <2>3. ~closedCh[e]
    BY <1>a, <2>1, <2>2
  <2>4. CASE x = e
    BY <2>1, <2>3, <2>4 DEF SweepAt
  <2>5. CASE x # e
    <3>1. \E j, s : st' = [st EXCEPT ![e][j] = s]
      BY <1>5 DEF HandleOpen
    <3>2. st'[x][i] = st[x][i]
      BY <1>b, <2>5, <3>1
    <3> QED
      BY <1>a, <2>1, <3>2 DEF SweepAt
  <2> QED
    BY <2>4, <2>5
<1>6. CASE MuxCloseEnter(e, g) \/ MuxCloseSignal(e, g) \/ MuxCloseLock(e, g) \/ MuxCloseFinish(e, g)
  <2>1. UNCHANGED <<opening, st>>
    BY <1>6 DEF MuxCloseEnter, MuxCloseSignal, MuxCloseLock, MuxCloseFinish, table, stream
  <2>2. CASE MuxCloseEnter(e, g)
    <3>1. PICK v : muxClose' = [muxClose EXCEPT ![e][g] = v] /\ closedCh' = closedCh /\ muxClose[e][g] = "idle"
      BY <2>2 DEF MuxCloseEnter
    <3>2. \A c \in Closers : muxClose[x][c] = muxClose'[x][c] \/ muxClose[x][c] = "idle"
      BY <1>b, <3>1
    <3> QED
      BY <1>a, <2>1, <3>1, <3>2 DEF SweepAt
  <2>3. CASE MuxCloseSignal(e, g)
    <3>1. CASE UNCHANGED <<closedCh, muxClose>>
      BY <1>a, <2>1, <3>1 DEF SweepAt
    <3>2. CASE /\ closedCh' = [closedCh EXCEPT ![e] = TRUE]
               /\ muxClose' = [muxClose EXCEPT ![e][g] = "locking"]
      <4>1. CASE x = e
        <5>1. muxClose'[x][g] = "locking"
          BY <1>b, <3>2, <4>1
        <5> QED
          BY <5>1 DEF SweepAt
      <4>2. CASE x # e
        <5>1. closedCh'[x] = closedCh[x] /\ muxClose'[x] = muxClose[x]
          BY <1>b, <3>2, <4>2
        <5> QED
          BY <1>a, <2>1, <5>1 DEF SweepAt
      <4> QED
        BY <4>1, <4>2
    <3> QED
      BY <2>3, <3>1, <3>2 DEF MuxCloseSignal
  <2>4. CASE MuxCloseLock(e, g)
    <3>1. muxClose' = [muxClose EXCEPT ![e][g] = "sweeping"] /\ closedCh' = closedCh
      BY <2>4 DEF MuxCloseLock
    <3>2. CASE x = e
      <4>1. muxClose'[x][g] = "sweeping"
        BY <1>b, <3>1, <3>2
      <4> QED
        BY <4>1 DEF SweepAt
    <3>3. CASE x # e
      <4>1. muxClose'[x] = muxClose[x]
        BY <1>b, <3>1, <3>3
      <4> QED
        BY <1>a, <2>1, <3>1, <4>1 DEF SweepAt
    <3> QED
      BY <3>2, <3>3
  <2>5. CASE MuxCloseFinish(e, g)
    <3>1. /\ \A j \in streams[e] : st[e][j] = "done" /\ closedCh' = closedCh
          /\ muxClose' = [muxClose EXCEPT ![e][g] = "done"]
      BY <2>5 DEF MuxCloseFinish
    <3>2. CASE x = e
      <4>1. st[x][i] # "open"
        BY <1>a, <2>5, <3>2 DEF Stage, MuxCloseFinish
      <4> QED
        BY <2>1, <4>1 DEF SweepAt
    <3>3. CASE x # e
      <4>1. muxClose'[x] = muxClose[x] /\ closedCh' = closedCh
        BY <1>b, <2>5, <3>3 DEF MuxCloseFinish
      <4> QED
        BY <1>a, <2>1, <4>1 DEF SweepAt
    <3> QED
      BY <3>2, <3>3
  <2> QED
    BY <1>6, <2>2, <2>3, <2>4, <2>5
<1> QED
  BY <1>1, <1>2, <1>3, <1>4, <1>5, <1>6 DEF Step

\* Every step keeps it, when only the client opens streams.
LEMMA NextSweep == Openers \subseteq {"client"} /\ MuxInv /\ SweepInv /\ [Next]_vars => SweepInv'
<1> SUFFICES ASSUME Openers \subseteq {"client"}, MuxInv, SweepInv, [Next]_vars PROVE SweepInv'
  OBVIOUS
<1>1. CASE Next
  <2>1. PICK e \in Ends, id \in Ids, g \in Closers : \E k : Step(e, id, k, g)
    BY <1>1, Steps
  <2>2. PICK k : Step(e, id, k, g)
    BY <2>1
  <2>3. \A x \in Ends, i \in Ids : SweepAt(x, i)'
    BY <2>2, SweepLeaves
  <2> QED
    BY <2>2, <2>3, ClientOpens, ServerCloses DEF SweepInv, SweepAt
<1>2. CASE UNCHANGED vars
  BY <1>2 DEF vars, procs, table, stream, SweepInv, SweepAt, Pos
<1> QED
  BY <1>1, <1>2

\* NoStreamOutlivesMux, in the program, where the client alone opens streams:
\* Mux.Close leaves no stream open, not even one an OpenStream was registering.
THEOREM NothingOutlives ==
  ASSUME Openers \subseteq {"client"}
  PROVE  Spec => []NoStreamOutlivesMux
<1>1. SweepInv => NoStreamOutlivesMux
  <2>1. 0 \notin Ids
    BY DEF Ids
  <2> QED
    BY <2>1 DEF SweepInv, SweepAt, NoStreamOutlivesMux
<1>2. MuxInv /\ SweepInv /\ [Next]_vars => SweepInv'
  BY NextSweep
<1> QED
  BY <1>1, <1>2, InitSweep, Invariant, PTL DEF Spec

-----------------------------------------------------------------------------
(* What a Mux.Close waits for                                              *)

\* A caller of Mux.Close has streamMu exactly while it sweeps, after it closed
\* m.closed; and the read loop calls it when it has stopped for good.
CloserAt(e) ==
  /\ \A g \in Closers :
       /\ muxClose[e][g] = "sweeping" <=> streamMu[e] = g
       /\ muxClose[e][g] \in {"locking", "sweeping"} => closedCh[e]
  /\ muxClose[e]["loop"] # "idle" => loop[e].pc = "stop"

CloserInv == \A e \in Ends : CloserAt(e)

\* The steps of a read loop and its streams, outside Mux.Close.
LEMMA LoopCloser ==
  ASSUME Types, CloserInv, UNCHANGED <<muxClose, streamMu, closedCh>>,
         \A x \in Ends : loop[x].pc = "stop" => loop'[x].pc = "stop"
  PROVE  CloserInv'
BY DEF CloserInv, CloserAt

\* The steps of Mux.Close.
LEMMA MuxCloseCloser ==
  ASSUME Types, CloserInv, NEW e \in Ends, NEW g \in Closers,
         \/ MuxCloseEnter(e, g) \/ MuxCloseSignal(e, g) \/ MuxCloseLock(e, g)
         \/ MuxCloseFinish(e, g)
  PROVE  CloserInv'
<1>0. "loop" \in Closers /\ "free" \notin Closers
  BY DEF Closers
<1>1. ProcsTyped /\ UNCHANGED loop
  BY DEF Types, MuxCloseEnter, MuxCloseSignal, MuxCloseLock, MuxCloseFinish
<1> USE <1>0, <1>1 DEF ProcsTyped, CloserInv, CloserAt
<1>2. CASE MuxCloseEnter(e, g)
  <2>1. \E v \in {"done", "chosen"} : muxClose' = [muxClose EXCEPT ![e][g] = v]
    BY <1>2 DEF MuxCloseEnter
  <2>2. g = "loop" => loop[e].pc = "stop"
    BY <1>2 DEF MuxCloseEnter
  <2>3. muxClose[e][g] = "idle" /\ UNCHANGED <<streamMu, closedCh>>
    BY <1>2 DEF MuxCloseEnter
  <2> QED BY <2>1, <2>2, <2>3
<1>3. CASE MuxCloseSignal(e, g)
  <2>1. CASE UNCHANGED <<muxClose, closedCh>>
    BY <1>3, <2>1 DEF MuxCloseSignal
  <2>2. CASE /\ closedCh' = [closedCh EXCEPT ![e] = TRUE]
             /\ muxClose' = [muxClose EXCEPT ![e][g] = "locking"]
    BY <1>3, <2>2 DEF MuxCloseSignal
  <2> QED BY <1>3, <2>1, <2>2 DEF MuxCloseSignal
<1>4. CASE MuxCloseLock(e, g)
  BY <1>4 DEF MuxCloseLock
<1>5. CASE MuxCloseFinish(e, g)
  BY <1>5 DEF MuxCloseFinish
<1> QED BY <1>2, <1>3, <1>4, <1>5

\* Every step.
LEMMA NextCloser == Types /\ CloserInv /\ [Next]_vars => CloserInv'
<1> SUFFICES ASSUME Types, CloserInv, [Next]_vars PROVE CloserInv'
  OBVIOUS
<1>1. CASE Next
  <2>1. PICK e \in Ends, id \in Ids, g \in Closers : \E k : Step(e, id, k, g)
    BY <1>1, Steps
  <2>2. PICK k : Step(e, id, k, g)
    BY <2>1
  <2>3. CASE \/ MuxCloseEnter(e, g) \/ MuxCloseSignal(e, g) \/ MuxCloseLock(e, g)
             \/ MuxCloseFinish(e, g)
    BY <2>3, MuxCloseCloser
  <2>4. CASE \/ HandleOpen(e) \/ HandlePayload(e) \/ HandleClose(e) \/ Push(e)
             \/ LoopResumes(e) \/ ReadFails(e)
    <3>1. UNCHANGED <<muxClose, streamMu, closedCh>>
      <4>1. HandleOpen(e) => UNCHANGED <<muxClose, streamMu, closedCh>>
        BY DEF HandleOpen, procs
      <4>2. HandlePayload(e) => UNCHANGED <<muxClose, streamMu, closedCh>>
        BY DEF HandlePayload, procs
      <4>3. HandleClose(e) => UNCHANGED <<muxClose, streamMu, closedCh>>
        BY DEF HandleClose, procs
      <4>4. Push(e) => UNCHANGED <<muxClose, streamMu, closedCh>>
        BY DEF Push, procs
      <4>5. LoopResumes(e) => UNCHANGED <<muxClose, streamMu, closedCh>>
        BY DEF LoopResumes, procs
      <4>6. ReadFails(e) => UNCHANGED <<muxClose, streamMu, closedCh>>
        BY DEF ReadFails, procs
      <4> QED BY <2>4, <4>1, <4>2, <4>3, <4>4, <4>5, <4>6
    <3>2. \A x \in Ends : loop[x].pc = "stop" => loop'[x].pc = "stop"
      <4>1. \A x \in Ends \ {e} : loop'[x] = loop[x]
        BY <2>4 DEF HandleOpen, HandlePayload, HandleClose, Push, LoopResumes, ReadFails,
                    Types, LoopTyped
      <4>2. loop[e].pc = "stop" => loop'[e].pc = "stop"
        BY <2>4 DEF HandleOpen, HandlePayload, HandleClose, HasFrame, Push, LoopResumes,
                    ReadFails
      <4> QED BY <4>1, <4>2
    <3> QED BY <3>1, <3>2, LoopCloser
  <2>5. CASE UNCHANGED <<muxClose, streamMu, closedCh, loop>>
    BY <2>5, LoopCloser
  <2> QED
    BY <2>2, <2>3, <2>4, <2>5
       DEF Step, OpenCheck, OpenRegister, OpenAnnounce, PushPanics, Close, CloseAnnounce,
           ShutStep, LeaveOnce, Send, ReadCheck, Receive, ReceiveEOF, MuxCloseStream,
           ServerExit, LinkBreaks, procs
<1>2. CASE UNCHANGED vars
  BY <1>2, LoopCloser DEF vars, procs
<1> QED BY <1>1, <1>2

\* SweepNotSelfBlocked: while Mux.Close sweeps nobody else has streamMu, no
\* writer can block on the connection, and a read loop that sweeps waits for
\* no Once it has itself.  What can hold a sweep up is the Close of a user, or,
\* on the client, the read loop for gatewayClient.Close.
THEOREM SweepWaits == Spec => []SweepNotSelfBlocked
<1>1. Init => CloserInv
  BY DEF Init, CloserInv, CloserAt, Closers
<1>2. MuxInv /\ CloserInv => SweepNotSelfBlocked
  <2> SUFFICES ASSUME MuxInv, CloserInv, NEW e \in Ends, NEW g \in Closers
               PROVE  /\ muxClose[e][g] = "sweeping" <=> streamMu[e] = g
                      /\ muxClose[e][g] = "sweeping" =>
                           /\ closedCh[e]
                           /\ \A id \in streams[e] :
                                owner[e][id] \in {"remote", "reject"} /\ st[e][id] # "done"
                                  => g = "app"
    BY DEF SweepNotSelfBlocked
  <2>1. muxClose[e][g] = "sweeping" /\ g # "app" => loop[e].pc = "stop"
    BY DEF CloserInv, CloserAt, Closers
  <2>2. ASSUME NEW id \in streams[e], owner[e][id] \in {"remote", "reject"}, st[e][id] # "done"
        PROVE  loop[e].pc \in {"close", "reject"}
    <3>1. id \in Ids /\ st[e][id] \in Stages
      BY DEF MuxInv, Types, TableTyped, StreamTyped
    <3>2. Stage(e, id)
      BY <3>1 DEF MuxInv, StageInv
    <3> QED BY <2>2, <3>1, <3>2 DEF Stage, Stages
  <2> QED BY <2>1, <2>2 DEF CloserInv, CloserAt
<1>3. MuxInv => Types
  BY DEF MuxInv
<1> QED BY <1>1, <1>2, <1>3, NextCloser, Invariant, PTL DEF Spec

-----------------------------------------------------------------------------
(* The promise of MuxLanes                                                 *)

\* The value Promise gives its variable closing.
ClosingOf == [e \in Ends |-> [id \in Ids |-> owner[e][id] \in {"local", "mux", "reject"}]]

\* At the start every lane is empty.
LEMMA PromiseInit == Init => Promise!Init
<1> SUFFICES ASSUME Init PROVE Promise!Init
  OBVIOUS
<1>1. /\ sent = [e \in Ends |-> [id \in Ids |-> [k \in Kinds |-> 0]]]
      /\ got = [e \in Ends |-> [id \in Ids |-> [k \in Kinds |-> 0]]]
      /\ reads = [e \in Ends |-> [id \in Ids |-> [k \in Kinds |-> 0]]]
  BY DEF Init
<1>2. ClosingOf = [e \in Ends |-> [id \in Ids |-> FALSE]]
  <2>1. owner = [e \in Ends |-> [id \in Ids |-> "nobody"]]
    BY DEF Init
  <2>2. \A e \in Ends, id \in Ids : (owner[e][id] \in {"local", "mux", "reject"}) = FALSE
    BY <2>1
  <2> QED
    BY <2>2 DEF ClosingOf
<1> QED
  BY <1>1, <1>2 DEF ClosingOf, Promise!Init, Promise!Ends, Ends

\* The lanes see a step that leaves all four of their variables alone.
LEMMA PromiseStutters ==
  ASSUME UNCHANGED <<sent, got, reads>>, \A e \in Ends, id \in Ids : Closing(e, id)' <=> Closing(e, id)
  PROVE  UNCHANGED Promise!lanes
<1>1. ClosingOf' = ClosingOf
  BY DEF ClosingOf, Closing
<1> QED
  BY <1>1 DEF ClosingOf, Promise!lanes

\* A payload written is a payload sent on its lane.
LEMMA PromiseSend ==
  ASSUME NEW e \in Ends, NEW id \in Ids, NEW k \in Kinds, Send(e, id, k)
  PROVE  Promise!Next
<1>1. sent' = [sent EXCEPT ![e][id][k] = @ + 1] /\ UNCHANGED <<got, reads, owner>>
  BY DEF Send, lane, stream
<1>2. Promise!Send(e, id, k)
  BY <1>1 DEF Promise!Send
<1> QED
  BY <1>2 DEF Promise!Next, Promise!Ends, Ends

\* A function of ends and ids that has gained one place where it is true.
LEMMA Raised ==
  ASSUME NEW r \in [Ends -> [Ids -> BOOLEAN]], NEW q \in [Ends -> [Ids -> BOOLEAN]],
         NEW e \in Ends, NEW id \in Ids,
         \A x \in Ends, i \in Ids : q[x][i] <=> (x = e /\ i = id) \/ r[x][i]
  PROVE  q = [r EXCEPT ![e][id] = TRUE]
<1>1. PICK s \in [Ends -> [Ids -> BOOLEAN]] : s = [r EXCEPT ![e][id] = TRUE]
  OBVIOUS
<1>2. \A x \in Ends, i \in Ids : s[x][i] <=> (x = e /\ i = id) \/ r[x][i]
  BY <1>1
<1>3. \A x \in Ends : q[x] = s[x]
  <2> SUFFICES ASSUME NEW x \in Ends PROVE q[x] = s[x]
    OBVIOUS
  <2>1. q[x] \in [Ids -> BOOLEAN] /\ s[x] \in [Ids -> BOOLEAN]
    OBVIOUS
  <2>2. \A i \in Ids : q[x][i] = s[x][i]
    BY <1>2, <2>1
  <2> QED
    BY <2>1, <2>2
<1> QED
  BY <1>1, <1>3

\* An end begins to close a stream.
LEMMA PromiseClose ==
  ASSUME Types, NEW e \in Ends, NEW id \in Ids, NEW o \in {"local", "mux", "reject"},
         owner' = [owner EXCEPT ![e][id] = o], UNCHANGED <<sent, got, reads>>
  PROVE  Promise!Next
<1>1. owner \in [Ends -> [Ids -> Owners]]
  BY DEF Types, StreamTyped
<1>2. ClosingOf \in [Ends -> [Ids -> BOOLEAN]] /\ ClosingOf' \in [Ends -> [Ids -> BOOLEAN]]
  <2>1. \A x \in Ends, i \in Ids : /\ (owner[x][i] \in {"local", "mux", "reject"}) \in BOOLEAN
                                  /\ (owner'[x][i] \in {"local", "mux", "reject"}) \in BOOLEAN
    OBVIOUS
  <2> QED
    BY <2>1 DEF ClosingOf
<1>3. ClosingOf' = [ClosingOf EXCEPT ![e][id] = TRUE]
  <2>1. PICK r \in [Ends -> [Ids -> BOOLEAN]], q \in [Ends -> [Ids -> BOOLEAN]] :
          r = ClosingOf /\ q = ClosingOf'
    BY <1>2
  <2>2. /\ \A x \in Ends, i \in Ids : r[x][i] <=> Closing(x, i)
        /\ \A x \in Ends, i \in Ids : q[x][i] <=> Closing(x, i)'
    BY <2>1 DEF ClosingOf, Closing
  <2>3. \A x \in Ends, i \in Ids : q[x][i] <=> (x = e /\ i = id) \/ r[x][i]
    BY <1>1, <2>2 DEF Closing
  <2> QED
    BY <2>1, <2>3, Raised
<1>4. Promise!BeginClose(e, id)
  BY <1>3 DEF ClosingOf, Promise!BeginClose
<1> QED
  BY <1>4 DEF Promise!Next, Promise!Ends, Ends

\* What a reader takes is the next payload, or a later one on a stream that
\* its end is closing.
LEMMA PromiseDeliver ==
  ASSUME MuxInv, NEW e \in Ends, NEW id \in Ids, NEW k \in Kinds, Receive(e, id, k)
  PROVE  Promise!Next
<1>a. /\ Types /\ Order(e, id, k) /\ Gapless(e, id, k) /\ Peer(e) \in Ends
  BY TwoEnds DEF MuxInv, LaneInv
<1>b. /\ queue[e][id][k] \in Seq(1..MaxSent) /\ queue[e][id][k] # <<>>
      /\ got' = [got EXCEPT ![e][id][k] = Head(queue[e][id][k])]
      /\ reads' = [reads EXCEPT ![e][id][k] = @ + 1] /\ UNCHANGED <<sent, owner>>
  BY <1>a DEF Types, LaneTyped, Receive, stream
<1>1. PICK q \in Seq(1..MaxSent) : q = queue[e][id][k] /\ Len(q) \in Nat \ {0} /\ Head(q) = q[1]
  BY <1>b, Taking
<1>2. PICK m \in Nat, s \in Nat, n \in Nat : /\ m = got[e][id][k] /\ s = sent[Peer(e)][id][k]
                                            /\ n = Head(q)
  <2>1. got[e][id][k] \in 0..MaxSent /\ sent[Peer(e)][id][k] \in 0..MaxSent
    BY <1>a DEF Types, LaneTyped, SentTyped
  <2>2. Head(q) \in 1..MaxSent
    BY <1>b, <1>1, Taking
  <2> QED
    BY <2>1, <2>2, MuxAssumption
<1>3. m < n /\ n <= s
  <2>1. 1 \in 1..Len(q)
    BY <1>1
  <2> QED
    BY <1>a, <1>1, <1>2, <2>1 DEF Order
<1>4. n = m + 1 \/ Closing(e, id)
  <2>1. 1 \in 1..Len(q)
    BY <1>1
  <2> QED
    BY <1>a, <1>1, <1>2, <2>1 DEF Gapless
<1>5. n \in (m + 1)..s
  BY <1>3
<1>6. n = m + 1 \/ ClosingOf[e][id]
  BY <1>4 DEF Closing, ClosingOf
<1>7. got' = [got EXCEPT ![e][id][k] = n]
  BY <1>b, <1>1, <1>2
<1>8. ClosingOf' = ClosingOf
  BY <1>b DEF ClosingOf
<1>9. Promise!Deliver(e, id, k)
  BY <1>b, <1>2, <1>5, <1>6, <1>7, <1>8 DEF Promise!Deliver, Promise!Peer, Peer, ClosingOf
<1> QED
  BY <1>9 DEF Promise!Next, Promise!Ends, Ends

\* Every step of the mux is a step of the promise, or none.
LEMMA PromiseNext == MuxInv /\ [Next]_vars => [Promise!Next]_(Promise!lanes)
<1> SUFFICES ASSUME MuxInv, [Next]_vars PROVE Promise!Next \/ UNCHANGED Promise!lanes
  OBVIOUS
<1>a. Types /\ \A x \in Ends, i \in Ids : Stage(x, i)
  BY DEF MuxInv, StageInv
<1>1. CASE UNCHANGED vars
  <2>1. UNCHANGED <<sent, got, reads, owner>>
    BY <1>1 DEF vars, lane, stream
  <2> QED
    BY <2>1, PromiseStutters DEF Closing
<1>2. CASE Next
  <2>1. PICK e \in Ends, id \in Ids, g \in Closers : \E k : Step(e, id, k, g)
    BY <1>2, Steps
  <2>2. PICK k : Step(e, id, k, g)
    BY <2>1
  <2>3. CASE k \in Kinds /\ Send(e, id, k)
    BY <2>3, PromiseSend
  <2>4. CASE k \in Kinds /\ Receive(e, id, k)
    BY <2>4, PromiseDeliver
  <2>5. CASE Close(e, id) \/ MuxCloseStream(e, g, id)
    <3>1. /\ \E o \in {"local", "mux", "reject"} : owner' = [owner EXCEPT ![e][id] = o]
          /\ UNCHANGED <<sent, got, reads>>
      BY <2>5 DEF Close, MuxCloseStream, lane
    <3> QED
      BY <1>a, <3>1, PromiseClose
  <2>6. CASE HandleOpen(e)
    <3>1. PICK f \in Frame : f = Head(wire[e]) /\ f.id \in Ids
      BY <1>a, <2>6, TakeTyped DEF HandleOpen, HasFrame, Frame
    <3>2. /\ owner' = owner \/ owner' = [owner EXCEPT ![e][f.id] = "reject"]
          /\ UNCHANGED <<sent, got, reads>>
      BY <2>6, <3>1 DEF HandleOpen, lane
    <3>3. CASE owner' = owner
      BY <3>2, <3>3, PromiseStutters DEF Closing
    <3>4. CASE owner' = [owner EXCEPT ![e][f.id] = "reject"]
      BY <1>a, <3>1, <3>2, <3>4, PromiseClose
    <3> QED
      BY <3>2, <3>3, <3>4
  <2>7. CASE HandleClose(e)
    <3>1. PICK f \in Frame : f = Head(wire[e]) /\ f.id \in Ids
      BY <1>a, <2>7, TakeTyped DEF HandleClose, HasFrame, Frame
    <3>2. /\ \/ owner' = owner
             \/ owner' = [owner EXCEPT ![e][f.id] = "remote"] /\ st[e][f.id] = "open"
          /\ UNCHANGED <<sent, got, reads>>
      BY <2>7, <3>1 DEF HandleClose, lane, stream
    <3>3. CASE owner' = owner
      BY <3>2, <3>3, PromiseStutters DEF Closing
    <3>4. CASE owner' = [owner EXCEPT ![e][f.id] = "remote"] /\ st[e][f.id] = "open"
      <4>1. owner[e][f.id] = "nobody"
        BY <1>a, <3>1, <3>4 DEF Stage
      <4>2. \A x \in Ends, i \in Ids : Closing(x, i)' <=> Closing(x, i)
        BY <1>a, <3>1, <3>4, <4>1 DEF Closing, Types, StreamTyped
      <4> QED
        BY <3>2, <4>2, PromiseStutters
    <3> QED
      BY <3>2, <3>3, <3>4
  <2>8. CASE \/ OpenCheck(e) \/ OpenRegister(e) \/ OpenAnnounce(e) \/ HandlePayload(e)
             \/ Push(e) \/ PushPanics(e) \/ LoopResumes(e) \/ ReadFails(e)
             \/ CloseAnnounce(e, id) \/ ShutStep(e, id) \/ LeaveOnce(e, id)
             \/ ReadCheck(e, id) \/ ReceiveEOF(e, id, k)
             \/ MuxCloseEnter(e, g) \/ MuxCloseSignal(e, g) \/ MuxCloseLock(e, g)
             \/ MuxCloseFinish(e, g) \/ ServerExit \/ LinkBreaks
    <3>1. UNCHANGED <<sent, got, reads, owner>>
      BY <2>8 DEF OpenCheck, OpenRegister, OpenAnnounce, HandlePayload, Push, PushPanics, LoopResumes,
         ReadFails, CloseAnnounce, ShutStep, LeaveOnce, ReadCheck, ReceiveEOF, MuxCloseEnter,
         MuxCloseSignal, MuxCloseLock, MuxCloseFinish, ServerExit, LinkBreaks, lane, stream
    <3> QED
      BY <3>1, PromiseStutters DEF Closing
  <2> QED
    BY <2>2, <2>3, <2>4, <2>5, <2>6, <2>7, <2>8 DEF Step
<1> QED
  BY <1>1, <1>2

\* KeepsPromise: the mux implements MuxLanes.  Every lane is read in order and
\* at most once, and without a gap until the reading end closes the stream.
THEOREM Promised == Spec => KeepsPromise
BY PromiseInit, PromiseNext, Invariant, PTL DEF Spec, KeepsPromise, Promise!Spec
=============================================================================
