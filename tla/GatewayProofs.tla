--------------------------- MODULE GatewayProofs ----------------------------
(***************************************************************************)
(* What the client does over its gateway connection.  GatewayRpc for any   *)
(* set of callers and any number of calls: types, every call answered with *)
(* its own answer or an error, one result per call, and who can be left    *)
(* waiting.  Forwards for any apps, ports and lists: types, and every      *)
(* listener the shell opens belongs to an entry or was dropped with one.   *)
(***************************************************************************)
EXTENDS GatewayRpc, Forwards, WellFoundedInduction, TLAPS

\* The messages of a lane, in no order.
Content(q) == {q[i] : i \in 1..Len(q)}
Carried == Content(requests) \cup Content(replies) \cup {serving}

\* Calls have distinct ids, and whatever carries the id of a current call
\* comes from the caller of that call.
Owned ==
  /\ \A c \in Callers : call[c] <= nextID
  /\ \A c \in Callers : pc[c] # "idle" => call[c] # 0
  /\ \A c, d \in Callers : call[c] = call[d] /\ call[c] # 0 => c = d
  /\ \A m \in Carried : m.id <= nextID
  /\ \A m \in Carried, c \in Callers : call[c] = m.id /\ m.id # 0 => m.from = c
  /\ \A c, d \in Callers : call[c] # 0 /\ ch[call[c]] = Answer(d) => c = d

\* Ids not handed out yet are unused.
Fresh ==
  /\ \A id \in CallIds : id > nextID => ch[id] = Empty
  /\ \A id \in pending : id <= nextID

\* A request on its way to SendMsg has no message in flight; it and every
\* call sent before the control stream began to close is still pending, as
\* long as it has no result and the reader has not stopped.
Tracked ==
  /\ control \in {"open", "leaving"} => responses = "receive"
  /\ \A c \in Callers, m \in Carried : pc[c] = "sending" => m.id # call[c]
  /\ \A c \in Callers :
       pc[c] = "sending" /\ responses # "stopped" => call[c] \in pending
  /\ \A c \in Callers :
       pc[c] = "waiting" /\ ch[call[c]] = Empty /\ call[c] \notin late
         => call[c] \in pending /\ responses # "stopped"

IInv == TypeOK /\ Owned /\ Fresh /\ Tracked /\ AnswersItsCaller /\ OneResultPerCall

-----------------------------------------------------------------------------
\* Appending a message adds it to the content of a lane.
LEMMA ContentAppend ==
  ASSUME NEW S, NEW q \in Seq(S), NEW m \in S
  PROVE  Content(Append(q, m)) = Content(q) \cup {m}
  BY DEF Content

\* Taking the head adds nothing.
LEMMA ContentTail ==
  ASSUME NEW S, NEW q \in Seq(S), q # <<>>
  PROVE  Content(Tail(q)) \subseteq Content(q) /\ Head(q) \in Content(q) /\ Head(q) \in S
  BY DEF Content

\* What is in a lane is a message.
LEMMA ContentType ==
  ASSUME NEW S, NEW q \in Seq(S)
  PROVE  Content(q) \subseteq S
  BY DEF Content

\* Only the lanes and the request being served carry messages.
LEMMA CarriedType == TypeOK => Carried \subseteq Messages \cup {None}
  BY ContentType DEF TypeOK, Carried

-----------------------------------------------------------------------------
\* Init establishes it.
LEMMA InitIInv == Init => IInv
<1> SUFFICES ASSUME Init PROVE IInv
  OBVIOUS
<1> USE DEF Init
<1>1. TypeOK
  <2>1. ch \in [CallIds -> Results] /\ result \in [Callers -> Results]
    BY DEF Results
  <2>2. requests \in Seq(Messages) /\ replies \in Seq(Messages)
    OBVIOUS
  <2>3. nextID \in 0..MaxCalls /\ call \in [Callers -> 0..MaxCalls]
    BY RpcAssumption
  <2> QED
    BY <2>1, <2>2, <2>3 DEF TypeOK
<1>2. Carried = {None}
  BY DEF Carried, Content
<1>3. Owned
  BY <1>2 DEF Owned, None
<1>4. Fresh /\ Tracked /\ AnswersItsCaller /\ OneResultPerCall
  BY <1>2 DEF Fresh, Tracked, AnswersItsCaller, OneResultPerCall
<1> QED
  BY <1>1, <1>3, <1>4 DEF IInv

\* The steps of closing and of the connection: they name no call.
QuietClose ==
  \/ CloseGateway \/ CloseStep \/ SweepHangs \/ ConnBreaks
  \/ \E end \in Ends : Block(end) \/ Unblock(end)

\* Every action keeps the variables' types: ids stay within the counter, the
\* lanes carry messages, a channel holds a result or nothing.  A request is
\* a message because its caller has drawn an id.
LEMMA NextTypeOK == TypeOK /\ Owned /\ [Next]_vars => TypeOK'
<1> SUFFICES ASSUME TypeOK, Owned, [Next]_vars PROVE TypeOK'
  OBVIOUS
<1> USE RpcAssumption DEF CallIds, vars, client, closers, server
<1>1. ASSUME NEW c \in Callers, Register(c) PROVE TypeOK'
  BY <1>1 DEF TypeOK, Register
<1>2. ASSUME NEW c \in Callers, SendRequest(c) PROVE TypeOK'
  <2>1. [id |-> call[c], from |-> c] \in Messages /\ call[c] \in CallIds
    BY <1>2 DEF TypeOK, SendRequest, Messages, Owned
  <2>2. requests' \in Seq(Messages)
    <3>1. requests \in Seq(Messages)
      BY DEF TypeOK
    <3>2. requests' = Append(requests, [id |-> call[c], from |-> c])
      BY <1>2 DEF SendRequest
    <3> QED
      BY <2>1, <3>1, <3>2
  <2>4. late' \in SUBSET CallIds
    BY <1>2, <2>1 DEF TypeOK, SendRequest
  <2>3. pc' \in [Callers -> {"idle", "sending", "waiting", "done"}]
    BY <1>2 DEF TypeOK, SendRequest
  <2> QED
    BY <1>2, <2>2, <2>3, <2>4 DEF TypeOK, SendRequest
<1>3. ASSUME NEW c \in Callers, SendFails(c) PROVE TypeOK'
  <2>1. result' \in [Callers -> Results]
    BY <1>3 DEF TypeOK, SendFails, Results
  <2> QED
    BY <1>3, <2>1 DEF TypeOK, SendFails
<1>4. ASSUME NEW c \in Callers, Return(c) PROVE TypeOK'
  <2>1. ch[call[c]] \in Results
    BY <1>4 DEF TypeOK, Return, Owned
  <2> QED
    BY <1>4, <2>1 DEF TypeOK, Return
<1>5. CASE ReadResponse
  <2>1. Head(replies) \in Messages /\ Tail(replies) \in Seq(Messages)
    BY <1>5 DEF TypeOK, ReadResponse
  <2>2. Head(replies).id \in CallIds /\ Answer(Head(replies).from) \in Results
    BY <2>1 DEF Messages, Results, Answer
  <2>3. ch' \in [CallIds -> Results] /\ pending' \in SUBSET CallIds
    BY <1>5, <2>2 DEF TypeOK, ReadResponse
  <2> QED
    BY <1>5, <2>1, <2>3 DEF TypeOK, ReadResponse
<1>6. CASE ReadEOF
  BY <1>6 DEF TypeOK, ReadEOF
<1>7. CASE FailAll
  <2>1. ch' \in [CallIds -> Results]
    BY <1>7 DEF TypeOK, FailAll, Results
  <2> QED
    BY <1>7, <2>1 DEF TypeOK, FailAll
<1>8. CASE ServerTakes
  <2>1. Head(requests) \in Messages /\ Tail(requests) \in Seq(Messages)
    BY <1>8 DEF TypeOK, ServerTakes
  <2> QED
    BY <1>8, <2>1 DEF TypeOK, ServerTakes
<1>9. CASE ServerReplies
  BY <1>9 DEF TypeOK, ServerReplies
<1>10. CASE ServerReplyTooLarge
  <2>1. serving.id \in CallIds
    BY <1>10 DEF TypeOK, ServerReplyTooLarge, Messages
  <2> QED
    BY <1>10, <2>1 DEF TypeOK, ServerReplyTooLarge
<1>11. CASE QuietClose
  <2>1. CASE CloseGateway \/ CloseStep \/ SweepHangs \/ ConnBreaks
    BY <1>11, <2>1 DEF TypeOK, CloseStep, CloseGateway, CloseWritten, SetClosedFlag,
       CloseMux, RemoteClose, SweepHangs, ConnBreaks
  <2>2. ASSUME NEW end \in Ends, Block(end) \/ Unblock(end) PROVE TypeOK'
    BY <2>2 DEF TypeOK, Block, Unblock
  <2> QED
    BY <1>11, <2>1, <2>2 DEF QuietClose
<1>12. CASE UNCHANGED vars
  BY <1>12 DEF TypeOK
<1> QED
  BY <1>1, <1>2, <1>3, <1>4, <1>5, <1>6, <1>7, <1>8, <1>9, <1>10, <1>11, <1>12
     DEF Next, CallerStep, ServerStep, ReaderStep, CloseStep, QuietClose

-----------------------------------------------------------------------------
\* SendRequest puts its message in flight.
LEMMA SendCarries ==
  ASSUME TypeOK, TypeOK', NEW c \in Callers, SendRequest(c)
  PROVE  Carried' = Carried \cup {[id |-> call[c], from |-> c]}
<1> DEFINE m == [id |-> call[c], from |-> c]
<1>1. requests \in Seq(Messages) /\ requests' \in Seq(Messages)
  BY DEF TypeOK
<1>2. requests' = Append(requests, m)
  BY DEF SendRequest
<1>3. m \in Messages
  <2>1. requests'[Len(requests')] = m /\ Len(requests') \in 1..Len(requests')
    BY <1>1, <1>2
  <2> QED
    BY <1>1, <2>1
<1>4. Content(requests') = Content(requests) \cup {m}
  BY <1>1, <1>2, <1>3, ContentAppend
<1>5. replies' = replies /\ serving' = serving
  BY DEF SendRequest, server
<1> QED
  BY <1>4, <1>5 DEF Carried, Content

\* No other step puts a new message in flight.
LEMMA CarriedStep ==
  ASSUME TypeOK, TypeOK', Next, ~ \E c \in Callers : SendRequest(c)
  PROVE  Carried' \subseteq Carried \cup {None}
<1> USE DEF client, closers, server
<1>2. CASE ReadResponse
  <2>1. Content(replies') \subseteq Content(replies)
    BY <1>2, ContentTail DEF ReadResponse, TypeOK
  <2>2. Content(requests') = Content(requests) /\ serving' = serving
    BY <1>2 DEF ReadResponse, Content
  <2> QED
    BY <2>1, <2>2 DEF Carried
<1>3. CASE ServerTakes
  <2>1. Content(requests') \subseteq Content(requests) /\ serving' \in Content(requests)
    BY <1>3, ContentTail DEF ServerTakes, TypeOK
  <2>2. Content(replies') = Content(replies)
    BY <1>3 DEF ServerTakes, Content
  <2> QED
    BY <2>1, <2>2 DEF Carried
<1>4. CASE ServerReplies
  <2>1. Content(replies') = Content(replies) \cup {serving}
    BY <1>4, ContentAppend DEF ServerReplies, TypeOK
  <2>2. Content(requests') = Content(requests) /\ serving' = None
    BY <1>4 DEF ServerReplies, Content
  <2> QED
    BY <2>1, <2>2 DEF Carried
<1>5. CASE ServerReplyTooLarge
  BY <1>5 DEF ServerReplyTooLarge, Carried, Content
<1>6. CASE requests' = requests /\ replies' = replies /\ serving' = serving
  BY <1>6 DEF Carried, Content
<1> QED
  <2>1. CASE \E c \in Callers : Register(c) \/ SendFails(c) \/ Return(c)
    BY <1>6, <2>1 DEF Register, SendFails, Return
  <2>2. CASE ReadEOF \/ FailAll \/ QuietClose
    BY <1>6, <2>2 DEF ReadEOF, FailAll, QuietClose, CloseStep, CloseGateway, CloseWritten,
       SetClosedFlag, CloseMux, RemoteClose, SweepHangs, ConnBreaks, Block, Unblock
  <2> QED
    BY <1>2, <1>3, <1>4, <1>5, <2>1, <2>2
       DEF Next, CallerStep, ServerStep, ReaderStep, QuietClose

-----------------------------------------------------------------------------
\* What the message clauses of the invariant need to know of Carried.
LEMMA CarriedIds == TypeOK => \A m \in Carried : m.id \in 0..MaxCalls
  BY CarriedType, RpcAssumption DEF Messages, None, CallIds

\* A caller draws an id nobody has used: no call, message, entry or result
\* carries it yet.
LEMMA RegisterIInv ==
  ASSUME IInv, TypeOK', NEW c \in Callers, Register(c), Carried' \subseteq Carried \cup {None}
  PROVE  IInv'
<1> USE RpcAssumption DEF IInv, CallIds
<1>1. /\ nextID' = nextID + 1 /\ nextID \in 0..MaxCalls
      /\ pending' = pending \cup {nextID + 1} /\ nextID + 1 \in CallIds
      /\ call' = [call EXCEPT ![c] = nextID + 1] /\ call \in [Callers -> 0..MaxCalls]
      /\ pc' = [pc EXCEPT ![c] = "sending"]
      /\ pc \in [Callers -> {"idle", "sending", "waiting", "done"}]
      /\ ch' = ch /\ result' = result /\ responses' = responses
      /\ control' = control /\ late' = late
  BY DEF Register, TypeOK, closers
<1>2. \A m \in Carried' : m.id <= nextID /\ m.id \in 0..MaxCalls
  BY CarriedIds, <1>1 DEF Owned, None
<1>3. \A m \in Carried' : m \in Carried \/ m.id = 0
  BY DEF None
<1>4. Owned'
  <2>1. \A d \in Callers : call[d] <= nextID
    BY DEF Owned
  <2>2. (\A d, e \in Callers : call[d] = call[e] /\ call[d] # 0 => d = e)'
    BY <1>1, <2>1 DEF Owned
  <2>3. (\A m \in Carried, d \in Callers : call[d] = m.id /\ m.id # 0 => m.from = d)'
    BY <1>1, <1>2, <1>3 DEF Owned
  <2>4. (\A d, e \in Callers : call[d] # 0 /\ ch[call[d]] = Answer(e) => d = e)'
    <3>1. ch[nextID + 1] = Empty
      BY <1>1 DEF Fresh
    <3>2. \A e \in Callers : Answer(e) # Empty
      BY DEF Answer, Empty
    <3> QED
      BY <1>1, <3>1, <3>2 DEF Owned
  <2>5. (\A d \in Callers : call[d] <= nextID)'
    BY <1>1, <2>1
  <2>6. (\A d \in Callers : pc[d] # "idle" => call[d] # 0)'
    BY <1>1 DEF Owned
  <2>7. (\A m \in Carried : m.id <= nextID)'
    BY <1>1, <1>2
  <2> QED
    BY <2>2, <2>3, <2>4, <2>5, <2>6, <2>7 DEF Owned
<1>5. Fresh'
  <2>1. pending \subseteq CallIds
    BY DEF TypeOK
  <2>2. (\A id \in CallIds : id > nextID => ch[id] = Empty)'
    BY <1>1 DEF Fresh
  <2>3. (\A id \in pending : id <= nextID)'
    BY <1>1, <2>1 DEF Fresh
  <2> QED
    BY <2>2, <2>3 DEF Fresh
<1>6. Tracked'
  BY <1>1, <1>2, <1>3 DEF Tracked, Owned
<1>7. AnswersItsCaller' /\ OneResultPerCall'
  BY <1>1 DEF AnswersItsCaller, OneResultPerCall, Fresh
<1> QED
  BY <1>4, <1>5, <1>6, <1>7

\* The request goes out under its caller's own id; unless the stream has
\* begun to close, the reader is still there to take the answer.
LEMMA SendRequestIInv ==
  ASSUME IInv, TypeOK', NEW c \in Callers, SendRequest(c),
         Carried' = Carried \cup {[id |-> call[c], from |-> c]}
  PROVE  IInv'
<1> USE RpcAssumption DEF IInv, CallIds
<1>1. /\ pc[c] = "sending" /\ pc' = [pc EXCEPT ![c] = "waiting"]
      /\ pc \in [Callers -> {"idle", "sending", "waiting", "done"}]
      /\ call \in [Callers -> 0..MaxCalls]
      /\ nextID' = nextID /\ pending' = pending /\ ch' = ch /\ call' = call
      /\ result' = result /\ responses' = responses /\ control' = control
      /\ control # "shut" /\ control \in {"open", "leaving", "signalled", "shut"}
  BY DEF SendRequest, TypeOK, closers
<1>2. late \subseteq late' /\ (control = "signalled" => call[c] \in late')
  BY DEF SendRequest
<1>3. Owned'
  BY <1>1 DEF Owned
<1>4. Fresh'
  BY <1>1 DEF Fresh
<1>5. Tracked'
  BY <1>1, <1>2 DEF Tracked, Owned
<1>6. AnswersItsCaller' /\ OneResultPerCall'
  BY <1>1 DEF AnswersItsCaller, OneResultPerCall
<1> QED
  BY <1>3, <1>4, <1>5, <1>6

\* A call ends with what its channel held, and that is its own answer.
LEMMA EndsIInv ==
  ASSUME IInv, TypeOK', NEW c \in Callers, SendFails(c) \/ Return(c),
         Carried' \subseteq Carried \cup {None}
  PROVE  IInv'
<1> USE RpcAssumption DEF IInv, CallIds
<1>1. /\ pc[c] \in {"sending", "waiting"} /\ pc' = [pc EXCEPT ![c] = "done"]
      /\ pc \in [Callers -> {"idle", "sending", "waiting", "done"}]
      /\ call \in [Callers -> 0..MaxCalls] /\ result \in [Callers -> Results]
      /\ nextID' = nextID /\ pending' = pending /\ ch' = ch /\ call' = call
      /\ responses' = responses /\ control' = control /\ late' = late
  BY DEF SendFails, Return, TypeOK, closers
<1>2. nextID \in 0..MaxCalls /\ pending \subseteq CallIds
  BY DEF TypeOK
<1>3. \A m \in Carried' : m.id <= nextID
  BY CarriedIds, <1>2 DEF Owned, None
<1>4. Owned'
  BY <1>1, <1>3 DEF Owned, None
<1>5. Fresh' /\ OneResultPerCall'
  BY <1>1 DEF Fresh, OneResultPerCall
<1>6. Tracked'
  <2>1. (\A d \in Callers, m \in Carried : pc[d] = "sending" => m.id # call[d])'
    BY <1>1 DEF Tracked, Owned, None
  <2> QED
    BY <1>1, <2>1 DEF Tracked
<1>7. AnswersItsCaller'
  <2>1. CASE SendFails(c)
    BY <1>1, <2>1 DEF SendFails, AnswersItsCaller
  <2>2. CASE Return(c)
    <3>1. result' = [result EXCEPT ![c] = ch[call[c]]] /\ pc[c] = "waiting"
      BY <2>2 DEF Return
    <3>2. call[c] # 0 /\ ch[call[c]] \in Results
      BY <1>1, <3>1 DEF Owned, TypeOK
    <3>3. ch[call[c]] \in {Failed, Empty} \/ \E d \in Callers : ch[call[c]] = Answer(d)
      BY <3>2 DEF Results, Answer
    <3>4. ch[call[c]] \in {Answer(c), Failed, Empty}
      BY <3>2, <3>3 DEF Owned
    <3> QED
      BY <1>1, <3>1, <3>4 DEF AnswersItsCaller
  <2> QED
    BY <2>1, <2>2
<1> QED
  BY <1>4, <1>5, <1>6, <1>7

\* A response is for the call whose id it carries; that call is past SendMsg.
LEMMA ReadResponseIInv ==
  ASSUME IInv, TypeOK', ReadResponse, Carried' \subseteq Carried \cup {None}
  PROVE  IInv'
<1> USE RpcAssumption DEF IInv, CallIds
<1> DEFINE r == Head(replies)
<1>1. /\ nextID' = nextID /\ pc' = pc /\ call' = call /\ result' = result
      /\ responses' = responses /\ control' = control /\ late' = late
      /\ call \in [Callers -> 0..MaxCalls] /\ ch \in [1..MaxCalls -> Results]
  BY DEF ReadResponse, TypeOK, closers
<1>2. r \in Carried /\ r \in Messages
  BY ContentTail DEF ReadResponse, TypeOK, Carried
<1>3. r.id \in 1..MaxCalls /\ r.from \in Callers
  BY <1>2 DEF Messages
<1>4. \/ pending' = pending /\ ch' = ch
      \/ /\ pending' = pending \ {r.id} /\ r.id \in pending
         /\ ch' = [ch EXCEPT ![r.id] = Answer(r.from)]
  BY DEF ReadResponse
<1>5. Answer(r.from) # Empty
  BY DEF Answer, Empty
<1>6. nextID \in 0..MaxCalls /\ pending \subseteq CallIds
  BY DEF TypeOK
<1>7. \A m \in Carried' : m.id <= nextID
  BY CarriedIds, <1>1, <1>6 DEF Owned, None
<1>8. Owned'
  <2>1. \A d, e \in Callers : Answer(d) = Answer(e) => d = e
    BY DEF Answer
  <2>2. (\A d, e \in Callers : call[d] # 0 /\ ch[call[d]] = Answer(e) => d = e)'
    BY <1>1, <1>2, <1>3, <1>4, <2>1 DEF Owned
  <2> QED
    BY <1>1, <1>7, <2>2 DEF Owned, None
<1>9. Fresh' /\ OneResultPerCall'
  <2>1. r.id <= nextID
    BY <1>2 DEF Owned
  <2>2. CASE pending' = pending /\ ch' = ch
    BY <1>1, <2>2 DEF Fresh, OneResultPerCall
  <2>3. CASE pending' = pending \ {r.id} /\ ch' = [ch EXCEPT ![r.id] = Answer(r.from)]
    <3>1. \A id \in CallIds : id # r.id => ch'[id] = ch[id]
      BY <1>1, <2>3
    <3> QED
      BY <1>1, <1>6, <2>1, <2>3, <3>1 DEF Fresh, OneResultPerCall
  <2> QED
    BY <1>4, <2>2, <2>3
<1>10. Tracked'
  <2>1. (\A c \in Callers, m \in Carried : pc[c] = "sending" => m.id # call[c])'
    BY <1>1 DEF Tracked, Owned, None
  <2>2. (\A c \in Callers : pc[c] = "sending" /\ responses # "stopped" => call[c] \in pending)'
    BY <1>1, <1>2, <1>4 DEF Tracked
  <2>3. (\A c \in Callers :
           pc[c] = "waiting" /\ ch[call[c]] = Empty /\ call[c] \notin late
             => call[c] \in pending /\ responses # "stopped")'
    <3> SUFFICES ASSUME NEW c \in Callers,
                        (pc[c] = "waiting" /\ ch[call[c]] = Empty /\ call[c] \notin late)'
                 PROVE  (call[c] \in pending /\ responses # "stopped")'
      OBVIOUS
    <3>1. call[c] \in 1..MaxCalls
      BY <1>1 DEF Owned
    <3>2. ch[call[c]] = Empty /\ (call[c] \in pending => call[c] \in pending')
      <4>1. ch'[call[c]] = Empty
        BY <1>1
      <4>2. ASSUME ch' = [ch EXCEPT ![r.id] = Answer(r.from)]
            PROVE  call[c] # r.id /\ ch[call[c]] = Empty
        BY <1>1, <1>5, <3>1, <4>1, <4>2
      <4> QED
        BY <1>4, <4>1, <4>2
    <3> QED
      BY <1>1, <1>4, <3>2 DEF Tracked
  <2> QED
    BY <1>1, <2>1, <2>2, <2>3 DEF Tracked
<1>11. AnswersItsCaller'
  BY <1>1 DEF AnswersItsCaller
<1> QED
  BY <1>8, <1>9, <1>10, <1>11

\* failAll empties pending: whoever waits finds an error in its channel.
LEMMA FailAllIInv ==
  ASSUME IInv, TypeOK', FailAll, Carried' \subseteq Carried \cup {None}
  PROVE  IInv'
<1> USE RpcAssumption DEF IInv, CallIds
<1>1. /\ nextID' = nextID /\ pc' = pc /\ call' = call /\ result' = result
      /\ responses = "failing" /\ responses' = "stopped" /\ control' = control
      /\ late' = late /\ pending' = {} /\ call \in [Callers -> 0..MaxCalls]
      /\ ch' = [id \in 1..MaxCalls |-> IF id \in pending THEN Failed ELSE ch[id]]
  BY DEF FailAll, TypeOK, closers
<1>2. nextID \in 0..MaxCalls
  BY DEF TypeOK
<1>3. \A m \in Carried' : m.id <= nextID
  BY CarriedIds, <1>1, <1>2 DEF Owned, None
<1>4. \A c \in Callers : Answer(c) # Failed
  BY DEF Answer, Failed
<1>5. Failed # Empty
  BY DEF Failed, Empty
<1>6. Owned'
  <2>1. (\A d, e \in Callers : call[d] # 0 /\ ch[call[d]] = Answer(e) => d = e)'
    BY <1>1, <1>4 DEF Owned
  <2> QED
    BY <1>1, <1>3, <2>1 DEF Owned, None
<1>7. Fresh' /\ OneResultPerCall'
  BY <1>1, <1>2 DEF Fresh, OneResultPerCall
<1>8. Tracked'
  <2>1. (\A c \in Callers, m \in Carried : pc[c] = "sending" => m.id # call[c])'
    BY <1>1 DEF Tracked, Owned, None
  <2>2. control \notin {"open", "leaving"}
    BY <1>1 DEF Tracked
  <2>3. \A c \in Callers :
          pc[c] = "waiting" /\ ch'[call[c]] = Empty => call[c] \in late
    BY <1>1, <1>5 DEF Tracked, Owned
  <2> QED
    BY <1>1, <2>1, <2>2, <2>3 DEF Tracked
<1>9. AnswersItsCaller'
  BY <1>1 DEF AnswersItsCaller
<1> QED
  BY <1>6, <1>7, <1>8, <1>9

\* The remaining steps leave calls, channels and results alone.
QuietStep == ReadEOF \/ QuietClose \/ ServerStep

\* A step of the connection or the server, which names no call that was not named.
LEMMA QuietIInv ==
  ASSUME IInv, TypeOK', QuietStep, Carried' \subseteq Carried \cup {None}
  PROVE  IInv'
<1> USE RpcAssumption DEF IInv, CallIds
<1>1. /\ nextID' = nextID /\ pc' = pc /\ call' = call /\ result' = result
      /\ late' = late /\ pending' = pending /\ ch' = ch
      /\ call \in [Callers -> 0..MaxCalls] /\ nextID \in 0..MaxCalls
  BY DEF TypeOK, client, QuietStep, QuietClose, CloseStep, ReadEOF, CloseGateway, CloseWritten,
     SetClosedFlag, CloseMux, RemoteClose, SweepHangs, ConnBreaks, Block, Unblock, ServerStep, ServerTakes, ServerReplies, ServerReplyTooLarge
<1>2. /\ responses' = "stopped" <=> responses = "stopped"
      /\ control' \in {"open", "leaving"} =>
           control \in {"open", "leaving"} /\ responses' = responses
  BY DEF closers, client, QuietStep, QuietClose, CloseStep, ReadEOF, CloseGateway,
     CloseWritten, SetClosedFlag, CloseMux, RemoteClose, SweepHangs, ConnBreaks, Block,
     Unblock, ServerStep, ServerTakes, ServerReplies, ServerReplyTooLarge
<1>3. \A m \in Carried' : m.id <= nextID
  BY CarriedIds, <1>1 DEF Owned, None
<1>4. Owned'
  BY <1>1, <1>3 DEF Owned, None
<1>5. Fresh' /\ OneResultPerCall' /\ AnswersItsCaller'
  BY <1>1 DEF Fresh, OneResultPerCall, AnswersItsCaller
<1>6. Tracked'
  <2>1. (\A c \in Callers, m \in Carried : pc[c] = "sending" => m.id # call[c])'
    BY <1>1 DEF Tracked, Owned, None
  <2>2. (control \in {"open", "leaving"} => responses = "receive")'
    BY <1>2 DEF Tracked
  <2>3. \A c \in Callers : pc[c] = "sending" /\ responses' # "stopped" => call[c] \in pending
    BY <1>2 DEF Tracked
  <2>4. \A c \in Callers :
          pc[c] = "waiting" /\ ch[call[c]] = Empty /\ call[c] \notin late
            => call[c] \in pending /\ responses' # "stopped"
    BY <1>2 DEF Tracked
  <2> QED
    BY <1>1, <2>1, <2>2, <2>3, <2>4 DEF Tracked
<1> QED
  BY <1>4, <1>5, <1>6

\* Every step keeps it.
LEMMA NextIInv == IInv /\ [Next]_vars => IInv'
<1> SUFFICES ASSUME IInv, [Next]_vars PROVE IInv'
  OBVIOUS
<1>1. TypeOK'
  BY NextTypeOK DEF IInv
<1>2. CASE UNCHANGED vars
  <2>1. Carried' = Carried
    BY <1>2 DEF vars, server, Carried, Content
  <2> QED
    BY <1>1, <1>2, <2>1 DEF IInv, vars, client, closers, server, Owned, Fresh, Tracked,
       AnswersItsCaller, OneResultPerCall
<1>3. CASE Next
  <2>1. CASE \E c \in Callers : SendRequest(c)
    BY <1>1, <2>1, SendCarries, SendRequestIInv DEF IInv
  <2>2. CASE ~ \E c \in Callers : SendRequest(c)
    <3>1. Carried' \subseteq Carried \cup {None}
      BY <1>1, <1>3, <2>2, CarriedStep DEF IInv
    <3>2. ASSUME NEW c \in Callers, Register(c) PROVE IInv'
      BY <1>1, <3>1, <3>2, RegisterIInv
    <3>3. ASSUME NEW c \in Callers, SendFails(c) \/ Return(c) PROVE IInv'
      BY <1>1, <3>1, <3>3, EndsIInv
    <3>4. CASE ReadResponse
      BY <1>1, <3>1, <3>4, ReadResponseIInv
    <3>5. CASE FailAll
      BY <1>1, <3>1, <3>5, FailAllIInv
    <3>6. CASE QuietStep
      BY <1>1, <3>1, <3>6, QuietIInv
    <3> QED
      BY <1>3, <2>2, <3>2, <3>3, <3>4, <3>5, <3>6
         DEF Next, CallerStep, ReaderStep, QuietStep, QuietClose
  <2> QED
    BY <2>1, <2>2
<1> QED
  BY <1>2, <1>3

-----------------------------------------------------------------------------
\* The variables keep their types for any number of callers and calls.
THEOREM Typing == Spec => []TypeOK
<1>1. IInv => TypeOK
  BY DEF IInv
<1> QED
  BY <1>1, InitIInv, NextIInv, PTL DEF Spec

\* Whatever order requests, responses and failures take, an rpc returns the
\* answer to its own request or an error.
THEOREM OwnAnswer == Spec => []AnswersItsCaller
<1>1. IInv => AnswersItsCaller
  BY DEF IInv
<1> QED
  BY <1>1, InitIInv, NextIInv, PTL DEF Spec

\* readResponses and failAll never block on a call's channel.
THEOREM OneResult == Spec => []OneResultPerCall
<1>1. IInv => OneResultPerCall
  BY DEF IInv
<1> QED
  BY <1>1, InitIInv, NextIInv, PTL DEF Spec

\* Once readResponses has stopped, only a call that slipped between the
\* closing of closeCh and the closed flag still waits.
THEOREM OnlyLateStranded == Spec => []OnlyLateCallsStranded
<1>1. IInv => OnlyLateCallsStranded
  BY DEF IInv, Tracked, OnlyLateCallsStranded
<1> QED
  BY <1>1, InitIInv, NextIInv, PTL DEF Spec

-----------------------------------------------------------------------------
(* The app list and the port forwards: module Forwards.                    *)

-----------------------------------------------------------------------------
(* The invariant                                                           *)

Entry == [port : Ports \cup {NoPort}, ok : BOOLEAN]

\* A map of forwards with the ports the shell listens on: each listener is that
\* of one entry, or its entry was dropped.
Accounted(fwd, listens, dropped, others) ==
  /\ fwd \in [Apps -> Entry] /\ listens \subseteq Ports /\ dropped \subseteq Ports
  /\ \A p \in Ports : p \in listens <=>
         p \in dropped \/ \E a \in Apps : fwd[a].ok /\ fwd[a].port = p
  /\ \A a, b \in Apps : fwd[a].ok /\ fwd[b].ok /\ fwd[a].port = fwd[b].port => a = b
  /\ \A a \in Apps : fwd[a].ok =>
         fwd[a].port \in Ports /\ fwd[a].port \notin dropped \cup others

Kept(acc) == Accounted(acc.fwd, acc.listening, acc.orphans, busy)

\* The manager was told to stop before it did.
Told == mgr = "stopped" => stopCh /\ \A a \in Apps : ~forwards[a].ok

StreamTyped ==
  /\ table \in [Apps -> Ports \cup {NoPort}] /\ lastSent \in Lists
  /\ wire \in Seq(Lists) /\ link \in {"up", "down"}
  /\ reader \in [pc : {"off", "receive", "offer", "drain", "again"},
                 list : Lists \cup {Broken}]
  /\ box \in Seq(Lists \cup {Broken}) /\ Len(box) <= 1
ManagerTyped ==
  /\ mgr \in ManagerStates /\ stopCh \in BOOLEAN /\ stuck \in BOOLEAN
  /\ busy \subseteq Ports /\ lastBy \in {"stream", "shell"}
  /\ refresh \in [Refreshes -> [pc : {"off", "fetch"}, list : Lists]]

ForwardsInv ==
  StreamTyped /\ ManagerTyped /\ Accounted(forwards, listening, orphans, busy) /\ Told

-----------------------------------------------------------------------------
(* syncFromSnapshots                                                       *)

\* A set of numbers has a least one.
LEMMA LeastNumber ==
  ASSUME NEW S \in SUBSET Nat, S # {}
  PROVE  \E n \in S : \A m \in S : n <= m
<1>2. PICK q \in S : \A r \in S : ~ (<<r, q>> \in OpToRel(<, Nat))
  BY NatLessThanWellFounded, WFMin
<1>3. \A r \in S : ~ (r < q)
  BY <1>2 DEF OpToRel
<1> QED
  BY <1>3

\* The loop over the list is the function it is written as: there is one, by
\* induction on its length.
LEMMA SyncingIs ==
  ASSUME NEW list
  PROVE  Syncing(list) =
           [i \in 0..Len(Order) |->
              IF i = 0 THEN CloseUnlisted(list)
                       ELSE SyncApp(Syncing(list)[i - 1], Order[i], list[Order[i]])]
<1> DEFINE b == CloseUnlisted(list)
           step(x, i) == SyncApp(x, Order[i], list[Order[i]])
           Is(g, n) == g = [i \in 0..n |-> IF i = 0 THEN b ELSE step(g[i - 1], i)]
           Lacking == {n \in Nat : ~ \E g : Is(g, n)}
<1> HIDE DEF b, step
<1>1. \E g : Is(g, 0)
  <2>1. Is([i \in 0..0 |-> b], 0)
    OBVIOUS
  <2> QED BY <2>1
<1>2. ASSUME NEW n \in Nat, NEW g, Is(g, n)
      PROVE  \E h : Is(h, n + 1)
  <2> DEFINE h == [i \in 0..(n + 1) |-> IF i <= n THEN g[i] ELSE step(g[n], n + 1)]
  <2>1. \A i \in 0..(n + 1) : h[i] = IF i = 0 THEN b ELSE step(h[i - 1], i)
    <3> TAKE i \in 0..(n + 1)
    <3>1. CASE i = n + 1
      <4>1. h[n] = g[n] /\ h[n + 1] = step(g[n], n + 1)
        OBVIOUS
      <4> QED BY <3>1, <4>1
    <3>2. CASE i \in 0..n
      <4>1. h[i] = g[i] /\ (i # 0 => i - 1 \in 0..n /\ h[i - 1] = g[i - 1])
        BY <3>2
      <4>2. g[i] = IF i = 0 THEN b ELSE step(g[i - 1], i)
        BY <1>2, <3>2
      <4> QED BY <4>1, <4>2
    <3> QED BY <3>1, <3>2
  <2>2. Is(h, n + 1)
    BY <2>1
  <2> QED BY <2>2
<1>3. Lacking = {}
  <2> SUFFICES ASSUME Lacking # {} PROVE FALSE
    OBVIOUS
  <2>0. Lacking # {} /\ Lacking \in SUBSET Nat
    OBVIOUS
  <2>1. PICK n \in Lacking : \A m \in Lacking : n <= m
    <3> HIDE DEF Lacking
    <3> QED BY <2>0, LeastNumber
  <2>2. n # 0 /\ n \in Nat
    BY <1>1
  <2>3. n - 1 \notin Lacking
    BY <2>1, <2>2
  <2>4. PICK g : Is(g, n - 1)
    BY <2>2, <2>3
  <2>5. \E h : Is(h, (n - 1) + 1)
    BY <1>2, <2>2, <2>4
  <2> QED BY <2>2, <2>5
<1>4. \E g : Is(g, Len(Order))
  BY <1>3, ForwardsAssumption
<1>5. Syncing(list) = CHOOSE g : Is(g, Len(Order))
  BY DEF Syncing, b, step
<1> QED BY <1>4, <1>5 DEF b, step

\* The forward of an app whose port is known is opened, after the old one is
\* closed.
LEMMA OpenForwardKept ==
  ASSUME NEW acc, Kept(acc), NEW a \in Apps, NEW p \in Ports
  PROVE  Kept(OpenForward(acc, a, p))
<1> DEFINE rest == IF acc.fwd[a].ok THEN acc.listening \ {acc.fwd[a].port} ELSE acc.listening
           free == p \notin rest \cup busy
           fwd == [acc.fwd EXCEPT ![a] = [port |-> p, ok |-> free]]
           now == IF free THEN rest \cup {p} ELSE rest
<1>1. /\ acc.fwd \in [Apps -> Entry]
      /\ acc.listening \subseteq Ports /\ acc.orphans \subseteq Ports
      /\ \A q \in Ports : q \in acc.listening <=>
             q \in acc.orphans \/ \E b \in Apps : acc.fwd[b].ok /\ acc.fwd[b].port = q
      /\ \A b, c \in Apps :
             acc.fwd[b].ok /\ acc.fwd[c].ok /\ acc.fwd[b].port = acc.fwd[c].port => b = c
      /\ \A b \in Apps : acc.fwd[b].ok =>
             acc.fwd[b].port \in Ports /\ acc.fwd[b].port \notin acc.orphans \cup busy
  BY DEF Kept, Accounted
<1>2. fwd \in [Apps -> Entry] /\ now \subseteq Ports
  BY <1>1 DEF Entry
<1>3. \A b \in Apps : b # a => fwd[b] = acc.fwd[b]
  BY <1>1
<1>4. fwd[a].port = p /\ fwd[a].ok = free
  BY <1>1
<1> HIDE DEF fwd
<1>5. \A q \in Ports : q \in rest <=>
         q \in acc.orphans \/ \E b \in Apps : b # a /\ acc.fwd[b].ok /\ acc.fwd[b].port = q
  BY <1>1
<1> HIDE DEF rest
<1>6. \A q \in Ports : q \in now <=>
         q \in acc.orphans \/ \E b \in Apps : fwd[b].ok /\ fwd[b].port = q
  BY <1>3, <1>4, <1>5
<1>7. \A b, c \in Apps : fwd[b].ok /\ fwd[c].ok /\ fwd[b].port = fwd[c].port => b = c
  <2>1. \A b \in Apps : b # a /\ fwd[b].ok => fwd[b].port \in rest
    BY <1>1, <1>3, <1>5
  <2>2. fwd[a].ok => fwd[a].port \notin rest
    BY <1>4
  <2>3. \A b, c \in Apps :
           b # a /\ c # a /\ fwd[b].ok /\ fwd[c].ok /\ fwd[b].port = fwd[c].port => b = c
    BY <1>1, <1>3
  <2> QED BY <2>1, <2>2, <2>3
<1>8. \A b \in Apps : fwd[b].ok =>
         fwd[b].port \in Ports /\ fwd[b].port \notin acc.orphans \cup busy
  BY <1>1, <1>3, <1>4, <1>5
<1>9. Accounted(fwd, now, acc.orphans, busy)
  BY <1>1, <1>2, <1>6, <1>7, <1>8 DEF Accounted
<1>10. OpenForward(acc, a, p) = [fwd |-> fwd, listening |-> now, orphans |-> acc.orphans]
  BY DEF OpenForward, fwd, rest
<1> QED BY <1>9, <1>10 DEF Kept

\* An entry is dropped with its listener left open.
LEMMA DropEntryKept ==
  ASSUME NEW acc, Kept(acc), NEW a \in Apps
  PROVE  Kept(DropEntry(acc, a))
<1> DEFINE fwd == [acc.fwd EXCEPT ![a] = Missing]
           dropped == IF acc.fwd[a].ok THEN acc.orphans \cup {acc.fwd[a].port} ELSE acc.orphans
<1>1. Accounted(acc.fwd, acc.listening, acc.orphans, busy)
  BY DEF Kept
<1>2. fwd \in [Apps -> Entry]
  BY <1>1 DEF Accounted, Entry, Missing
<1>3. (\A b \in Apps : b # a => fwd[b] = acc.fwd[b]) /\ ~fwd[a].ok
  BY <1>1 DEF Accounted, Missing
<1> HIDE DEF fwd
<1>4. dropped \subseteq Ports /\ \A p \in Ports : p \in dropped <=>
         p \in acc.orphans \/ (acc.fwd[a].ok /\ acc.fwd[a].port = p)
  BY <1>1 DEF Accounted
<1> HIDE DEF dropped
<1>5. /\ acc.listening \subseteq Ports
      /\ \A p \in Ports : p \in acc.listening <=>
             p \in dropped \/ \E b \in Apps : fwd[b].ok /\ fwd[b].port = p
  BY <1>1, <1>3, <1>4 DEF Accounted
<1>6. \A b, c \in Apps : fwd[b].ok /\ fwd[c].ok /\ fwd[b].port = fwd[c].port => b = c
  BY <1>1, <1>3 DEF Accounted
<1>7. \A b \in Apps : fwd[b].ok => fwd[b].port \in Ports /\ fwd[b].port \notin dropped \cup busy
  BY <1>1, <1>3, <1>4 DEF Accounted
<1>8. Accounted(fwd, acc.listening, dropped, busy)
  BY <1>2, <1>4, <1>5, <1>6, <1>7 DEF Accounted
<1>9. DropEntry(acc, a) = [fwd |-> fwd, listening |-> acc.listening, orphans |-> dropped]
  BY DEF DropEntry, fwd, dropped
<1> QED BY <1>8, <1>9 DEF Kept

\* One app of the list.
LEMMA SyncAppKept ==
  ASSUME NEW acc, Kept(acc), NEW a \in Apps, NEW p \in Ports \cup {NoPort, Unknown}
  PROVE  Kept(SyncApp(acc, a, p))
BY OpenForwardKept, DropEntryKept DEF SyncApp

\* The apps that are not listed.
LEMMA CloseUnlistedKept ==
  ASSUME NEW list, Accounted(forwards, listening, orphans, busy)
  PROVE  Kept(CloseUnlisted(list))
<1> DEFINE gone == {a \in Apps : list[a] = NoPort}
           fwd == [a \in Apps |-> IF a \in gone THEN Missing ELSE forwards[a]]
           now == listening \ {forwards[a].port : a \in {b \in gone : forwards[b].ok}}
<1>1. fwd \in [Apps -> Entry]
  BY DEF Accounted, Entry, Missing
<1>2. \A a \in Apps : IF a \in gone THEN ~fwd[a].ok ELSE fwd[a] = forwards[a]
  BY DEF Missing
<1>3. gone \subseteq Apps
  OBVIOUS
<1> HIDE DEF fwd, gone
<1>4. Accounted(fwd, now, orphans, busy)
  BY <1>1, <1>2, <1>3 DEF Accounted
<1>5. CloseUnlisted(list) = [fwd |-> fwd, listening |-> now, orphans |-> orphans]
  BY DEF CloseUnlisted, fwd, gone
<1> QED BY <1>4, <1>5 DEF Kept

\* The whole of syncFromSnapshots, by induction over the list.
LEMMA SyncedKept ==
  ASSUME NEW list \in Lists, Accounted(forwards, listening, orphans, busy)
  PROVE  Kept(Synced(list))
<1> DEFINE Bad == {i \in 0..Len(Order) : ~Kept(Syncing(list)[i])}
<1>1. Len(Order) \in Nat /\ \A i \in 1..Len(Order) : Order[i] \in Apps
  BY ForwardsAssumption DEF Apps
<1>2. Kept(Syncing(list)[0])
  BY <1>1, SyncingIs, CloseUnlistedKept
<1>3. ASSUME NEW i \in 1..Len(Order), Kept(Syncing(list)[i - 1])
      PROVE  Kept(Syncing(list)[i])
  <2>1. Syncing(list)[i] = SyncApp(Syncing(list)[i - 1], Order[i], list[Order[i]])
    BY <1>1, SyncingIs
  <2>2. list[Order[i]] \in Ports \cup {NoPort, Unknown}
    BY <1>1 DEF Lists
  <2> QED BY <1>1, <1>3, <2>1, <2>2, SyncAppKept
<1>4. Bad = {}
  <2> SUFFICES ASSUME Bad # {} PROVE FALSE
    OBVIOUS
  <2>1. Bad \in SUBSET Nat
    BY <1>1
  <2>2. PICK i \in Bad : \A j \in Bad : i <= j
    <3> HIDE DEF Bad
    <3> QED BY <2>1, LeastNumber
  <2>3. i \in 1..Len(Order) /\ i - 1 \in 0..Len(Order) /\ i - 1 \notin Bad
    BY <1>1, <1>2, <2>2
  <2> QED BY <1>3, <2>2, <2>3
<1> QED BY <1>1, <1>4 DEF Synced

-----------------------------------------------------------------------------
(* The steps                                                               *)

\* The lists the program starts from.
LEMMA FirstLists ==
  /\ EmptyList \in Lists /\ Nothing \in Lists
  /\ Quiet \in [pc : {"off"}, list : Lists]
  /\ \A t \in [Apps -> Ports \cup {NoPort}] : t \in Lists
<1>1. EmptyList \in Lists /\ Nothing \in Lists
  BY DEF Lists, EmptyList, Nothing
<1> QED BY <1>1 DEF Quiet, Lists

\* Init establishes it.
LEMMA InitForwardsInv == ForwardsInit => ForwardsInv
<1> SUFFICES ASSUME ForwardsInit PROVE ForwardsInv
  OBVIOUS
<1>1. table \in [Apps -> Ports \cup {NoPort}]
  BY DEF ForwardsInit, EmptyList
<1>2. StreamTyped
  BY <1>1, FirstLists DEF ForwardsInit, StreamTyped
<1>3. ManagerTyped /\ Told
  BY FirstLists DEF ForwardsInit, ManagerTyped, ManagerStates, Told
<1>4. Accounted(forwards, listening, orphans, busy)
  BY DEF ForwardsInit, Accounted, Missing, Entry
<1> QED BY <1>2, <1>3, <1>4 DEF ForwardsInv

\* Sync leaves the listeners accounted for.
LEMMA SyncKept ==
  ASSUME ForwardsInv,
         NEW list \in Lists, NEW by \in {"stream", "shell"}, Sync(list, by)
  PROVE  Accounted(forwards', listening', orphans', busy) /\ lastBy' = by
BY SyncedKept DEF ForwardsInv, Sync, Kept

\* The server and the reader's goroutine leave the forwards alone.
StreamStep == TableChanges \/ LinkBreaks \/ Sticks \/ Poll \/ StreamReaderStep

\* The lists on their way: at most one of them in the channel.
LEMMA StreamTypedOn ==
  ASSUME StreamTyped, StreamStep
  PROVE  StreamTyped'
<1> DEFINE ReaderOK(x) ==
      x \in [pc : {"off", "receive", "offer", "drain", "again"}, list : Lists \cup {Broken}]
<1>0. /\ ReaderOK(reader) /\ ReaderOK(Quiet)
      /\ reader.list \in Lists \cup {Broken} /\ table \in Lists
      /\ \A x \in Lists \cup {Broken} : ReaderOK([pc |-> "offer", list |-> x])
      /\ \A w \in {"receive", "drain", "again"} : ReaderOK([reader EXCEPT !.pc = w])
  BY FirstLists DEF StreamTyped
<1>1. ReaderOK(AfterSend)
  BY <1>0 DEF AfterSend
<1> HIDE DEF ReaderOK
<1>2. CASE TableChanges
  BY <1>2 DEF TableChanges, StreamTyped, feed
<1>3. CASE LinkBreaks \/ Sticks
  BY <1>3 DEF LinkBreaks, Sticks, StreamTyped, hostSide, feed
<1>4. CASE Poll
  BY <1>0, <1>4 DEF Poll, StreamTyped, feed
<1>5. CASE Receive
  <2>1. wire' \in Seq(Lists)
    <3>1. wire \in Seq(Lists) /\ (wire' = wire \/ (wire # <<>> /\ wire' = Tail(wire)))
      BY <1>5 DEF Receive, StreamTyped
    <3> QED BY <3>1
  <2>2. wire # <<>> => Head(wire) \in Lists
    BY DEF StreamTyped
  <2>3. ReaderOK(reader')
    BY <1>0, <1>5, <2>2 DEF Receive
  <2> QED BY <1>5, <2>1, <2>3 DEF Receive, StreamTyped, hostSide, ReaderOK
<1>6. CASE Offer \/ Drain \/ OfferAgain
  <2>1. box' \in {box, <<>>, <<reader.list>>}
    BY <1>6 DEF Offer, Drain, OfferAgain
  <2>2. box' \in Seq(Lists \cup {Broken}) /\ Len(box') <= 1
    <3>1. box \in Seq(Lists \cup {Broken}) /\ Len(box) <= 1
      BY DEF StreamTyped
    <3>2. \A x \in Lists \cup {Broken} :
             <<x>> \in Seq(Lists \cup {Broken}) /\ Len(<<x>>) = 1
      OBVIOUS
    <3>3. <<>> \in Seq(Lists \cup {Broken}) /\ Len(<<>>) = 0
      OBVIOUS
    <3>4. reader.list \in Lists \cup {Broken}
      BY <1>0
    <3>5. <<reader.list>> \in Seq(Lists \cup {Broken}) /\ Len(<<reader.list>>) = 1
      BY <3>2, <3>4
    <3>6. CASE box' = box
      BY <3>1, <3>6
    <3>7. CASE box' = <<>>
      BY <3>3, <3>7
    <3>8. CASE box' = <<reader.list>>
      BY <3>5, <3>8
    <3> QED BY <2>1, <3>6, <3>7, <3>8
  <2>3. ReaderOK(reader')
    BY <1>0, <1>1, <1>6 DEF Offer, Drain, OfferAgain
  <2> QED BY <1>6, <2>2, <2>3 DEF Offer, Drain, OfferAgain, StreamTyped, hostSide,
                                  ReaderOK
<1> QED BY <1>2, <1>3, <1>4, <1>5, <1>6 DEF StreamStep, StreamReaderStep

\* And with them the rest of the invariant.
LEMMA StreamInv ==
  ASSUME ForwardsInv, StreamStep
  PROVE  ForwardsInv'
<1>1. UNCHANGED <<mgr, stopCh, held, busy, refresh>> /\ stuck' \in BOOLEAN
  BY DEF StreamStep, TableChanges, LinkBreaks, Sticks, Poll, StreamReaderStep, Receive,
         Offer, Drain, OfferAgain, ForwardsInv, ManagerTyped
<1> QED BY <1>1, StreamTypedOn DEF ForwardsInv, ManagerTyped, Accounted, Told, held

\* Another program takes a port the shell does not listen on.
LEMMA OtherProgramInv ==
  ASSUME ForwardsInv, OtherProgram
  PROVE  ForwardsInv'
<1>1. PICK p \in Contended \ listening : busy' = IF p \in busy THEN busy \ {p} ELSE busy \cup {p}
  BY DEF OtherProgram
<1>2. busy' \subseteq Ports
  BY <1>1, ForwardsAssumption DEF ForwardsInv, ManagerTyped
<1>3. \A a \in Apps : forwards[a].ok => forwards[a].port \notin orphans \cup busy'
  BY <1>1 DEF ForwardsInv, Accounted
<1> QED
  BY <1>2, <1>3 DEF OtherProgram, ForwardsInv, StreamTyped, ManagerTyped, Accounted, Told,
                    hostSide, feed, held

\* The manager.
LEMMA ManagerInv ==
  ASSUME ForwardsInv, ManagerStep
  PROVE  ForwardsInv'
<1>2. CASE Begin \/ OpenStream \/ OpenFails \/ SeesStop \/ Wake
  <2>1. StreamTyped'
    BY FirstLists, <1>2 DEF Begin, OpenStream, OpenFails, SeesStop, Wake, ForwardsInv,
                            StreamTyped, hostSide, feed
  <2>2. /\ mgr' \in {"start", "opening", "consume", "leaving", "pause"}
        /\ UNCHANGED <<stopCh, stuck, busy, refresh, held>>
    BY <1>2 DEF Begin, OpenStream, OpenFails, SeesStop, Wake
  <2> QED
    BY <2>1, <2>2 DEF ForwardsInv, ManagerTyped, ManagerStates, Accounted, Told, held
<1>5. CASE CloseStream
  BY FirstLists, <1>5 DEF CloseStream, ForwardsInv, StreamTyped, ManagerTyped, ManagerStates,
                          Accounted, Told, held
<1>3. CASE Consume
  <2>0. box' \in Seq(Lists \cup {Broken}) /\ Len(box') <= 1
    BY <1>3 DEF Consume
  <2>1. CASE Head(box) = Broken
    BY <1>3, <2>0, <2>1 DEF Consume, ForwardsInv, StreamTyped, ManagerTyped, ManagerStates,
                            Accounted, Told, held
  <2>2. CASE Head(box) # Broken
    <3>1. Head(box) \in Lists
      BY <1>3, <2>2 DEF Consume, ForwardsInv, StreamTyped
    <3>2. Accounted(forwards', listening', orphans', busy) /\ lastBy' = "stream"
      BY <1>3, <2>2, <3>1, SyncKept DEF Consume
    <3> QED BY <1>3, <2>0, <2>2, <3>2 DEF Consume, ForwardsInv, StreamTyped, ManagerTyped,
                                          Accounted, Told
  <2> QED BY <2>1, <2>2
<1>4. CASE Stops
  <2>1. Accounted(forwards', listening', orphans', busy')
    BY <1>4 DEF Stops, ForwardsInv, Accounted, Missing, Entry
  <2>2. StreamTyped' /\ ManagerTyped' /\ Told'
    BY <1>4 DEF Stops, ForwardsInv, StreamTyped, ManagerTyped, ManagerStates, Told, Missing,
                hostSide, feed
  <2> QED BY <2>1, <2>2 DEF ForwardsInv
<1> QED BY <1>2, <1>3, <1>4, <1>5 DEF ManagerStep

\* The shell's loop.
LEMMA ShellLoopInv ==
  ASSUME ForwardsInv,
         \/ StopManager \/ StartManager
         \/ \E r \in Refreshes : StartRefresh(r) \/ ApplyRefresh(r)
  PROVE  ForwardsInv'
<1>1. CASE StopManager \/ StartManager
  BY <1>1 DEF StopManager, StartManager, ForwardsInv, StreamTyped, ManagerTyped, ManagerStates,
              Accounted, Told,
              hostSide, feed, held
<1>2. ASSUME NEW r \in Refreshes, StartRefresh(r)
      PROVE  ForwardsInv'
  <2>1. PICK lost \in SUBSET {a \in Apps : table[a] # NoPort} :
          refresh' = [refresh EXCEPT ![r] =
            [pc |-> "fetch",
             list |-> [a \in Apps |-> IF a \in lost THEN Unknown ELSE table[a]]]]
    BY <1>2 DEF StartRefresh
  <2>2. [a \in Apps |-> IF a \in lost THEN Unknown ELSE table[a]] \in Lists
    BY DEF ForwardsInv, StreamTyped, Lists
  <2>3. ManagerTyped'
    BY <1>2, <2>1, <2>2 DEF StartRefresh, ForwardsInv, ManagerTyped, held
  <2> QED BY <1>2, <2>3 DEF StartRefresh, ForwardsInv, StreamTyped, Accounted, Told,
                            hostSide, feed, held
<1>3. ASSUME NEW r \in Refreshes, ApplyRefresh(r)
      PROVE  ForwardsInv'
  <2>1. refresh[r].list \in Lists
    BY DEF ForwardsInv, ManagerTyped
  <2>2. Accounted(forwards', listening', orphans', busy) /\ lastBy' \in {"stream", "shell"}
    <3>1. CASE Sync(refresh[r].list, "shell")
      BY <2>1, <3>1, SyncKept
    <3>2. CASE UNCHANGED held
      BY <3>2 DEF ForwardsInv, ManagerTyped, held
    <3> QED BY <1>3, <3>1, <3>2 DEF ApplyRefresh
  <2>3. ManagerTyped' /\ StreamTyped'
    BY FirstLists, <1>3, <2>2 DEF ApplyRefresh, ForwardsInv, ManagerTyped, StreamTyped,
                                  hostSide, feed
  <2>4. mgr # "stopped" /\ UNCHANGED <<mgr, busy>>
    BY <1>3 DEF ApplyRefresh, ShellFree, ForwardsInv, Told
  <2> QED BY <2>2, <2>3, <2>4 DEF ForwardsInv, Told, Accounted
<1> QED BY <1>1, <1>2, <1>3

\* The invariant holds throughout.
LEMMA ForwardsAlways == ForwardsSpec => []ForwardsInv
<1>1. ForwardsInv /\ [ForwardsNext]_forwardsVars => ForwardsInv'
  <2>1. CASE ForwardsNext
    BY <2>1, StreamInv, OtherProgramInv, ManagerInv, ShellLoopInv DEF ForwardsNext, StreamStep
  <2>2. CASE UNCHANGED forwardsVars
    BY <2>2 DEF forwardsVars, ForwardsInv, StreamTyped, ManagerTyped, Accounted, Told, feed,
                held
  <2> QED BY <2>1, <2>2
<1> QED BY InitForwardsInv, <1>1, PTL DEF ForwardsSpec

\* Every reachable state of Forwards has the right types: in particular the
\* channel of startAppsStream never holds more than one list, whatever its
\* reader and the manager do between the three selects.
THEOREM ForwardsTyping == ForwardsSpec => []ForwardsTypeOK
<1>1. ForwardsInv => ForwardsTypeOK
  <2> SUFFICES ASSUME ForwardsInv PROVE ForwardsTypeOK
    OBVIOUS
  <2>1. Range(wire) \subseteq Lists /\ Range(box) \subseteq Lists \cup {Broken}
    BY DEF ForwardsInv, StreamTyped, Range
  <2>2. listening \subseteq Ports
    BY DEF ForwardsInv, Accounted
  <2> QED BY <2>1, <2>2 DEF ForwardsInv, StreamTyped, ManagerTyped, Accounted, ForwardsTypeOK, Entry
<1> QED BY <1>1, ForwardsAlways, PTL

\* syncFromSnapshots, Stop and the shell's refreshes keep every listener with
\* one entry, but for those whose entry was dropped for want of a port, for any
\* apps and ports, any other programs and any lists, old, new or incomplete.
THEOREM Listeners == ForwardsSpec => []ListenersAccountedFor
<1>1. ForwardsInv => ListenersAccountedFor
  <2> SUFFICES ASSUME ForwardsInv PROVE ListenersAccountedFor
    OBVIOUS
  <2>1. listening = orphans \cup {forwards[a].port : a \in {b \in Apps : forwards[b].ok}}
    BY DEF ForwardsInv, Accounted
  <2> QED BY <2>1 DEF ForwardsInv, Accounted, Told, ListenersAccountedFor
<1> QED BY <1>1, ForwardsAlways, PTL

-----------------------------------------------------------------------------
(* The newest list                                                         *)

Tables == [Apps -> Ports \cup {NoPort}]

\* One app of the list: its entry has the port of the list afterwards, and no
\* other entry is touched.
LEMMA SyncAppSets ==
  ASSUME NEW acc, acc.fwd \in [Apps -> Entry], NEW a \in Apps, NEW p \in Ports \cup {NoPort},
         p = NoPort => acc.fwd[a].port = NoPort
  PROVE  /\ SyncApp(acc, a, p).fwd \in [Apps -> Entry]
         /\ SyncApp(acc, a, p).fwd[a].port = p
         /\ \A b \in Apps \ {a} : SyncApp(acc, a, p).fwd[b] = acc.fwd[b]
<1>1. p # Unknown
  BY ForwardsAssumption DEF NoPort, Unknown
<1>2. CASE SyncApp(acc, a, p) = acc /\ acc.fwd[a].port = p
  BY <1>2
<1>3. CASE p \in Ports /\ SyncApp(acc, a, p) = OpenForward(acc, a, p)
  <2> DEFINE rest == IF acc.fwd[a].ok THEN acc.listening \ {acc.fwd[a].port} ELSE acc.listening
             ok == p \notin rest \cup busy
  <2>0. ok \in BOOLEAN
    OBVIOUS
  <2>1. SyncApp(acc, a, p).fwd = [acc.fwd EXCEPT ![a] = [port |-> p, ok |-> ok]]
    BY <1>3 DEF OpenForward
  <2> HIDE DEF ok
  <2>2. [port |-> p, ok |-> ok] \in Entry
    BY <1>3, <2>0 DEF Entry
  <2> QED BY <2>1, <2>2
<1> QED BY <1>1, <1>2, <1>3 DEF SyncApp

\* The whole of syncFromSnapshots: every entry has the port of the list, if the
\* list knows them all.
LEMMA SyncedSets ==
  ASSUME NEW list \in Tables, forwards \in [Apps -> Entry]
  PROVE  \A a \in Apps : Synced(list).fwd[a].port = list[a]
<1> DEFINE Set(i) ==
             LET acc == Syncing(list)[i] IN
               /\ acc.fwd \in [Apps -> Entry]
               /\ \A a \in Apps : list[a] = NoPort => acc.fwd[a].port = NoPort
               /\ \A j \in 1..i : acc.fwd[Order[j]].port = list[Order[j]]
           Bad == {i \in 0..Len(Order) : ~Set(i)}
<1>1. Len(Order) \in Nat /\ \A i \in 1..Len(Order) : Order[i] \in Apps
  BY ForwardsAssumption DEF Apps
<1>2. Set(0)
  <2>1. Syncing(list)[0] = CloseUnlisted(list)
    BY <1>1, SyncingIs
  <2>2. CloseUnlisted(list).fwd =
          [a \in Apps |-> IF a \in {b \in Apps : list[b] = NoPort} THEN Missing ELSE forwards[a]]
    BY DEF CloseUnlisted
  <2>3. Missing \in Entry /\ Missing.port = NoPort
    BY DEF Missing, Entry
  <2> QED BY <2>1, <2>2, <2>3
<1>3. ASSUME NEW i \in 1..Len(Order), Set(i - 1)
      PROVE  Set(i)
  <2> DEFINE acc == Syncing(list)[i - 1]
             a == Order[i]
             now == SyncApp(acc, a, list[a])
  <2>1. Syncing(list)[i] = now
    BY <1>1, SyncingIs
  <2>2. a \in Apps /\ list[a] \in Ports \cup {NoPort}
    BY <1>1 DEF Tables
  <2>3. /\ now.fwd \in [Apps -> Entry] /\ now.fwd[a].port = list[a]
        /\ \A b \in Apps \ {a} : now.fwd[b] = acc.fwd[b]
    BY <1>3, <2>2, SyncAppSets
  <2> HIDE DEF now
  <2>4. \A j \in 1..i : now.fwd[Order[j]].port = list[Order[j]]
    <3> TAKE j \in 1..i
    <3>1. CASE Order[j] = a
      BY <2>3, <3>1
    <3>2. CASE Order[j] # a
      <4>1. j \in 1..(i - 1) /\ Order[j] \in Apps
        BY <1>1, <3>2
      <4> QED BY <1>3, <2>3, <3>2, <4>1
    <3> QED BY <3>1, <3>2
  <2>5. \A b \in Apps : list[b] = NoPort => now.fwd[b].port = NoPort
    BY <1>3, <2>3
  <2> QED BY <2>1, <2>3, <2>4, <2>5
<1>4. Bad = {}
  <2> SUFFICES ASSUME Bad # {} PROVE FALSE
    OBVIOUS
  <2>1. Bad \in SUBSET Nat
    BY <1>1
  <2>2. PICK i \in Bad : \A j \in Bad : i <= j
    <3> HIDE DEF Bad
    <3> QED BY <2>1, LeastNumber
  <2>3. i \in 1..Len(Order) /\ i - 1 \in 0..Len(Order) /\ i - 1 \notin Bad
    BY <1>1, <1>2, <2>2
  <2> QED BY <1>3, <2>2, <2>3
<1>5. Set(Len(Order))
  BY <1>1, <1>4
<1> QED BY <1>5 DEF Synced, Apps

\* The manager has a stream.
Streaming == {"consume", "failing", "leaving"}

\* What is sent is a table; without a manager that has a stream nothing is under way;
\* the reader that has made room finds it, and receives no more after an error.
Sending ==
  /\ lastSent \in Tables \cup {Nothing}
  /\ mgr \notin Streaming => reader.pc = "off" /\ lastSent = Nothing /\ box = <<>>
  /\ reader.pc = "again" => box = <<>>
  /\ reader.pc = "receive" /\ reader.list = Broken => Apps = {}

\* A table that the stream brings is applied as it is.
LEMMA ConsumeSets ==
  ASSUME ForwardsInv, NEW list \in Tables, Sync(list, "stream")
  PROVE  \A a \in Apps : forwards'[a].port = list[a]
BY SyncedSets DEF ForwardsInv, Accounted, Sync

\* The server and the reader's three selects keep the newest list.
LEMMA StreamNewest ==
  ASSUME ForwardsInv, Sending, NewestListKept, StreamStep
  PROVE  Sending' /\ NewestListKept'
<1>0. /\ wire \in Seq(Lists) /\ table \in Tables /\ UNCHANGED <<mgr, lastBy, forwards>>
      /\ reader = [pc |-> reader.pc, list |-> reader.list]
  BY DEF StreamStep, TableChanges, LinkBreaks, Sticks, Poll, StreamReaderStep, Receive,
         Offer, Drain, OfferAgain, ForwardsInv, StreamTyped, held, Tables
<1>a. AfterSend = (IF reader.list = Broken THEN Quiet ELSE [pc |-> "receive", list |-> reader.list])
  BY <1>0 DEF AfterSend
<1> USE <1>0 DEF Sending, NewestListKept
<1>1. CASE TableChanges \/ LinkBreaks \/ Sticks
  BY <1>1 DEF TableChanges, LinkBreaks, Sticks, feed, hostSide
<1>2. CASE Poll
  <2>1. /\ wire' # <<>> /\ wire'[Len(wire')] = table /\ lastSent' = table
        /\ UNCHANGED <<reader, box>>
    BY <1>2 DEF Poll, feed
  <2>2. mgr \in Streaming
    BY <1>2 DEF Poll
  <2> QED BY <2>1, <2>2
<1>3. CASE Receive
  <2>1. UNCHANGED <<lastSent, box>> /\ mgr \in Streaming
    BY <1>3 DEF Receive, hostSide
  <2>0. reader.pc = "receive"
    BY <1>3 DEF Receive
  <2>a. lastSent # Nothing => reader.list # Broken
    BY <2>0 DEF Tables, Nothing
  <2>b. wire # <<>> /\ lastSent # Nothing => wire[Len(wire)] = lastSent
    BY <2>0, <2>a
  <2>2. CASE wire # <<>> /\ reader' = [pc |-> "offer", list |-> Head(wire)] /\ wire' = Tail(wire)
    <3>1. CASE wire' # <<>>
      <4>1. wire'[Len(wire')] = wire[Len(wire)]
        BY <2>2, <3>1
      <4> QED BY <2>a, <2>b, <2>1, <2>2, <3>1, <4>1
    <3>2. CASE wire' = <<>>
      <4>1. Tail(wire) = <<>> /\ Len(<<>>) = 0
        BY <2>2, <3>2
      <4>2. Len(wire) = 1
        <5>1. Len(wire) \in Nat /\ Len(Tail(wire)) = Len(wire) - 1
          BY <2>2
        <5>2. Len(Tail(wire)) = 0
          BY <4>1
        <5> HIDE <1>0
        <5> QED BY <5>1, <5>2
      <4>3. Head(wire) = wire[Len(wire)]
        BY <4>2
      <4> QED BY <2>a, <2>b, <2>1, <2>2, <3>2, <4>3
    <3> QED BY <3>1, <3>2
  <2>3. CASE reader' = [pc |-> "offer", list |-> Broken]
    BY <2>1, <2>3
  <2> QED BY <1>3, <2>2, <2>3 DEF Receive
<1>4. CASE Offer
  BY <1>a, <1>4 DEF Offer, hostSide, Quiet
<1>5. CASE Drain
  BY <1>5 DEF Drain, hostSide
<1>6. CASE OfferAgain
  BY <1>a, <1>6 DEF OfferAgain, hostSide, Quiet
<1> QED BY <1>1, <1>2, <1>3, <1>4, <1>5, <1>6 DEF StreamStep, StreamReaderStep

\* The manager applies what it takes out of the channel.
LEMMA ManagerNewest ==
  ASSUME ForwardsInv, Sending, NewestListKept, ManagerStep
  PROVE  Sending' /\ NewestListKept'
<1> USE DEF Sending, NewestListKept, Streaming
<1>1. CASE OpenStream
  <2>1. reader' = [pc |-> "receive", list |-> EmptyList] /\ UNCHANGED <<lastSent, box>>
        /\ mgr = "opening" /\ mgr' = "consume"
    BY <1>1 DEF OpenStream
  <2>2. EmptyList = Broken => Apps = {}
    BY DEF EmptyList, Broken, NoPort
  <2> QED BY <2>1, <2>2
<1>2. CASE Begin \/ OpenFails \/ SeesStop \/ Wake
  BY <1>2 DEF Begin, OpenFails, SeesStop, Wake, hostSide, feed, held
<1>3. CASE Consume
  <2>0. box # <<>> /\ box' = <<>> /\ UNCHANGED <<lastSent, wire, reader>> /\ mgr = "consume"
    BY <1>3 DEF Consume
  <2>1. CASE Head(box) = Broken
    <3>1. lastSent # Nothing => lastSent # Broken
      <4>1. ASSUME Broken \in Tables PROVE Apps = {}
        <5>1. \A a \in Apps : Broken[a] = -2 /\ Broken[a] \in Ports \cup {NoPort}
          BY <4>1 DEF Broken, Tables
        <5> QED BY <5>1, ForwardsAssumption DEF NoPort
      <4>2. Apps = {} => Broken = Nothing
        BY DEF Broken, Nothing
      <4> QED BY <4>1, <4>2
    <3>2. lastSent # Nothing => box # <<lastSent>>
      <4>1. box = <<lastSent>> => Head(box) = lastSent
        OBVIOUS
      <4> QED BY <2>1, <3>1, <4>1
    <3>3. mgr' = "failing" /\ UNCHANGED held
      BY <1>3, <2>1 DEF Consume
    <3> QED BY <2>0, <3>2, <3>3 DEF held
  <2>2. CASE Head(box) # Broken
    <3>1. Sync(Head(box), "stream") /\ lastBy' = "stream" /\ mgr' = mgr
      BY <1>3, <2>2 DEF Consume, Sync
    <3>2. box = <<lastSent>> /\ lastSent # Nothing
            => \A a \in Apps : forwards'[a].port = lastSent[a]
      <4>1. box = <<lastSent>> => Head(box) = lastSent
        OBVIOUS
      <4> QED BY <3>1, <4>1, ConsumeSets
    <3> QED BY <2>0, <3>1, <3>2
  <2> QED BY <2>1, <2>2
<1>4. CASE CloseStream
  BY <1>4 DEF CloseStream, Quiet
<1>5. CASE Stops
  BY <1>5 DEF Stops, hostSide, feed
<1> QED BY <1>1, <1>2, <1>3, <1>4, <1>5 DEF ManagerStep

\* No other step touches the stream; the shell's refreshes have the last word
\* about the entries they change.
LEMMA OtherNewest ==
  ASSUME ForwardsInv, Sending, NewestListKept,
         \/ OtherProgram \/ StopManager \/ StartManager \/ UNCHANGED forwardsVars
         \/ \E r \in Refreshes : StartRefresh(r) \/ ApplyRefresh(r)
  PROVE  Sending' /\ NewestListKept'
<1>1. /\ UNCHANGED <<lastSent, wire, reader, box>>
      /\ mgr' = mgr \/ (mgr = "stopped" /\ mgr' = "start")
  BY DEF OtherProgram, StopManager, StartManager, StartRefresh, ApplyRefresh, forwardsVars,
         hostSide, feed
<1>2. UNCHANGED <<forwards, lastBy>> \/ lastBy' = "shell"
  BY DEF OtherProgram, StopManager, StartManager, StartRefresh, ApplyRefresh, forwardsVars,
         held, Sync
<1> QED BY <1>1, <1>2 DEF Sending, Streaming, NewestListKept

\* However the selects of startAppsStream interleave with the manager's
\* receive, polls, breaks and stops, the newest list the server sent is under
\* way or has been applied, and once it is applied by the stream every entry
\* has its port, for any apps, ports and lists.
THEOREM Newest == ForwardsSpec => []NewestListKept
<1>1. ForwardsInit => Sending /\ NewestListKept
  BY DEF ForwardsInit, Sending, Streaming, NewestListKept, Quiet
<1>2. ForwardsInv /\ Sending /\ NewestListKept /\ [ForwardsNext]_forwardsVars
        => Sending' /\ NewestListKept'
  BY StreamNewest, ManagerNewest, OtherNewest DEF ForwardsNext, StreamStep
<1> QED BY <1>1, <1>2, ForwardsAlways, PTL DEF ForwardsSpec
=============================================================================
