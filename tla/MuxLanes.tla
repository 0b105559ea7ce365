------------------------------ MODULE MuxLanes ------------------------------
(***************************************************************************)
(* What internal/mux promises its users, with the transport abstracted     *)
(* away.  A lane is one direction of one kind of traffic of one stream:    *)
(* the bytes of Stream.Write (kind "data") or the messages of              *)
(* Stream.SendMsg (kind "msg").  sent counts what the far end has written  *)
(* to the lane, got is the number of the last payload this end has read.   *)
(*                                                                         *)
(* A lane delivers in order and at most once.  It loses nothing out of the *)
(* middle either, until the reading end closes the stream itself; a lane   *)
(* may always stop short (the stream or the connection ended).             *)
(***************************************************************************)
EXTENDS Integers

CONSTANTS Ids, Kinds

VARIABLES
  sent,     \* sent[e][id][k]: payloads end e has written to (id, k)
  got,      \* got[e][id][k]: number of the last payload end e has read
  reads,    \* reads[e][id][k]: how many payloads end e has read
  closing   \* closing[e][id]: end e has begun to close the stream itself

lanes == <<sent, got, reads, closing>>

Ends == {"client", "server"}
Peer(e) == IF e = "client" THEN "server" ELSE "client"

Init ==
  /\ sent = [e \in Ends |-> [id \in Ids |-> [k \in Kinds |-> 0]]]
  /\ got = [e \in Ends |-> [id \in Ids |-> [k \in Kinds |-> 0]]]
  /\ reads = [e \in Ends |-> [id \in Ids |-> [k \in Kinds |-> 0]]]
  /\ closing = [e \in Ends |-> [id \in Ids |-> FALSE]]

Send(e, id, k) ==
  /\ sent' = [sent EXCEPT ![e][id][k] = @ + 1]
  /\ UNCHANGED <<got, reads, closing>>

\* The next payload; a reader that is closing the stream may skip some.
Deliver(e, id, k) ==
  \E n \in (got[e][id][k] + 1)..sent[Peer(e)][id][k] :
    /\ n = got[e][id][k] + 1 \/ closing[e][id]
    /\ got' = [got EXCEPT ![e][id][k] = n]
    /\ reads' = [reads EXCEPT ![e][id][k] = @ + 1]
    /\ UNCHANGED <<sent, closing>>

BeginClose(e, id) ==
  /\ closing' = [closing EXCEPT ![e][id] = TRUE]
  /\ UNCHANGED <<sent, got, reads>>

Next ==
  \E e \in Ends, id \in Ids :
    \/ BeginClose(e, id)
    \/ \E k \in Kinds : Send(e, id, k) \/ Deliver(e, id, k)

Spec == Init /\ [][Next]_lanes
=============================================================================
