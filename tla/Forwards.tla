------------------------------ MODULE Forwards ------------------------------
(***************************************************************************)
(* The app list stream and the port forwards of the client shell.          *)
(*                                                                         *)
(* The server polls its table of app ports and sends every change          *)
(* (handleAppsStream).  On the client a goroutine passes the lists on      *)
(* through a channel of ONE slot, a newer list replacing an older one      *)
(* (startAppsStream), and the forward manager opens and closes the local   *)
(* listeners (forwardManager.run).  The shell has refreshes of its own: a  *)
(* list it saw is completed by calls to the server and applied to the same *)
(* manager when the shell's loop gets round to it (syncFromSummaries).     *)
(*                                                                         *)
(* The host is remote: for a local one syncFromSnapshots forwards nothing. *)
(*                                                                         *)
(* The manager opens and closes its stream itself, and both write a frame  *)
(* and take the lock of the mux's stream table.  stuck says that they do   *)
(* not come through: the connection takes no more frames, or Mux.Close and *)
(* a stream's Close wait for each other.                                   *)
(***************************************************************************)
EXTENDS Integers, Sequences, Functions

CONSTANTS
  Order,        \* the apps, in the order of the server's sorted list
  Ports,        \* the ports in use
  Refreshes,    \* refreshes of the shell running at the same time
  MaxChanges,   \* bound: changes of the server's table
  MaxRefreshes, \* bound: refreshes of the shell
  Contended,    \* the ports other programs of the user's machine use now and then
  MaxManagers   \* bound: managers over time, one per gateway connection

Apps == {Order[i] : i \in 1..Len(Order)}
NoPort == 0      \* a list has no such app, an entry is missing
Unknown == -1    \* listed, and the call that asks for its port failed

ASSUME ForwardsAssumption ==
  /\ Order \in Seq(Apps)
  /\ Ports \subseteq Nat \ {0}
  /\ Contended \subseteq Ports
  /\ {MaxChanges, MaxRefreshes, MaxManagers} \subseteq Nat

VARIABLES
  table,      \* the server's ports, State.Ports
  lastSent,   \* handleAppsStream: the list last put on the stream
  wire,       \* lists on their way to the client
  link,       \* the gateway connection: "up" or "down"
  reader,     \* startAppsStream's goroutine: [pc, list]
  box,        \* its channel: at most one event, a list or Broken
  stuck,      \* what opens or closes a stream of the connection waits
  mgr,        \* the manager's goroutine, see ManagerStates
  stopCh,     \* Stop has closed stopCh; its caller waits for doneCh
  forwards,   \* the manager's map: [port, ok], ok if a listener was opened
  listening,  \* ports this process listens on
  busy,       \* ports another local program listens on
  refresh,    \* the shell's refreshes: [pc, list]
  lastBy,     \* history: whose list was applied last, "stream" or "shell"
  orphans,    \* history: listening ports whose entry was dropped
  changes, refreshed, managers   \* counters of the bounds

hostSide == <<table, lastSent, changes>>
feed == <<reader, box>>
bounds == <<changes, refreshed, managers>>
held == <<forwards, listening, orphans, lastBy>>
forwardsVars == <<table, lastSent, wire, link, stuck, feed, mgr, stopCh, held, busy, refresh, bounds>>

Lists == [Apps -> Ports \cup {NoPort, Unknown}]
EmptyList == [a \in Apps |-> NoPort]
Nothing == [a \in Apps |-> Unknown]   \* no list yet: lastPayload = nil
Broken == [a \in Apps |-> -2]         \* appsEvent{err: ...}
Missing == [port |-> NoPort, ok |-> FALSE]
Quiet == [pc |-> "off", list |-> EmptyList]

\* "failing" and "leaving": in consumeStream's deferred close, after an error of
\* the stream and after stopCh; "closing": before closeAllForwards.
ManagerStates ==
  {"start", "opening", "consume", "failing", "leaving", "pause", "closing", "stopped"}

ForwardsInit ==
  /\ table = EmptyList /\ lastSent = Nothing /\ wire = <<>> /\ link = "up" /\ stuck = FALSE
  /\ reader = Quiet /\ box = <<>>
  /\ mgr = "start" /\ stopCh = FALSE
  /\ forwards = [a \in Apps |-> Missing] /\ listening = {} /\ busy = {}
  /\ refresh = [r \in Refreshes |-> Quiet]
  /\ lastBy = "stream" /\ orphans = {}
  /\ changes = 0 /\ refreshed = 0 /\ managers = 1

-----------------------------------------------------------------------------
(* The environment                                                         *)

\* An app is opened, deleted, or given another port on the server.
TableChanges ==
  /\ changes < MaxChanges
  /\ \E a \in Apps, p \in Ports \cup {NoPort} :
       /\ table[a] # p /\ (p # NoPort => \A b \in Apps : table[b] # p)
       /\ table' = [table EXCEPT ![a] = p]
  /\ changes' = changes + 1
  /\ UNCHANGED <<lastSent, wire, link, stuck, feed, mgr, stopCh, held, busy, refresh,
                 refreshed, managers>>

LinkBreaks ==
  /\ link = "up" /\ link' = "down"
  /\ UNCHANGED <<hostSide, wire, stuck, feed, mgr, stopCh, held, busy, refresh, refreshed, managers>>

\* Frames stop, or start again, going out; the locks of the mux are taken for a
\* while or for good.
Sticks ==
  /\ stuck' = ~stuck
  /\ UNCHANGED <<hostSide, wire, link, feed, mgr, stopCh, held, busy, refresh, refreshed,
                 managers>>

\* Another program of the user's machine opens or closes a port.
OtherProgram ==
  /\ \E p \in Contended \ listening :
       busy' = IF p \in busy THEN busy \ {p} ELSE busy \cup {p}
  /\ UNCHANGED <<hostSide, wire, link, stuck, feed, mgr, stopCh, held, refresh, refreshed, managers>>

-----------------------------------------------------------------------------
(* The stream                                                              *)

\* handleAppsStream: sendSnapshot, at once and then every two seconds.
Poll ==
  /\ reader.pc # "off" /\ link = "up" /\ table # lastSent
  /\ lastSent' = table /\ wire' = Append(wire, table)
  /\ UNCHANGED <<table, link, stuck, feed, mgr, stopCh, held, busy, refresh, bounds>>

\* ReceiveMsg.
Receive ==
  /\ reader.pc = "receive"
  /\ \/ /\ wire # <<>>
        /\ reader' = [pc |-> "offer", list |-> Head(wire)] /\ wire' = Tail(wire)
     \/ /\ wire = <<>> /\ link = "down"
        /\ reader' = [pc |-> "offer", list |-> Broken] /\ UNCHANGED wire
  /\ UNCHANGED <<hostSide, link, stuck, box, mgr, stopCh, held, busy, refresh, refreshed, managers>>

\* The goroutine goes on, or returns after an error.
AfterSend == IF reader.list = Broken THEN Quiet ELSE [reader EXCEPT !.pc = "receive"]

\* Mutant: the channel has no limit.
OfferAppends ==
  /\ reader.pc = "offer"
  /\ box' = Append(box, reader.list) /\ reader' = AfterSend
  /\ UNCHANGED <<hostSide, wire, link, stuck, mgr, stopCh, held, busy, refresh, refreshed, managers>>

\* Mutant: a full channel makes the reader drop the new list.
OfferOnce ==
  /\ reader.pc = "offer"
  /\ box' = (IF box = <<>> THEN <<reader.list>> ELSE box)
  /\ reader' = AfterSend
  /\ UNCHANGED <<hostSide, wire, link, stuck, mgr, stopCh, held, busy, refresh, refreshed, managers>>

\* send, first select: into the empty slot, or on to making room.
Offer ==
  /\ reader.pc = "offer"
  /\ IF box = <<>>
       THEN box' = <<reader.list>> /\ reader' = AfterSend
       ELSE reader' = [reader EXCEPT !.pc = "drain"] /\ UNCHANGED box
  /\ UNCHANGED <<hostSide, wire, link, stuck, mgr, stopCh, held, busy, refresh, refreshed, managers>>

\* send, second select: take the old list out, if the manager has not.
Drain ==
  /\ reader.pc = "drain"
  /\ box' = <<>> /\ reader' = [reader EXCEPT !.pc = "again"]
  /\ UNCHANGED <<hostSide, wire, link, stuck, mgr, stopCh, held, busy, refresh, refreshed, managers>>

\* send, third select.
OfferAgain ==
  /\ reader.pc = "again"
  /\ box' = (IF box = <<>> THEN <<reader.list>> ELSE box)
  /\ reader' = AfterSend
  /\ UNCHANGED <<hostSide, wire, link, stuck, mgr, stopCh, held, busy, refresh, refreshed, managers>>

-----------------------------------------------------------------------------
(* syncFromSnapshots                                                       *)

\* Mutant: a forward whose port changes is replaced without being closed.
OpenForwardKeepsOld(acc, a, p) ==
  LET free == p \notin acc.listening \cup busy
  IN  [fwd |-> [acc.fwd EXCEPT ![a] = [port |-> p, ok |-> free]],
       listening |-> IF free THEN acc.listening \cup {p} ELSE acc.listening,
       orphans |-> acc.orphans]

\* The old forward is closed; the new one needs its port free.
OpenForward(acc, a, p) ==
  LET rest == IF acc.fwd[a].ok THEN acc.listening \ {acc.fwd[a].port} ELSE acc.listening
      free == p \notin rest \cup busy
  IN  [fwd |-> [acc.fwd EXCEPT ![a] = [port |-> p, ok |-> free]],
       listening |-> IF free THEN rest \cup {p} ELSE rest,
       orphans |-> acc.orphans]

\* An entry dropped for want of a port keeps its listener.
DropEntry(acc, a) ==
  [fwd |-> [acc.fwd EXCEPT ![a] = Missing],
   listening |-> acc.listening,
   orphans |-> IF acc.fwd[a].ok THEN acc.orphans \cup {acc.fwd[a].port} ELSE acc.orphans]

\* The first loop: the apps that the list no longer has are closed.
CloseUnlisted(list) ==
  LET gone == {a \in Apps : list[a] = NoPort}
  IN  [fwd |-> [a \in Apps |-> IF a \in gone THEN Missing ELSE forwards[a]],
       listening |-> listening \ {forwards[a].port : a \in {b \in gone : forwards[b].ok}},
       orphans |-> orphans]

\* The second loop's body, for one app of the list.
SyncApp(acc, a, p) ==
  IF p = NoPort THEN acc
  ELSE IF p = Unknown THEN DropEntry(acc, a)
  ELSE IF p = acc.fwd[a].port /\ acc.fwd[a].ok THEN acc
  ELSE OpenForward(acc, a, p)

\* After the first i apps of the list.
Syncing(list) ==
  LET upTo[i \in 0..Len(Order)] ==
        IF i = 0 THEN CloseUnlisted(list) ELSE SyncApp(upTo[i - 1], Order[i], list[Order[i]])
  IN  upTo

Synced(list) == Syncing(list)[Len(Order)]

Sync(list, by) ==
  \E s \in {Synced(list)} :
      /\ forwards' = s.fwd /\ listening' = s.listening
      /\ orphans' = s.orphans /\ lastBy' = by

-----------------------------------------------------------------------------
(* The manager's goroutine                                                 *)

\* The manager's loop looks at stopCh, then opens its stream.
Begin ==
  /\ mgr = "start" /\ ~stopCh /\ mgr' = "opening"
  /\ UNCHANGED <<hostSide, wire, link, stuck, feed, stopCh, held, busy, refresh, refreshed,
                 managers>>

\* startAppsStream: a stream of its own, the first list sent at once.
OpenStream ==
  /\ mgr = "opening" /\ ~stuck /\ link = "up"
  /\ mgr' = "consume" /\ reader' = [pc |-> "receive", list |-> EmptyList]
  /\ UNCHANGED <<table, lastSent, wire, box, link, stuck, stopCh, held, busy, refresh, bounds>>

\* openStream fails; sleepOrStop, two seconds.
OpenFails ==
  /\ mgr = "opening" /\ ~stuck /\ link = "down" /\ mgr' = "pause"
  /\ UNCHANGED <<hostSide, wire, link, stuck, feed, stopCh, held, busy, refresh, refreshed,
                 managers>>

\* consumeStream: the next list, or the stream's end.
Consume ==
  /\ mgr = "consume" /\ box # <<>> /\ box' = <<>>
  /\ IF Head(box) = Broken
       THEN mgr' = "failing" /\ UNCHANGED held
       ELSE Sync(Head(box), "stream") /\ UNCHANGED mgr
  /\ UNCHANGED <<table, lastSent, wire, reader, link, stuck, stopCh, busy, refresh, bounds>>

\* Mutant: consumeStream looks at stopCh only when an event has come.
SeesStopAtEvent ==
  /\ mgr = "consume" /\ stopCh /\ box # <<>> /\ mgr' = "leaving"
  /\ UNCHANGED <<hostSide, wire, link, stuck, feed, stopCh, held, busy, refresh, refreshed,
                 managers>>

\* consumeStream: stopCh is closed.
SeesStop ==
  /\ mgr = "consume" /\ stopCh /\ mgr' = "leaving"
  /\ UNCHANGED <<hostSide, wire, link, stuck, feed, stopCh, held, busy, refresh, refreshed,
                 managers>>

\* The deferred close of consumeStream comes through: nobody reads that stream
\* any more.  (The reader's goroutine ends by itself and closes its channel;
\* what it does until then has no effect.)
CloseStream ==
  /\ mgr \in {"failing", "leaving"} /\ ~stuck
  /\ mgr' = IF mgr = "failing" THEN "pause" ELSE "closing"
  /\ lastSent' = Nothing /\ wire' = <<>> /\ reader' = Quiet /\ box' = <<>>
  /\ UNCHANGED <<table, link, stuck, stopCh, held, busy, refresh, bounds>>

\* sleepOrStop returns, one or two seconds later.
Wake ==
  /\ mgr = "pause" /\ ~stopCh /\ mgr' = "start"
  /\ UNCHANGED <<hostSide, wire, link, stuck, feed, stopCh, held, busy, refresh, refreshed,
                 managers>>

\* The manager sees stopCh between two streams or comes from consumeStream;
\* closeAllForwards, and it is done.
Stops ==
  /\ stopCh /\ mgr \in {"start", "pause", "closing"} /\ mgr' = "stopped"
  /\ forwards' = [a \in Apps |-> Missing]
  /\ listening' = listening \cap orphans
  /\ UNCHANGED <<hostSide, wire, link, stuck, feed, stopCh, orphans, lastBy, busy, refresh,
                 refreshed, managers>>

-----------------------------------------------------------------------------
(* The shell's loop: it runs one of these at a time, and none while it     *)
(* waits in Stop.                                                          *)

ShellFree == ~stopCh

\* startForwardManager with a new gateway, closeShellGateway, the end of the
\* program: the manager is told to stop, and the shell waits for it.
StopManager ==
  /\ ShellFree /\ stopCh' = TRUE
  /\ UNCHANGED <<hostSide, wire, link, stuck, feed, mgr, held, busy, refresh, refreshed, managers>>

\* doneCh is closed; the shell goes on with a manager for a new connection.
StartManager ==
  /\ stopCh /\ mgr = "stopped" /\ managers < MaxManagers
  /\ managers' = managers + 1
  /\ mgr' = "start" /\ stopCh' = FALSE /\ link' = "up" /\ stuck' = FALSE
  /\ UNCHANGED <<hostSide, wire, feed, held, busy, refresh, refreshed>>

\* A refresh starts from a list of the moment; the ports of a list that had
\* only names are asked for one by one, and a failed call leaves one unknown.
StartRefresh(r) ==
  /\ ShellFree /\ link = "up" /\ refresh[r].pc = "off" /\ refreshed < MaxRefreshes
  /\ \E lost \in SUBSET {a \in Apps : table[a] # NoPort} :
       refresh' = [refresh EXCEPT ![r] =
         [pc |-> "fetch", list |-> [a \in Apps |-> IF a \in lost THEN Unknown ELSE table[a]]]]
  /\ refreshed' = refreshed + 1
  /\ UNCHANGED <<hostSide, wire, link, stuck, feed, mgr, stopCh, held, busy, managers>>

\* Its message reaches Update: syncFromSummaries, unless a call failed for good.
ApplyRefresh(r) ==
  /\ ShellFree /\ refresh[r].pc = "fetch"
  /\ refresh' = [refresh EXCEPT ![r] = Quiet]
  /\ \/ Sync(refresh[r].list, "shell")
     \/ UNCHANGED held
  /\ UNCHANGED <<hostSide, wire, link, stuck, feed, mgr, stopCh, busy, refreshed, managers>>

-----------------------------------------------------------------------------
StreamReaderStep == Receive \/ Offer \/ Drain \/ OfferAgain
ManagerStep ==
  \/ Begin \/ OpenStream \/ OpenFails \/ Consume \/ SeesStop \/ CloseStream \/ Wake \/ Stops

ForwardsNext ==
  \/ TableChanges \/ LinkBreaks \/ Sticks \/ OtherProgram
  \/ Poll \/ StreamReaderStep \/ ManagerStep
  \/ StopManager \/ StartManager
  \/ \E r \in Refreshes : StartRefresh(r) \/ ApplyRefresh(r)

ForwardsSpec == ForwardsInit /\ [][ForwardsNext]_forwardsVars

\* The ticker goes off every two seconds; the goroutines go on.  What goes over
\* the connection is certain only while nothing is stuck.
ForwardsFairness ==
  /\ WF_forwardsVars(~stuck /\ (Poll \/ StreamReaderStep))
  /\ WF_forwardsVars(ManagerStep)
ForwardsFairSpec == ForwardsSpec /\ ForwardsFairness

-----------------------------------------------------------------------------
(* Properties                                                              *)

\* Every variable has its type: the channel of startAppsStream holds at most
\* one snapshot.
ForwardsTypeOK ==
  /\ table \in [Apps -> Ports \cup {NoPort}] /\ lastSent \in Lists
  /\ Range(wire) \subseteq Lists /\ link \in {"up", "down"} /\ stuck \in BOOLEAN
  /\ reader.pc \in {"off", "receive", "offer", "drain", "again"}
  /\ reader.list \in Lists \cup {Broken}
  /\ Len(box) <= 1 /\ Range(box) \subseteq Lists \cup {Broken}
  /\ mgr \in ManagerStates /\ stopCh \in BOOLEAN
  /\ forwards \in [Apps -> [port : Ports \cup {NoPort}, ok : BOOLEAN]]
  /\ listening \subseteq Ports /\ busy \subseteq Ports /\ orphans \subseteq Ports
  /\ refresh \in [Refreshes -> [pc : {"off", "fetch"}, list : Lists]]
  /\ lastBy \in {"stream", "shell"}

\* Every listener of the shell belongs to the entry of exactly one app, except
\* those whose entry was dropped because the app's port could not be found out
\* (syncFromSnapshots deletes those without closing them).  In particular a
\* manager that has been stopped leaves no other listener behind: the next one
\* finds its ports free.
ListenersAccountedFor ==
  /\ listening = orphans \cup {forwards[a].port : a \in {b \in Apps : forwards[b].ok}}
  /\ \A a, b \in Apps : forwards[a].ok /\ forwards[b].ok /\ forwards[a].port = forwards[b].port => a = b
  /\ \A a \in Apps : forwards[a].ok => forwards[a].port \notin orphans \cup busy
  /\ mgr = "stopped" => \A a \in Apps : ~forwards[a].ok

\* While the connection and the manager last and work, and no refresh of the shell has
\* the last word, every app's entry comes to have the port of the server's
\* table: the newest list gets through the one-slot channel, however the
\* reader's three selects and the manager's receive interleave.
ForwardsFollowTable ==
  <>[](link = "up" /\ ~stuck /\ ~stopCh /\ lastBy = "stream")
    => <>[](\A a \in Apps : forwards[a].port = table[a])

\* Its safety half: as long as a reader is there, the newest list that was sent
\* is on its way, in the reader's hands or in the channel, or it is the last one
\* the stream applied.  The three selects never drop it for an older one.
NewestListKept ==
  reader.pc # "off" /\ reader.list # Broken /\ lastSent # Nothing =>
    IF wire # <<>> THEN wire[Len(wire)] = lastSent
    ELSE IF reader.pc # "receive" THEN reader.list = lastSent
    ELSE \/ box = <<lastSent>>
         \/ box = <<>> /\ (lastBy = "stream" => \A a \in Apps : forwards[a].port = lastSent[a])

\* Stop, which the shell's loop waits in, returns, wherever the manager is when
\* it is told to stop, if what opens or closes streams is not stuck for ever.
\* If it is, Stop and the shell with it wait for ever.
StopReturns == <>[]~stuck => (stopCh ~> mgr = "stopped")
=============================================================================
