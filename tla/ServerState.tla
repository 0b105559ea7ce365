---------------------------- MODULE ServerState ----------------------------
(***************************************************************************)
(* The host's server state: the app-to-port table of internal/server in    *)
(* server-state.json, and the `viberun-server` commands that read it,      *)
(* reconcile it with docker, write it back and act on an app's container.  *)
(*                                                                         *)
(* Every command is a process of its own that loads the table, works on    *)
(* its copy and writes the copy back.  There is no lock: one process at a  *)
(* time (Procs a singleton) is what the commands are written for, more     *)
(* than one is what two clients of a host produce.                         *)
(***************************************************************************)
EXTENDS Integers, FiniteSets

CONSTANTS
  Procs,     \* server processes alive at the same time
  Apps,      \* names of apps, all of one length
  BasePort   \* first port handed out (8080 in the code)

ASSUME StateAssumption ==
  /\ IsFiniteSet(Apps) /\ Apps # {}
  /\ BasePort \in Nat \ {0}

Ports == BasePort..(BasePort + Cardinality(Apps))
NoPort == 0
Kinds == {"apps", "port", "open", "update", "restore", "delete"}

VARIABLES
  file,       \* server-state.json: its table, its length in entries, and
              \* whether it parses
  removed,    \* history: an operator has deleted the file
  container,  \* container[a]: docker's container viberun-<a>
  pc,         \* pc[p]: where process p is in runServer
  job,        \* job[p]: its action and app
  phase,      \* phase[p]: which persistState it is in
  mem,        \* mem[p]: its copy of the table
  dirty,      \* dirty[p]: stateDirty
  exists,     \* exists[p]: what its containerExists said
  port        \* port[p]: what its resolvePort said

proc == <<pc, job, phase, mem, dirty, exists, port>>
vars == <<file, removed, container, proc>>

Table == [Apps -> Ports \cup {NoPort}]
NoTable == [a \in Apps |-> NoPort]
Entries(m) == {a \in Apps : m[a] # NoPort}
Length(m) == Cardinality(Entries(m))
Absent == [st |-> "absent", port |-> NoPort]
Container == [st : {"created", "stopped", "running"}, port : Ports] \cup {Absent}
App(p) == job[p].app

Init ==
  /\ file = [map |-> NoTable, len |-> 0, ok |-> TRUE]
  /\ removed = FALSE
  /\ container = [a \in Apps |-> Absent]
  /\ pc = [p \in Procs |-> "off"]
  /\ job \in [Procs -> [kind : {"apps"}, app : Apps]]
  /\ phase = [p \in Procs |-> "synced"]
  /\ mem = [p \in Procs |-> NoTable]
  /\ dirty = [p \in Procs |-> FALSE] /\ exists = [p \in Procs |-> FALSE]
  /\ port = [p \in Procs |-> NoPort]

Goto(p, l) == pc' = [pc EXCEPT ![p] = l]
SetMem(p, m) == mem' = [mem EXCEPT ![p] = m]
Persist(p, ph) ==
  /\ Goto(p, "persist")
  /\ phase' = [phase EXCEPT ![p] = ph]

-----------------------------------------------------------------------------
(* internal/server: AssignPort                                             *)

\* Mutant: as many entries, as many ports.
AssignPortByCount(m) == BasePort + Cardinality(Entries(m))

\* The first port, from basePort on, that no entry has.
AssignPort(m) ==
  CHOOSE q \in Ports :
    /\ \A a \in Apps : m[a] # q
    /\ \A r \in Ports : r < q => \E a \in Apps : m[a] = r

-----------------------------------------------------------------------------
(* The start of every command: load the table, add what docker knows       *)

Begin(p, k, a) ==
  /\ pc[p] = "off"
  /\ job' = [job EXCEPT ![p] = [kind |-> k, app |-> a]]
  /\ Goto(p, "load")
  /\ UNCHANGED <<file, removed, container, phase, mem, dirty, exists, port>>

\* LoadState; a file that does not parse ends the command.
Load(p) ==
  /\ pc[p] = "load"
  /\ IF file.ok
     THEN SetMem(p, file.map) /\ Goto(p, "sync")
     ELSE Goto(p, "off") /\ UNCHANGED mem
  /\ dirty' = [dirty EXCEPT ![p] = FALSE]
  /\ UNCHANGED <<file, removed, container, job, phase, exists, port>>

\* syncPortsFromContainers: docker ps shows a port only while the container
\* runs.
Sync(p) ==
  /\ pc[p] = "sync"
  /\ LET unknown == {a \in Apps : mem[p][a] = NoPort /\ container[a].st = "running"} IN
       /\ SetMem(p, [a \in Apps |-> IF a \in unknown THEN container[a].port
                                    ELSE mem[p][a]])
       /\ dirty' = [dirty EXCEPT ![p] = unknown # {}]
  /\ Persist(p, "synced")
  /\ UNCHANGED <<file, removed, container, job, exists, port>>

\* Where runServer (or handleAppsCommand) goes on after a persistState.
AfterPersist(p) ==
  IF phase[p] = "synced" /\ job[p].kind # "apps" THEN "exists"
  ELSE IF phase[p] = "resolved" /\ job[p].kind # "port" THEN "act"
  ELSE "off"

PersistClean(p) ==
  /\ pc[p] = "persist" /\ ~dirty[p]
  /\ Goto(p, AfterPersist(p))
  /\ UNCHANGED <<file, removed, container, job, phase, mem, dirty, exists, port>>

\* SaveState is os.WriteFile: the file is truncated ...
SaveTruncate(p) ==
  /\ pc[p] = "persist" /\ dirty[p]
  /\ file' = [file EXCEPT !.len = 0, !.ok = FALSE]
  /\ Goto(p, "write")
  /\ UNCHANGED <<removed, container, job, phase, mem, dirty, exists, port>>

\* ... and then written from its start: of a longer text another process has
\* written in between, the end stays.
SaveWrite(p) ==
  /\ pc[p] = "write"
  /\ file' = [map |-> mem[p],
              len |-> IF file.len > Length(mem[p]) THEN file.len ELSE Length(mem[p]),
              ok |-> file.len <= Length(mem[p])]
  /\ dirty' = [dirty EXCEPT ![p] = FALSE]
  /\ Goto(p, AfterPersist(p))
  /\ UNCHANGED <<removed, container, job, phase, mem, exists, port>>

CheckExists(p) ==
  /\ pc[p] = "exists"
  /\ exists' = [exists EXCEPT ![p] = container[App(p)].st # "absent"]
  /\ Goto(p, IF job[p].kind = "delete" THEN "rm" ELSE "resolve")
  /\ UNCHANGED <<file, removed, container, job, phase, mem, dirty, port>>

-----------------------------------------------------------------------------
(* resolvePort                                                             *)

\* Mutant: an app whose container exists is given a new port like any other.
ResolvePortAfresh(p) ==
  LET a == App(p)
      q == IF mem[p][a] # NoPort THEN mem[p][a] ELSE AssignPort(mem[p])
  IN
  /\ pc[p] = "resolve"
  /\ port' = [port EXCEPT ![p] = q]
  /\ SetMem(p, [mem[p] EXCEPT ![a] = q])
  /\ dirty' = [dirty EXCEPT ![p] = @ \/ mem[p][a] = NoPort]
  /\ Persist(p, "resolved")
  /\ UNCHANGED <<file, removed, container, job, exists>>

\* The entry, or the running container's port, or a new port for an app
\* without a container.
ResolvePort(p) ==
  LET a == App(p)
      q == IF mem[p][a] # NoPort THEN mem[p][a]
           ELSE IF exists[p] THEN container[a].port
           ELSE AssignPort(mem[p])
  IN
  /\ pc[p] = "resolve"
  /\ exists[p] /\ mem[p][a] = NoPort => container[a].st = "running"
  /\ port' = [port EXCEPT ![p] = q]
  /\ SetMem(p, [mem[p] EXCEPT ![a] = q])
  /\ dirty' = [dirty EXCEPT ![p] = @ \/ mem[p][a] = NoPort]
  /\ Persist(p, "resolved")
  /\ UNCHANGED <<file, removed, container, job, exists>>

\* docker shows no port for a container that does not run: the command fails.
ResolvePortFails(p) ==
  /\ pc[p] = "resolve"
  /\ exists[p] /\ mem[p][App(p)] = NoPort /\ container[App(p)].st # "running"
  /\ Goto(p, "off")
  /\ UNCHANGED <<file, removed, container, job, phase, mem, dirty, exists, port>>

-----------------------------------------------------------------------------
(* What the commands do to the container                                   *)

InUse(q, a) == \E b \in Apps \ {a} : container[b].st = "running" /\ container[b].port = q
SetContainer(a, c) == container' = [container EXCEPT ![a] = c]
Act(p, k) == pc[p] = "act" /\ job[p].kind = k

OpenMissing(p) ==
  /\ Act(p, "open") /\ ~exists[p]
  /\ Goto(p, "run")
  /\ UNCHANGED <<file, removed, container, job, phase, mem, dirty, exists, port>>

OpenExisting(p) ==
  /\ Act(p, "open") /\ exists[p]
  /\ Goto(p, IF container[App(p)].st = "running" THEN "off" ELSE "start")
  /\ UNCHANGED <<file, removed, container, job, phase, mem, dirty, exists, port>>

\* update: docker rm -f, then run again on the same port.
UpdateRemove(p) ==
  /\ Act(p, "update") /\ exists[p]
  /\ SetContainer(App(p), Absent)
  /\ Goto(p, "run")
  /\ UNCHANGED <<file, removed, job, phase, mem, dirty, exists, port>>

\* restoreSnapshot looks for the container once more, and stops it.
RestoreStop(p) ==
  LET c == container[App(p)] IN
  /\ Act(p, "restore")
  /\ IF c.st = "absent"
     THEN Goto(p, "run") /\ UNCHANGED container
     ELSE /\ Goto(p, "start")
          /\ SetContainer(App(p), IF c.st = "running" THEN [c EXCEPT !.st = "stopped"] ELSE c)
  /\ UNCHANGED <<file, removed, job, phase, mem, dirty, exists, port>>

\* docker run: refused when the name is taken; when the port is, by another
\* app or another program, the container stays behind, created.
DockerRun(p) ==
  /\ pc[p] = "run"
  /\ \/ /\ container[App(p)].st = "absent" /\ ~InUse(port[p], App(p))
        /\ SetContainer(App(p), [st |-> "running", port |-> port[p]])
     \/ /\ container[App(p)].st = "absent"
        /\ SetContainer(App(p), [st |-> "created", port |-> port[p]])
     \/ /\ container[App(p)].st # "absent"
        /\ UNCHANGED container
  /\ Goto(p, "off")
  /\ UNCHANGED <<file, removed, job, phase, mem, dirty, exists, port>>

\* docker start binds the port the container was created with.
DockerStart(p) ==
  LET c == container[App(p)] IN
  /\ pc[p] = "start"
  /\ IF c.st # "absent" /\ ~InUse(c.port, App(p))
     THEN SetContainer(App(p), [c EXCEPT !.st = "running"])
     ELSE UNCHANGED container
  /\ Goto(p, "off")
  /\ UNCHANGED <<file, removed, job, phase, mem, dirty, exists, port>>

\* deleteApp up to the home volume: docker rm -f.
DeleteContainer(p) ==
  /\ pc[p] = "rm"
  /\ IF exists[p] THEN SetContainer(App(p), Absent) ELSE UNCHANGED container
  /\ Goto(p, "forget")
  /\ UNCHANGED <<file, removed, job, phase, mem, dirty, exists, port>>

\* RemoveApp, after everything else of the app is gone.
DeleteEntry(p) ==
  /\ pc[p] = "forget"
  /\ dirty' = [dirty EXCEPT ![p] = @ \/ mem[p][App(p)] # NoPort]
  /\ SetMem(p, [mem[p] EXCEPT ![App(p)] = NoPort])
  /\ Persist(p, "forgotten")
  /\ UNCHANGED <<file, removed, container, job, exists, port>>

\* A step of the command fails, or the process is killed.
Dies(p) ==
  /\ pc[p] # "off"
  /\ Goto(p, "off")
  /\ UNCHANGED <<file, removed, container, job, phase, mem, dirty, exists, port>>

-----------------------------------------------------------------------------
(* Around the commands                                                     *)

\* The container's main process ends, or the host reboots.
ContainerStops(a) ==
  /\ container[a].st = "running"
  /\ container' = [container EXCEPT ![a].st = "stopped"]
  /\ UNCHANGED <<file, removed, proc>>

\* An operator deletes a state file: the commands then start from an empty
\* table.
FileRemoved ==
  /\ ~removed /\ removed' = TRUE
  /\ \A p \in Procs : pc[p] = "off"
  /\ file' = [map |-> NoTable, len |-> 0, ok |-> TRUE]
  /\ UNCHANGED <<container, proc>>

Step(p) ==
  \/ \E k \in Kinds, a \in Apps : Begin(p, k, a)
  \/ Load(p) \/ Sync(p) \/ PersistClean(p) \/ SaveTruncate(p) \/ SaveWrite(p)
  \/ CheckExists(p) \/ ResolvePort(p) \/ ResolvePortFails(p)
  \/ OpenMissing(p) \/ OpenExisting(p) \/ UpdateRemove(p) \/ RestoreStop(p)
  \/ DockerRun(p) \/ DockerStart(p) \/ DeleteContainer(p) \/ DeleteEntry(p)
  \/ Dies(p)

Next ==
  \/ \E p \in Procs : Step(p)
  \/ \E a \in Apps : ContainerStops(a)
  \/ FileRemoved

Spec == Init /\ [][Next]_vars

-----------------------------------------------------------------------------
(* Properties                                                              *)

\* Every variable has its type: no port outside the range the first free one
\* can lie in, whatever was deleted in between.
TypeOK ==
  /\ file \in [map : Table, len : 0..Cardinality(Apps), ok : BOOLEAN]
  /\ removed \in BOOLEAN
  /\ container \in [Apps -> Container]
  /\ pc \in [Procs -> {"off", "load", "sync", "persist", "write", "exists", "resolve",
                       "act", "run", "start", "rm", "forget"}]
  /\ job \in [Procs -> [kind : Kinds, app : Apps]]
  /\ phase \in [Procs -> {"synced", "resolved", "forgotten"}]
  /\ mem \in [Procs -> Table]
  /\ dirty \in [Procs -> BOOLEAN] /\ exists \in [Procs -> BOOLEAN]
  /\ port \in [Procs -> Ports \cup {NoPort}]

\* Two apps never have the same host port, through any sequence of commands,
\* failures, deletions and reboots, and after the file was deleted by hand.
UniquePorts ==
  \A a, b \in Entries(file.map) : file.ok /\ file.map[a] = file.map[b] => a = b

\* The port forwards and the proxy are given (the entry) is the one the app's
\* container was created with, and a container always has an entry: without
\* one it could not be opened, restored or updated once it stops, because
\* docker no longer shows its port.  Only a deleted state file brings that
\* about.
EntryMatchesContainer ==
  \A a \in Apps :
    file.ok /\ container[a] # Absent =>
      IF a \in Entries(file.map) THEN container[a].port = file.map[a] ELSE removed

=============================================================================
