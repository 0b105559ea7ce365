-------------------------- MODULE ServerStateProofs --------------------------
(***************************************************************************)
(* ServerState for any number of apps: AssignPort always finds a port, and *)
(* as long as server commands do not overlap no two apps share one and a   *)
(* container's port is the one its entry has.                              *)
(***************************************************************************)
EXTENDS ServerState, FiniteSetTheorems, WellFoundedInduction, TLAPS

\* A port that was resolved is one, whatever else goes on.
HasPort(p) == pc[p] \in {"act", "run"} \/ (pc[p] \in {"persist", "write"} /\ phase[p] = "resolved")
PortResolved == \A p \in Procs : HasPort(p) => port[p] \in Ports
PortInv == TypeOK /\ PortResolved

\* Commands do not overlap: what the server is written for.
OneAtATime == \A p, q \in Procs : pc[p] # "off" /\ pc[q] # "off" => p = q

\* A table m that can be relied on, with docker's containers c: the ports are
\* distinct, each is its container's, and a running container the table has
\* lost (in a file that was removed) holds none of them.
Sound(m, c, lost) ==
  /\ \A a, b \in Apps : m[a] # NoPort /\ m[a] = m[b] => a = b
  /\ \A a \in Apps : c[a] # Absent => IF m[a] # NoPort THEN c[a].port = m[a] ELSE lost
  /\ \A a, b \in Apps : c[a].st = "running" /\ m[a] = NoPort => m[b] # c[a].port

\* docker binds a port for one container at a time.
Bound(c) ==
  \A a, b \in Apps : c[a].st = "running" /\ c[b].st = "running" /\ c[a].port = c[b].port => a = b

\* What the command under way has in memory, and has written.
InMemory(p) ==
  /\ pc[p] \notin {"off", "load"} => Sound(mem[p], container, removed)
  /\ pc[p] \notin {"off", "load", "sync"} =>
       \A a \in Apps : container[a].st = "running" => mem[p][a] # NoPort
  /\ HasPort(p) => mem[p][App(p)] = port[p]
  /\ pc[p] = "start" => mem[p][App(p)] # NoPort
OnDisk(p) ==
  /\ pc[p] \in {"exists", "resolve", "act", "run", "start", "rm", "forget"} => ~dirty[p]
  /\ pc[p] \in {"sync", "exists", "resolve", "act", "run", "start", "rm", "forget"}
       \/ (pc[p] = "persist" /\ ~dirty[p])
     => file.ok /\ file.map = mem[p]
  /\ pc[p] = "write" => file.len = 0
InDocker(p) ==
  /\ pc[p] \in {"resolve", "rm", "act"} \/ (pc[p] \in {"persist", "write"} /\ phase[p] = "resolved")
     => (exists[p] <=> container[App(p)] # Absent)
  /\ pc[p] = "forget" => container[App(p)] = Absent

FileSound == file.ok => Sound(file.map, container, removed)
SoundInv ==
  /\ FileSound /\ Bound(container)
  /\ \A p \in Procs : InMemory(p) /\ OnDisk(p) /\ InDocker(p)

-----------------------------------------------------------------------------
(* Ports                                                                   *)

\* There are finitely many apps.
LEMMA AppCount == Cardinality(Apps) \in Nat
BY StateAssumption, FS_CardinalityType

\* Ports are numbers, and no port is none of them.
LEMMA PortFacts == Ports \subseteq Nat /\ NoPort \notin Ports
BY StateAssumption, AppCount DEF Ports, NoPort

\* A table has no more entries than there are apps.
LEMMA EntryCount ==
  ASSUME NEW m
  PROVE  Length(m) \in 0..Cardinality(Apps)
<1>1. Entries(m) \in SUBSET Apps
  BY DEF Entries
<1>2. IsFiniteSet(Entries(m)) /\ Cardinality(Entries(m)) <= Cardinality(Apps)
  BY <1>1, StateAssumption, FS_Subset
<1> QED
  BY <1>2, AppCount, FS_CardinalityType DEF Length

\* There is one port more than there are apps, so one is free.
LEMMA SomePortFree ==
  ASSUME NEW m
  PROVE  \E q \in Ports : \A a \in Apps : m[a] # q
<1> DEFINE used == {m[a] : a \in Apps}
           f == [a \in Apps |-> m[a]]
<1>1. f \in Surjection(Apps, used)
  BY DEF Surjection
<1>2. IsFiniteSet(used) /\ Cardinality(used) <= Cardinality(Apps)
  BY <1>1, StateAssumption, FS_Surjection
<1>3. IsFiniteSet(Ports) /\ Cardinality(Ports) = Cardinality(Apps) + 1
  BY StateAssumption, AppCount, FS_Interval DEF Ports
<1>4. ~(Ports \subseteq used)
  <2> SUFFICES ASSUME Ports \in SUBSET used PROVE FALSE
    OBVIOUS
  <2>1. Cardinality(Ports) <= Cardinality(used)
    BY <1>2, FS_Subset
  <2> QED
    BY <2>1, <1>2, <1>3, AppCount, FS_CardinalityType
<1> QED
  BY <1>4

\* A set of ports has a least one.
LEMMA LeastPort ==
  ASSUME NEW F \in SUBSET Ports, F # {}
  PROVE  \E q \in F : \A r \in F : q <= r
<1>1. F \subseteq Nat
  BY PortFacts
<1>2. PICK q \in F : \A r \in F : ~ (<<r, q>> \in OpToRel(<, Nat))
  BY <1>1, NatLessThanWellFounded, WFMin
<1>3. \A r \in F : ~ (r < q)
  BY <1>1, <1>2 DEF OpToRel
<1> QED
  BY <1>1, <1>3

\* AssignPort finds a port, and no entry has it.
LEMMA Assigned ==
  ASSUME NEW m
  PROVE  AssignPort(m) \in Ports /\ \A a \in Apps : m[a] # AssignPort(m)
<1> DEFINE F == {q \in Ports : \A a \in Apps : m[a] # q}
<1>1. F # {} /\ F \in SUBSET Ports
  BY SomePortFree
<1>2. PICK q \in F : \A r \in F : q <= r
  BY <1>1, LeastPort
<1>3. /\ q \in Ports /\ \A a \in Apps : m[a] # q
      /\ \A r \in Ports : r < q => \E a \in Apps : m[a] = r
  BY <1>2, PortFacts
<1> QED
  BY <1>3 DEF AssignPort

-----------------------------------------------------------------------------
(* Types                                                                   *)

\* What docker can say of a container.
LEMMA ContainerFacts ==
  /\ Absent \in Container
  /\ \A q \in Ports : {[st |-> "running", port |-> q], [st |-> "created", port |-> q]} \subseteq Container
  /\ \A c \in Container :
       /\ c.st = "absent" <=> c = Absent
       /\ c.st # "absent" => c.st \in {"created", "stopped", "running"} /\ c.port \in Ports
BY DEF Container, Absent

\* A container is stopped or started on the port it was created with.
LEMMA SameContainer ==
  ASSUME NEW c \in Container, c.st # "absent", NEW s \in {"stopped", "running"}
  PROVE  /\ [c EXCEPT !.st = s] \in Container
         /\ [c EXCEPT !.st = s].st = s /\ [c EXCEPT !.st = s].port = c.port
BY DEF Container, Absent

\* Where a command goes on after it has persisted the table.
LEMMA AfterPersistFacts ==
  ASSUME NEW p \in Procs
  PROVE  /\ AfterPersist(p) \in {"exists", "act", "off"}
         /\ AfterPersist(p) = "act" => phase[p] = "resolved"
BY DEF AfterPersist

\* Init establishes the types.
LEMMA InitPortInv == Init => PortInv
<1> SUFFICES ASSUME Init PROVE PortInv
  OBVIOUS
<1>1. NoTable \in Table
  BY DEF NoTable, Table
<1>2. file \in [map : Table, len : 0..Cardinality(Apps), ok : BOOLEAN]
  BY <1>1, AppCount DEF Init
<1>3. job \in [Procs -> [kind : Kinds, app : Apps]]
  BY DEF Init, Kinds
<1>4. container \in [Apps -> Container] /\ mem \in [Procs -> Table]
  BY <1>1, ContainerFacts DEF Init
<1> QED
  BY <1>2, <1>3, <1>4 DEF Init, PortInv, TypeOK, PortResolved, HasPort

\* Every step of a command keeps them, whatever the other commands do.
LEMMA StepPortInv ==
  ASSUME PortInv, NEW p \in Procs, Step(p)
  PROVE  PortInv'
<1> USE DEF PortInv, TypeOK, PortResolved, HasPort, Goto, SetMem, Persist, Act
<1>a. App(p) \in Apps
  BY DEF App
<1>b. container[App(p)] \in Container /\ mem[p] \in Table
  BY <1>a
<1>c. \A m \in Table, a \in Apps : \A q \in Ports \cup {NoPort} : [m EXCEPT ![a] = q] \in Table
  BY DEF Table
<1>d. \A c \in Container : SetContainer(App(p), c) => container' \in [Apps -> Container]
  BY <1>a DEF SetContainer
<1>1. ASSUME NEW k \in Kinds, NEW a \in Apps, Begin(p, k, a) PROVE PortInv'
  BY <1>1 DEF Begin
<1>2. CASE Load(p)
  BY <1>2 DEF Load
<1>3. CASE Sync(p)
  <2> DEFINE unknown == {a \in Apps : mem[p][a] = NoPort /\ container[a].st = "running"}
             m == [a \in Apps |-> IF a \in unknown THEN container[a].port ELSE mem[p][a]]
  <2>1. m \in Table
    <3>1. ASSUME NEW a \in unknown PROVE container[a].port \in Ports
      <4>1. container[a] \in Container /\ container[a].st # "absent"
        OBVIOUS
      <4> QED
        BY <4>1, ContainerFacts
    <3> QED
      BY <1>b, <3>1 DEF Table
  <2>2. mem' = [mem EXCEPT ![p] = m] /\ dirty' = [dirty EXCEPT ![p] = unknown # {}]
    BY <1>3 DEF Sync
  <2>3. mem' \in [Procs -> Table]
    BY <2>1, <2>2
  <2>4. dirty' \in [Procs -> BOOLEAN]
    BY <2>2
  <2> QED
    BY <1>3, <2>3, <2>4 DEF Sync
<1>4. CASE PersistClean(p)
  BY <1>4, AfterPersistFacts DEF PersistClean
<1>5. CASE SaveTruncate(p)
  <2>1. file' = [file EXCEPT !.len = 0, !.ok = FALSE] /\ 0 \in 0..Cardinality(Apps)
    BY <1>5, AppCount DEF SaveTruncate
  <2>2. file' \in [map : Table, len : 0..Cardinality(Apps), ok : BOOLEAN]
    BY <2>1
  <2> QED
    BY <1>5, <2>2 DEF SaveTruncate
<1>6. CASE SaveWrite(p)
  <2>1. file' \in [map : Table, len : 0..Cardinality(Apps), ok : BOOLEAN]
    BY <1>6, <1>b, EntryCount DEF SaveWrite
  <2>2. dirty' \in [Procs -> BOOLEAN]
    BY <1>6 DEF SaveWrite
  <2> QED
    BY <1>6, <2>1, <2>2, AfterPersistFacts DEF SaveWrite
<1>7. CASE CheckExists(p)
  BY <1>7 DEF CheckExists
<1>8. CASE ResolvePort(p)
  <2> DEFINE a == App(p)
             q == IF mem[p][a] # NoPort THEN mem[p][a]
                  ELSE IF exists[p] THEN container[a].port
                  ELSE AssignPort(mem[p])
  <2>1. q \in Ports
    <3>1. CASE mem[p][a] # NoPort
      BY <1>a, <1>b, <3>1 DEF Table
    <3>2. CASE mem[p][a] = NoPort /\ exists[p]
      BY <1>8, <1>b, <3>2, ContainerFacts DEF ResolvePort
    <3>3. CASE mem[p][a] = NoPort /\ ~exists[p]
      BY <3>3, Assigned
    <3> QED
      BY <3>1, <3>2, <3>3
  <2>2. /\ port' = [port EXCEPT ![p] = q] /\ mem' = [mem EXCEPT ![p] = [mem[p] EXCEPT ![a] = q]]
        /\ dirty' = [dirty EXCEPT ![p] = dirty[p] \/ mem[p][a] = NoPort]
    BY <1>8 DEF ResolvePort
  <2>3. mem' \in [Procs -> Table]
    BY <1>a, <1>b, <1>c, <2>1, <2>2
  <2>4. dirty' \in [Procs -> BOOLEAN]
    BY <2>2
  <2>5. port' \in [Procs -> Ports \cup {NoPort}] /\ port'[p] \in Ports
    BY <2>1, <2>2
  <2> QED
    BY <1>8, <2>2, <2>3, <2>4, <2>5 DEF ResolvePort
<1>9. CASE ResolvePortFails(p)
  BY <1>9 DEF ResolvePortFails
<1>10. CASE OpenMissing(p)
  BY <1>10 DEF OpenMissing
<1>11. CASE OpenExisting(p)
  BY <1>11 DEF OpenExisting
<1>12. CASE UpdateRemove(p)
  <2>1. container' \in [Apps -> Container]
    BY <1>12, <1>d, ContainerFacts DEF UpdateRemove
  <2> QED
    BY <1>12, <2>1 DEF UpdateRemove
<1>13. CASE RestoreStop(p)
  <2>1. container' \in [Apps -> Container]
    <3>1. CASE container[App(p)].st = "running"
      <4>1. SetContainer(App(p), [container[App(p)] EXCEPT !.st = "stopped"])
        BY <1>13, <3>1 DEF RestoreStop
      <4>2. [container[App(p)] EXCEPT !.st = "stopped"] \in Container
        BY <1>b, <3>1, SameContainer
      <4> QED
        BY <4>1, <4>2, <1>d
    <3>2. CASE container[App(p)].st # "running"
      BY <1>13, <1>b, <1>d, <3>2 DEF RestoreStop
    <3> QED
      BY <3>1, <3>2
  <2> QED
    BY <1>13, <2>1 DEF RestoreStop
<1>14. CASE DockerRun(p)
  <2>1. container' \in [Apps -> Container]
    <3>1. {[st |-> "running", port |-> port[p]], [st |-> "created", port |-> port[p]]} \subseteq Container
      BY <1>14, ContainerFacts DEF DockerRun
    <3> QED
      BY <1>14, <1>d, <3>1 DEF DockerRun
  <2> QED
    BY <1>14, <2>1 DEF DockerRun
<1>15. CASE DockerStart(p)
  <2>1. container' \in [Apps -> Container]
    <3>1. CASE container[App(p)].st # "absent" /\ ~InUse(container[App(p)].port, App(p))
      BY <1>15, <1>b, <1>d, <3>1, SameContainer DEF DockerStart
    <3>2. CASE ~(container[App(p)].st # "absent" /\ ~InUse(container[App(p)].port, App(p)))
      BY <1>15, <3>2 DEF DockerStart
    <3> QED
      BY <3>1, <3>2
  <2> QED
    BY <1>15, <2>1 DEF DockerStart
<1>16. CASE DeleteContainer(p)
  <2>1. container' \in [Apps -> Container]
    BY <1>16, <1>d, ContainerFacts DEF DeleteContainer
  <2> QED
    BY <1>16, <2>1 DEF DeleteContainer
<1>17. CASE DeleteEntry(p)
  <2>1. mem' \in [Procs -> Table]
    BY <1>17, <1>a, <1>b, <1>c DEF DeleteEntry
  <2>2. dirty' \in [Procs -> BOOLEAN]
    BY <1>17 DEF DeleteEntry
  <2> QED
    BY <1>17, <2>1, <2>2 DEF DeleteEntry
<1>18. CASE Dies(p)
  BY <1>18 DEF Dies
<1> QED
  BY <1>1, <1>2, <1>3, <1>4, <1>5, <1>6, <1>7, <1>8, <1>9, <1>10, <1>11, <1>12, <1>13, <1>14, <1>15, <1>16, <1>17, <1>18 DEF Step

\* Every step keeps the ports where they should be.
LEMMA NextPortInv == PortInv /\ [Next]_vars => PortInv'
<1> SUFFICES ASSUME PortInv, [Next]_vars PROVE PortInv'
  OBVIOUS
<1> USE DEF PortInv, TypeOK, PortResolved, HasPort
<1>1. ASSUME NEW p \in Procs, Step(p) PROVE PortInv'
  BY <1>1, StepPortInv
<1>2. ASSUME NEW a \in Apps, ContainerStops(a) PROVE PortInv'
  <2>1. [container[a] EXCEPT !.st = "stopped"] \in Container
    BY <1>2, SameContainer DEF ContainerStops
  <2>2. container' \in [Apps -> Container]
    BY <1>2, <2>1 DEF ContainerStops
  <2> QED
    BY <1>2, <2>2 DEF ContainerStops, proc
<1>3. CASE FileRemoved
  <2>1. NoTable \in Table
    BY DEF NoTable, Table
  <2>2. file' \in [map : Table, len : 0..Cardinality(Apps), ok : BOOLEAN]
    BY <1>3, <2>1, AppCount DEF FileRemoved
  <2> QED
    BY <1>3, <2>2 DEF FileRemoved, proc
<1>4. CASE UNCHANGED vars
  BY <1>4 DEF vars, proc
<1> QED
  BY <1>1, <1>2, <1>3, <1>4 DEF Next

\* Types, and every port handed out lies in the range the first free one can
\* lie in: however many commands overlap.
THEOREM Typing == Spec => []TypeOK
<1>1. PortInv => TypeOK
  BY DEF PortInv
<1> QED
  BY InitPortInv, NextPortInv, <1>1, PTL DEF Spec

-----------------------------------------------------------------------------
(* Sound tables                                                            *)

\* A container that stops keeps its port.
LEMMA SoundStopped ==
  ASSUME NEW m \in Table, NEW c \in [Apps -> Container], NEW lost, NEW a \in Apps,
         c[a].st # "absent"
  PROVE  LET d == [c EXCEPT ![a] = [c[a] EXCEPT !.st = "stopped"]]
         IN  (Sound(m, c, lost) => Sound(m, d, lost)) /\ (Bound(c) => Bound(d))
<1> DEFINE s == [c[a] EXCEPT !.st = "stopped"]
           d == [c EXCEPT ![a] = s]
<1>1. s.st = "stopped" /\ s.port = c[a].port /\ c[a] # Absent
  BY SameContainer, ContainerFacts
<1>2. d[a] = s /\ \A b \in Apps \ {a} : d[b] = c[b]
  OBVIOUS
<1> HIDE DEF s, d
<1>3. Sound(m, c, lost) => Sound(m, d, lost)
  BY <1>1, <1>2 DEF Sound
<1>4. Bound(c) => Bound(d)
  BY <1>1, <1>2 DEF Bound
<1> QED
  BY <1>3, <1>4 DEF d, s

\* A container goes.
LEMMA SoundRemoved ==
  ASSUME NEW m \in Table, NEW c \in [Apps -> Container], NEW lost, NEW a \in Apps
  PROVE  LET d == [c EXCEPT ![a] = Absent]
         IN  (Sound(m, c, lost) => Sound(m, d, lost)) /\ (Bound(c) => Bound(d))
<1> DEFINE d == [c EXCEPT ![a] = Absent]
<1>1. d[a] = Absent /\ Absent.st # "running" /\ \A b \in Apps \ {a} : d[b] = c[b]
  BY DEF Absent
<1> HIDE DEF d
<1>2. (Sound(m, c, lost) => Sound(m, d, lost)) /\ (Bound(c) => Bound(d))
  BY <1>1 DEF Sound, Bound
<1> QED
  BY <1>2 DEF d

\* A container is made, or starts, on the port of its entry.
LEMMA SoundLaunched ==
  ASSUME NEW m \in Table, NEW c \in [Apps -> Container], NEW lost, NEW a \in Apps,
         Sound(m, c, lost), NEW x \in Container, m[a] # NoPort, x.port = m[a]
  PROVE  Sound(m, [c EXCEPT ![a] = x], lost)
<1> DEFINE d == [c EXCEPT ![a] = x]
<1>1. d[a] = x /\ \A b \in Apps \ {a} : d[b] = c[b]
  OBVIOUS
<1> HIDE DEF d
<1>2. Sound(m, d, lost)
  BY <1>1 DEF Sound
<1> QED
  BY <1>2 DEF d

\* docker binds a port that no other container has bound.
LEMMA BoundLaunched ==
  ASSUME NEW c \in [Apps -> Container], NEW a \in Apps, Bound(c), NEW x \in Container,
         x.st = "running" => \A b \in Apps \ {a} : ~(c[b].st = "running" /\ c[b].port = x.port)
  PROVE  Bound([c EXCEPT ![a] = x])
<1> DEFINE d == [c EXCEPT ![a] = x]
<1>1. d[a] = x /\ \A b \in Apps \ {a} : d[b] = c[b]
  OBVIOUS
<1> HIDE DEF d
<1>2. Bound(d)
  BY <1>1 DEF Bound
<1> QED
  BY <1>2 DEF d

\* RemoveApp, for an app without a container.
LEMMA SoundForgotten ==
  ASSUME NEW m \in Table, NEW c \in [Apps -> Container], NEW lost, NEW a \in Apps,
         Sound(m, c, lost), c[a] = Absent
  PROVE  Sound([m EXCEPT ![a] = NoPort], c, lost)
<1> DEFINE n == [m EXCEPT ![a] = NoPort]
<1>1. n[a] = NoPort /\ \A b \in Apps \ {a} : n[b] = m[b]
  BY DEF Table
<1>2. \A b \in Apps : c[b].st = "running" => b # a /\ c[b].port \in Ports
  BY ContainerFacts
<1> HIDE DEF n
<1>3. Sound(n, c, lost)
  BY <1>1, <1>2, PortFacts DEF Sound, Absent
<1> QED
  BY <1>3 DEF n

\* syncPortsFromContainers
LEMMA SoundSynced ==
  ASSUME NEW m \in Table, NEW c \in [Apps -> Container], NEW lost,
         Sound(m, c, lost), Bound(c)
  PROVE  LET unknown == {a \in Apps : m[a] = NoPort /\ c[a].st = "running"}
             n == [a \in Apps |-> IF a \in unknown THEN c[a].port ELSE m[a]]
         IN  Sound(n, c, lost) /\ (\A a \in Apps : c[a].st = "running" => n[a] # NoPort)
             /\ (unknown = {} => n = m)
<1> DEFINE unknown == {a \in Apps : m[a] = NoPort /\ c[a].st = "running"}
           n == [a \in Apps |-> IF a \in unknown THEN c[a].port ELSE m[a]]
<1>1. \A a \in Apps : n[a] = IF a \in unknown THEN c[a].port ELSE m[a]
  OBVIOUS
<1>2. \A a \in Apps : c[a].st = "running" => c[a] # Absent /\ c[a].port # NoPort
  BY ContainerFacts, PortFacts DEF Absent
<1>3. unknown = {} => n = m
  BY DEF Table
<1>4. \A a \in unknown : m[a] = NoPort /\ c[a].st = "running" /\ a \in Apps
  OBVIOUS
<1>5. \A a \in Apps \ unknown : c[a].st = "running" => m[a] # NoPort
  OBVIOUS
<1> HIDE DEF n, unknown
<1>6. \A a, b \in Apps : n[a] # NoPort /\ n[a] = n[b] => a = b
  BY <1>1, <1>2, <1>4 DEF Sound, Bound
<1>7. \A a \in Apps : c[a] # Absent => IF n[a] # NoPort THEN c[a].port = n[a] ELSE lost
  BY <1>1, <1>2, <1>4 DEF Sound
<1>8. \A a \in Apps : c[a].st = "running" => n[a] # NoPort
  BY <1>1, <1>2, <1>5
<1>9. Sound(n, c, lost)
  BY <1>6, <1>7, <1>8 DEF Sound
<1> QED
  BY <1>3, <1>8, <1>9 DEF n, unknown

\* resolvePort adds an entry, with the container's port or a new one.
LEMMA SoundResolved ==
  ASSUME NEW m \in Table, NEW c \in [Apps -> Container], NEW lost, NEW a \in Apps,
         Sound(m, c, lost), \A b \in Apps : c[b].st = "running" => m[b] # NoPort,
         c[a] = Absent, m[a] = NoPort
  PROVE  Sound([m EXCEPT ![a] = AssignPort(m)], c, lost)
<1> DEFINE q == AssignPort(m)
           n == [m EXCEPT ![a] = q]
<1>1. n[a] = q /\ \A b \in Apps \ {a} : n[b] = m[b]
  BY DEF Table
<1>2. q # NoPort /\ \A b \in Apps : m[b] # q
  BY Assigned, PortFacts
<1>3. \A b \in Apps : c[b].st = "running" => n[b] # NoPort
  BY <1>1, <1>2 DEF Absent
<1> HIDE DEF n, q
<1>4. Sound(n, c, lost)
  BY <1>1, <1>2, <1>3 DEF Sound
<1> QED
  BY <1>4 DEF n, q

-----------------------------------------------------------------------------
(* Commands that do not overlap                                            *)

\* A step of p, while no other command is under way, concerns p's claims only.
LEMMA OthersIdle ==
  ASSUME PortInv, OneAtATime, NEW p \in Procs, pc[p] # "off", NEW l, Goto(p, l),
         FileSound', Bound(container)', InMemory(p)', OnDisk(p)', InDocker(p)'
  PROVE  SoundInv'
<1>1. ASSUME NEW q \in Procs, q # p PROVE (InMemory(q) /\ OnDisk(q) /\ InDocker(q))'
  <2>1. pc'[q] = "off"
    BY <1>1 DEF OneAtATime, Goto, PortInv, TypeOK
  <2> QED
    BY <2>1 DEF InMemory, OnDisk, InDocker, HasPort
<1> QED
  BY <1>1 DEF SoundInv

\* A command starts.
LEMMA BeginSound ==
  ASSUME PortInv, SoundInv, NEW p \in Procs, NEW k \in Kinds, NEW a \in Apps, Begin(p, k, a)
  PROVE  SoundInv'
<1>1. FileSound' /\ Bound(container)'
  BY DEF Begin, SoundInv, FileSound
<1>2. InMemory(p)' /\ OnDisk(p)' /\ InDocker(p)'
  <2>1. pc'[p] = "load"
    BY DEF Begin, Goto, PortInv, TypeOK
  <2> QED
    BY <2>1 DEF InMemory, OnDisk, InDocker, HasPort
<1>3. ASSUME NEW q \in Procs, q # p PROVE (InMemory(q) /\ OnDisk(q) /\ InDocker(q))'
  <2>1. pc'[q] = pc[q] /\ job'[q] = job[q]
    BY <1>3 DEF Begin, Goto, PortInv, TypeOK
  <2>2. InMemory(q) /\ OnDisk(q) /\ InDocker(q)
    BY DEF SoundInv
  <2> QED
    BY <2>1, <2>2 DEF Begin, InMemory, OnDisk, InDocker, HasPort, App
<1> QED
  BY <1>1, <1>2, <1>3 DEF SoundInv

\* The steps that leave docker and the file as they are.
LEMMA QuietSound ==
  ASSUME PortInv, OneAtATime, SoundInv, NEW p \in Procs,
         Load(p) \/ Sync(p) \/ PersistClean(p) \/ CheckExists(p) \/ ResolvePort(p)
           \/ ResolvePortFails(p) \/ OpenMissing(p) \/ OpenExisting(p) \/ DeleteEntry(p) \/ Dies(p)
  PROVE  SoundInv'
<1> USE DEF Persist
<1>a. InMemory(p) /\ OnDisk(p) /\ InDocker(p) /\ Bound(container) /\ FileSound
  BY DEF SoundInv
<1>b. UNCHANGED <<file, removed, container, job>> /\ pc[p] # "off"
  BY DEF Load, Sync, PersistClean, CheckExists, ResolvePort, ResolvePortFails, OpenMissing,
         OpenExisting, DeleteEntry, Dies, Act
<1>c. FileSound' /\ Bound(container)'
  BY <1>a, <1>b DEF FileSound
<1>d. mem[p] \in Table /\ container \in [Apps -> Container] /\ App(p) \in Apps /\ App(p)' = App(p)
  BY <1>b DEF PortInv, TypeOK, App
<1>e. \A l : Goto(p, l) => pc'[p] = l
  BY DEF Goto, PortInv, TypeOK
<1>f. \A m : SetMem(p, m) => mem'[p] = m
  BY DEF SetMem, PortInv, TypeOK
<1>1. CASE Load(p)
  <2>1. CASE file.ok
    <3>1. Goto(p, "sync") /\ mem'[p] = file.map
      BY <1>1, <1>f, <2>1 DEF Load
    <3>2. InMemory(p)' /\ OnDisk(p)' /\ InDocker(p)'
      BY <1>a, <1>b, <1>e, <2>1, <3>1 DEF FileSound, InMemory, OnDisk, InDocker, HasPort
    <3> QED
      BY <1>b, <1>c, <3>1, <3>2, OthersIdle
  <2>2. CASE ~file.ok
    <3>1. Goto(p, "off")
      BY <1>1, <2>2 DEF Load
    <3>2. InMemory(p)' /\ OnDisk(p)' /\ InDocker(p)'
      BY <1>e, <3>1 DEF InMemory, OnDisk, InDocker, HasPort
    <3> QED
      BY <1>b, <1>c, <3>1, <3>2, OthersIdle
  <2> QED
    BY <2>1, <2>2
<1>2. CASE Sync(p)
  <2> DEFINE unknown == {a \in Apps : mem[p][a] = NoPort /\ container[a].st = "running"}
             n == [a \in Apps |-> IF a \in unknown THEN container[a].port ELSE mem[p][a]]
  <2>1. /\ pc[p] = "sync" /\ SetMem(p, n) /\ dirty' = [dirty EXCEPT ![p] = unknown # {}]
        /\ Goto(p, "persist") /\ phase' = [phase EXCEPT ![p] = "synced"]
    BY <1>2 DEF Sync
  <2>2. mem'[p] = n /\ dirty'[p] = (unknown # {}) /\ phase'[p] = "synced" /\ pc'[p] = "persist"
    BY <1>e, <1>f, <2>1 DEF PortInv, TypeOK
  <2>3. Sound(mem[p], container, removed) /\ file.ok /\ file.map = mem[p]
    BY <1>a, <2>1 DEF InMemory, OnDisk
  <2>4. /\ Sound(n, container, removed) /\ (unknown = {} => n = mem[p])
        /\ \A a \in Apps : container[a].st = "running" => n[a] # NoPort
    BY <1>a, <1>d, <2>3, SoundSynced
  <2> HIDE DEF n, unknown
  <2>5. InMemory(p)' /\ OnDisk(p)' /\ InDocker(p)'
    BY <1>b, <2>2, <2>3, <2>4 DEF InMemory, OnDisk, InDocker, HasPort
  <2> QED
    BY <1>b, <1>c, <2>1, <2>5, OthersIdle
<1>3. CASE PersistClean(p)
  <2>1. /\ pc[p] = "persist" /\ ~dirty[p] /\ Goto(p, AfterPersist(p))
        /\ UNCHANGED <<phase, mem, dirty, exists, port>>
    BY <1>3 DEF PersistClean
  <2>2. InMemory(p)' /\ OnDisk(p)' /\ InDocker(p)'
    BY <1>a, <1>b, <1>d, <1>e, <2>1, AfterPersistFacts DEF InMemory, OnDisk, InDocker, HasPort
  <2> QED
    BY <1>b, <1>c, <2>1, <2>2, OthersIdle
<1>4. CASE CheckExists(p)
  <2>1. PICK l \in {"rm", "resolve"} : Goto(p, l)
    BY <1>4 DEF CheckExists
  <2>2. exists'[p] <=> container[App(p)] # Absent
    BY <1>4, <1>d, ContainerFacts DEF CheckExists, PortInv, TypeOK
  <2>3. pc[p] = "exists" /\ UNCHANGED <<phase, mem, dirty, port>>
    BY <1>4 DEF CheckExists
  <2>4. InMemory(p)' /\ OnDisk(p)' /\ InDocker(p)'
    BY <1>a, <1>b, <1>d, <1>e, <2>1, <2>2, <2>3 DEF InMemory, OnDisk, InDocker, HasPort
  <2> QED
    BY <1>b, <1>c, <2>1, <2>4, OthersIdle
<1>5. CASE ResolvePort(p)
  <2> DEFINE a == App(p)
             q == IF mem[p][a] # NoPort THEN mem[p][a]
                  ELSE IF exists[p] THEN container[a].port
                  ELSE AssignPort(mem[p])
             n == [mem[p] EXCEPT ![a] = q]
  <2>1. /\ pc[p] = "resolve" /\ (exists[p] /\ mem[p][a] = NoPort => container[a].st = "running")
        /\ port' = [port EXCEPT ![p] = q] /\ SetMem(p, n)
        /\ dirty' = [dirty EXCEPT ![p] = dirty[p] \/ mem[p][a] = NoPort]
        /\ Goto(p, "persist") /\ phase' = [phase EXCEPT ![p] = "resolved"]
        /\ UNCHANGED exists
    BY <1>5 DEF ResolvePort
  <2>2. /\ mem'[p] = n /\ port'[p] = q /\ phase'[p] = "resolved" /\ pc'[p] = "persist"
        /\ dirty'[p] = (dirty[p] \/ mem[p][a] = NoPort)
    BY <1>e, <1>f, <2>1 DEF PortInv, TypeOK
  <2>3. /\ Sound(mem[p], container, removed) /\ file.ok /\ file.map = mem[p] /\ ~dirty[p]
        /\ \A b \in Apps : container[b].st = "running" => mem[p][b] # NoPort
        /\ exists[p] <=> container[a] # Absent
    BY <1>a, <2>1 DEF InMemory, OnDisk, InDocker
  <2>4. n[a] = q
    BY <1>d DEF Table
  <2>5. Sound(n, container, removed) /\ (mem[p][a] # NoPort => n = mem[p])
        /\ \A b \in Apps : container[b].st = "running" => n[b] # NoPort
    <3>1. CASE mem[p][a] # NoPort
      <4>1. n = mem[p]
        BY <1>d, <3>1 DEF Table
      <4> QED
        BY <2>3, <4>1
    <3>2. CASE mem[p][a] = NoPort
      <4>1. ~exists[p] /\ container[a] = Absent
        BY <1>d, <2>1, <2>3, <3>2
      <4>2. n = [mem[p] EXCEPT ![a] = AssignPort(mem[p])]
        BY <3>2, <4>1
      <4>3. Sound(n, container, removed)
        BY <1>d, <2>3, <3>2, <4>1, <4>2, SoundResolved
      <4>4. \A b \in Apps : container[b].st = "running" => b # a
        BY <4>1 DEF Absent
      <4>5. \A b \in Apps \ {a} : n[b] = mem[p][b]
        BY <1>d DEF Table
      <4> QED
        BY <2>3, <3>2, <4>3, <4>4, <4>5
    <3> QED
      BY <3>1, <3>2
  <2> HIDE DEF n, q
  <2>6. InMemory(p)' /\ OnDisk(p)' /\ InDocker(p)'
    BY <1>b, <1>d, <2>1, <2>2, <2>3, <2>4, <2>5 DEF InMemory, OnDisk, InDocker, HasPort
  <2> QED
    BY <1>b, <1>c, <2>1, <2>6, OthersIdle
<1>6. CASE OpenMissing(p) \/ OpenExisting(p)
  <2>1. PICK l \in {"run", "off", "start"} : Goto(p, l)
    BY <1>6 DEF OpenMissing, OpenExisting
  <2>2. pc[p] = "act" /\ UNCHANGED <<phase, mem, dirty, exists, port>>
    BY <1>6 DEF OpenMissing, OpenExisting, Act
  <2>3. port[p] # NoPort
    BY <2>2, PortFacts DEF PortInv, PortResolved, HasPort
  <2>4. InMemory(p)' /\ OnDisk(p)' /\ InDocker(p)'
    BY <1>a, <1>b, <1>d, <1>e, <2>1, <2>2, <2>3 DEF InMemory, OnDisk, InDocker, HasPort
  <2> QED
    BY <1>b, <1>c, <2>1, <2>4, OthersIdle
<1>7. CASE DeleteEntry(p)
  <2> DEFINE a == App(p)
             n == [mem[p] EXCEPT ![a] = NoPort]
  <2>1. /\ pc[p] = "forget" /\ dirty' = [dirty EXCEPT ![p] = dirty[p] \/ mem[p][a] # NoPort]
        /\ SetMem(p, n) /\ Goto(p, "persist") /\ phase' = [phase EXCEPT ![p] = "forgotten"]
    BY <1>7 DEF DeleteEntry
  <2>2. /\ mem'[p] = n /\ phase'[p] = "forgotten" /\ pc'[p] = "persist"
        /\ dirty'[p] = (dirty[p] \/ mem[p][a] # NoPort)
    BY <1>e, <1>f, <2>1 DEF PortInv, TypeOK
  <2>3. /\ Sound(mem[p], container, removed) /\ file.ok /\ file.map = mem[p] /\ container[a] = Absent
        /\ \A b \in Apps : container[b].st = "running" => mem[p][b] # NoPort
    BY <1>a, <2>1 DEF InMemory, OnDisk, InDocker
  <2>4. Sound(n, container, removed)
    BY <1>d, <2>3, SoundForgotten
  <2>5. mem[p][a] = NoPort => n = mem[p]
    BY <1>d DEF Table
  <2>6. \A b \in Apps : container[b].st = "running" => n[b] # NoPort
    <3>1. \A b \in Apps : container[b].st = "running" => b # a
      BY <2>3 DEF Absent
    <3>2. \A b \in Apps \ {a} : n[b] = mem[p][b]
      BY <1>d DEF Table
    <3> QED
      BY <2>3, <3>1, <3>2
  <2> HIDE DEF n
  <2>7. InMemory(p)' /\ OnDisk(p)' /\ InDocker(p)'
    BY <1>b, <2>2, <2>3, <2>4, <2>5, <2>6 DEF InMemory, OnDisk, InDocker, HasPort
  <2> QED
    BY <1>b, <1>c, <2>1, <2>7, OthersIdle
<1>8. CASE ResolvePortFails(p) \/ Dies(p)
  <2>1. Goto(p, "off")
    BY <1>8 DEF ResolvePortFails, Dies
  <2>2. InMemory(p)' /\ OnDisk(p)' /\ InDocker(p)'
    BY <1>e, <2>1 DEF InMemory, OnDisk, InDocker, HasPort
  <2> QED
    BY <1>b, <1>c, <2>1, <2>2, OthersIdle
<1> QED
  BY <1>1, <1>2, <1>3, <1>4, <1>5, <1>6, <1>7, <1>8

\* The steps that write the file or change a container.
LEMMA LoudSound ==
  ASSUME PortInv, OneAtATime, SoundInv, NEW p \in Procs,
         SaveTruncate(p) \/ SaveWrite(p) \/ UpdateRemove(p) \/ RestoreStop(p)
           \/ DockerRun(p) \/ DockerStart(p) \/ DeleteContainer(p)
  PROVE  SoundInv'
<1>a. InMemory(p) /\ OnDisk(p) /\ InDocker(p) /\ Bound(container) /\ FileSound
  BY DEF SoundInv
<1>b. UNCHANGED <<removed, mem, job, phase, exists, port>> /\ pc[p] # "off"
  BY DEF SaveTruncate, SaveWrite, UpdateRemove, RestoreStop, DockerRun, DockerStart,
         DeleteContainer, Act
<1>c. /\ mem[p] \in Table /\ container \in [Apps -> Container] /\ App(p) \in Apps
      /\ App(p)' = App(p) /\ container[App(p)] \in Container
  BY <1>b DEF PortInv, TypeOK, App
<1>d. \A l : Goto(p, l) => pc'[p] = l
  BY DEF Goto, PortInv, TypeOK
<1>1. CASE SaveTruncate(p)
  <2>1. /\ pc[p] = "persist" /\ Goto(p, "write") /\ UNCHANGED <<container, dirty>>
        /\ file' = [file EXCEPT !.len = 0, !.ok = FALSE]
    BY <1>1 DEF SaveTruncate
  <2>2. file'.len = 0 /\ ~file'.ok
    BY <2>1 DEF PortInv, TypeOK
  <2>3. InMemory(p)' /\ OnDisk(p)' /\ InDocker(p)'
    BY <1>a, <1>b, <1>c, <1>d, <2>1, <2>2 DEF InMemory, OnDisk, InDocker, HasPort
  <2>4. FileSound' /\ Bound(container)'
    BY <1>a, <2>1, <2>2 DEF FileSound
  <2> QED
    BY <1>b, <2>1, <2>3, <2>4, OthersIdle
<1>2. CASE SaveWrite(p)
  <2>1. /\ pc[p] = "write" /\ Goto(p, AfterPersist(p)) /\ UNCHANGED container
        /\ file'.map = mem[p] /\ (file'.ok <=> file.len <= Length(mem[p]))
        /\ ~dirty'[p]
    BY <1>2 DEF SaveWrite, PortInv, TypeOK
  <2>2. file'.ok
    BY <1>a, <2>1, EntryCount DEF OnDisk
  <2>3. InMemory(p)' /\ OnDisk(p)' /\ InDocker(p)'
    BY <1>a, <1>b, <1>c, <1>d, <2>1, <2>2, AfterPersistFacts DEF InMemory, OnDisk, InDocker, HasPort
  <2>4. FileSound' /\ Bound(container)'
    BY <1>a, <1>b, <2>1 DEF FileSound, InMemory
  <2> QED
    BY <1>b, <2>1, <2>3, <2>4, OthersIdle
<1>3. CASE UpdateRemove(p) \/ DeleteContainer(p)
  <2>1. CASE SetContainer(App(p), Absent)
    <3>1. PICK l \in {"run", "forget"} : Goto(p, l) /\ (l = "run" => pc[p] = "act")
      BY <1>3 DEF UpdateRemove, DeleteContainer, Act
    <3>2. pc[p] \in {"act", "rm"} /\ UNCHANGED <<file, dirty>>
      BY <1>3 DEF UpdateRemove, DeleteContainer, Act
    <3>3. container' = [container EXCEPT ![App(p)] = Absent]
      BY <2>1 DEF SetContainer
    <3>4. container'[App(p)] = Absent /\ \A b \in Apps : container'[b].st = "running" => container[b].st = "running"
      BY <1>c, <3>3 DEF Absent
    <3>5. /\ Sound(mem[p], container, removed) => Sound(mem[p], container', removed)
          /\ Bound(container')
      BY <1>a, <1>c, <3>3, SoundRemoved
    <3>6. FileSound'
      <4>1. file.map \in Table
        BY DEF PortInv, TypeOK
      <4>2. Sound(file.map, container, removed) => Sound(file.map, container', removed)
        BY <1>c, <3>3, <4>1, SoundRemoved
      <4> QED
        BY <1>a, <1>b, <3>2, <4>2 DEF FileSound
    <3>7. InMemory(p)' /\ OnDisk(p)' /\ InDocker(p)'
      BY <1>a, <1>b, <1>c, <1>d, <3>1, <3>2, <3>4, <3>5 DEF InMemory, OnDisk, InDocker, HasPort
    <3> QED
      BY <1>b, <3>1, <3>5, <3>6, <3>7, OthersIdle
  <2>2. CASE ~SetContainer(App(p), Absent)
    <3>1. pc[p] = "rm" /\ Goto(p, "forget") /\ ~exists[p] /\ UNCHANGED <<container, file, dirty>>
      BY <1>3, <2>2 DEF UpdateRemove, DeleteContainer
    <3>2. FileSound' /\ Bound(container)'
      BY <1>a, <1>b, <3>1 DEF FileSound
    <3>3. InMemory(p)' /\ OnDisk(p)' /\ InDocker(p)'
      BY <1>a, <1>b, <1>c, <1>d, <3>1 DEF InMemory, OnDisk, InDocker, HasPort
    <3> QED
      BY <1>b, <3>1, <3>2, <3>3, OthersIdle
  <2> QED
    BY <2>1, <2>2
<1>4. CASE RestoreStop(p)
  <2>1. PICK l \in {"run", "start"} : Goto(p, l)
    BY <1>4 DEF RestoreStop
  <2>2. /\ pc[p] = "act" /\ UNCHANGED <<file, dirty>>
        /\ mem[p][App(p)] = port[p] /\ port[p] # NoPort
    BY <1>4, <1>a, PortFacts DEF RestoreStop, Act, InMemory, HasPort, PortInv, PortResolved
  <2>3. CASE container[App(p)].st = "running"
    <3>1. container' = [container EXCEPT ![App(p)] = [container[App(p)] EXCEPT !.st = "stopped"]]
      BY <1>4, <2>3 DEF RestoreStop, SetContainer
    <3>2. \A b \in Apps : container'[b].st = "running" => container[b].st = "running"
      BY <1>c, <2>3, <3>1
    <3>3. /\ Sound(mem[p], container, removed) => Sound(mem[p], container', removed)
          /\ Bound(container')
      BY <1>a, <1>c, <2>3, <3>1, SoundStopped
    <3>4. FileSound'
      <4>1. file.map \in Table
        BY DEF PortInv, TypeOK
      <4>2. Sound(file.map, container, removed) => Sound(file.map, container', removed)
        BY <1>c, <2>3, <3>1, <4>1, SoundStopped
      <4> QED
        BY <1>a, <1>b, <2>2, <4>2 DEF FileSound
    <3>5. InMemory(p)' /\ OnDisk(p)' /\ InDocker(p)'
      BY <1>a, <1>b, <1>c, <1>d, <2>1, <2>2, <3>2, <3>3 DEF InMemory, OnDisk, InDocker, HasPort
    <3> QED
      BY <1>b, <2>1, <3>3, <3>4, <3>5, OthersIdle
  <2>4. CASE container[App(p)].st # "running"
    <3>1. UNCHANGED container
      BY <1>4, <1>c, <2>4 DEF RestoreStop, SetContainer
    <3>2. FileSound' /\ Bound(container)'
      BY <1>a, <1>b, <2>2, <3>1 DEF FileSound
    <3>3. InMemory(p)' /\ OnDisk(p)' /\ InDocker(p)'
      BY <1>a, <1>b, <1>c, <1>d, <2>1, <2>2, <3>1 DEF InMemory, OnDisk, InDocker, HasPort
    <3> QED
      BY <1>b, <2>1, <3>2, <3>3, OthersIdle
  <2> QED
    BY <2>3, <2>4
<1>5. CASE DockerRun(p) \/ DockerStart(p)
  <2>1. /\ pc[p] \in {"run", "start"} /\ Goto(p, "off") /\ UNCHANGED <<file, dirty>>
        /\ file.ok /\ file.map = mem[p] /\ mem[p][App(p)] # NoPort
        /\ Sound(mem[p], container, removed)
    <3>1. pc[p] \in {"run", "start"} /\ Goto(p, "off") /\ UNCHANGED <<file, dirty>>
      BY <1>5 DEF DockerRun, DockerStart
    <3>2. pc[p] = "run" => port[p] # NoPort
      BY PortFacts DEF PortInv, PortResolved, HasPort
    <3> QED
      BY <1>a, <3>1, <3>2 DEF InMemory, OnDisk, HasPort
  <2>2. InMemory(p)' /\ OnDisk(p)' /\ InDocker(p)'
    BY <1>d, <2>1 DEF InMemory, OnDisk, InDocker, HasPort
  <2>3. CASE UNCHANGED container
    BY <1>a, <1>b, <2>1, <2>2, <2>3, OthersIdle DEF FileSound
  <2>4. ASSUME NEW x \in Container, container' = [container EXCEPT ![App(p)] = x],
               x.port = mem[p][App(p)], x.st = "running" => ~InUse(x.port, App(p))
        PROVE  SoundInv'
    <3>1. Sound(mem[p], container', removed)
      BY <1>c, <2>1, <2>4, SoundLaunched
    <3>2. Bound(container')
      BY <1>a, <1>c, <2>4, BoundLaunched DEF InUse
    <3>3. FileSound'
      BY <1>b, <2>1, <3>1 DEF FileSound
    <3> QED
      BY <1>b, <2>1, <2>2, <3>2, <3>3, OthersIdle
  <2>5. CASE DockerRun(p) /\ ~UNCHANGED container
    <3>1. port[p] \in Ports /\ mem[p][App(p)] = port[p]
      BY <1>a, <2>5 DEF DockerRun, PortInv, PortResolved, HasPort, InMemory
    <3>2. PICK s \in {"running", "created"} :
            /\ container' = [container EXCEPT ![App(p)] = [st |-> s, port |-> port[p]]]
            /\ s = "running" => ~InUse(port[p], App(p))
      BY <2>5 DEF DockerRun, SetContainer
    <3>3. [st |-> s, port |-> port[p]] \in Container
      BY <3>1, ContainerFacts
    <3> QED
      BY <2>4, <3>1, <3>2, <3>3
  <2>6. CASE DockerStart(p) /\ ~UNCHANGED container
    <3> DEFINE c == container[App(p)]
               x == [c EXCEPT !.st = "running"]
    <3>1. c.st # "absent" /\ ~InUse(c.port, App(p)) /\ container' = [container EXCEPT ![App(p)] = x]
      BY <2>6 DEF DockerStart, SetContainer
    <3>2. x \in Container /\ x.port = c.port
      BY <1>c, <3>1, SameContainer
    <3>3. c.port = mem[p][App(p)]
      BY <1>c, <2>1, <3>1, ContainerFacts DEF Sound
    <3> QED
      BY <2>4, <3>1, <3>2, <3>3
  <2> QED
    BY <1>5, <2>3, <2>5, <2>6
<1> QED
  BY <1>1, <1>2, <1>3, <1>4, <1>5

\* What happens around the commands: a container stops, the file is removed.
LEMMA AroundSound ==
  ASSUME PortInv, SoundInv, FileRemoved \/ \E a \in Apps : ContainerStops(a)
  PROVE  SoundInv'
<1>1. ASSUME NEW a \in Apps, ContainerStops(a) PROVE SoundInv'
  <2>1. /\ container[a].st = "running" /\ UNCHANGED <<file, removed, proc>>
        /\ container' = [container EXCEPT ![a] = [container[a] EXCEPT !.st = "stopped"]]
    BY <1>1 DEF ContainerStops
  <2>2. container \in [Apps -> Container] /\ file.map \in Table
    BY DEF PortInv, TypeOK
  <2>3. /\ \A b \in Apps : container'[b].st = "running" => container[b].st = "running"
        /\ \A b \in Apps : container'[b] # Absent <=> container[b] # Absent
    BY <2>1, <2>2, SameContainer, ContainerFacts DEF Absent
  <2>4. /\ \A m \in Table : Sound(m, container, removed) => Sound(m, container', removed)
        /\ Bound(container) => Bound(container')
    BY <2>1, <2>2, SoundStopped
  <2>5. FileSound' /\ Bound(container)'
    BY <2>1, <2>2, <2>4 DEF SoundInv, FileSound
  <2>6. ASSUME NEW p \in Procs PROVE (InMemory(p) /\ OnDisk(p) /\ InDocker(p))'
    <3>1. mem[p] \in Table /\ App(p) \in Apps /\ InMemory(p) /\ OnDisk(p) /\ InDocker(p)
      BY DEF PortInv, TypeOK, SoundInv, App
    <3> QED
      BY <2>1, <2>3, <2>4, <3>1 DEF proc, InMemory, OnDisk, InDocker, HasPort, App
  <2> QED
    BY <2>5, <2>6 DEF SoundInv
<1>2. CASE FileRemoved
  <2>1. /\ file'.map = NoTable /\ removed' = TRUE /\ UNCHANGED <<container, proc>>
        /\ \A p \in Procs : pc[p] = "off"
    BY <1>2 DEF FileRemoved
  <2>2. Sound(NoTable, container, TRUE)
    <3>1. \A a \in Apps : container[a].st = "running" => container[a].port # NoPort
      BY ContainerFacts, PortFacts DEF PortInv, TypeOK
    <3> QED
      BY <3>1 DEF Sound, NoTable
  <2>3. FileSound' /\ Bound(container)'
    BY <2>1, <2>2 DEF FileSound, SoundInv
  <2>4. \A p \in Procs : (InMemory(p) /\ OnDisk(p) /\ InDocker(p))'
    BY <2>1 DEF proc, InMemory, OnDisk, InDocker, HasPort
  <2> QED
    BY <2>3, <2>4 DEF SoundInv
<1> QED
  BY <1>1, <1>2

\* Init establishes it.
LEMMA InitSound == Init => SoundInv
<1> SUFFICES ASSUME Init PROVE SoundInv
  OBVIOUS
<1>1. Sound(NoTable, container, removed) /\ Bound(container)
  BY DEF Init, Sound, Bound, NoTable, Absent
<1>2. \A p \in Procs : pc[p] = "off"
  BY DEF Init
<1>3. \A p \in Procs : InMemory(p) /\ OnDisk(p) /\ InDocker(p)
  BY <1>2 DEF InMemory, OnDisk, InDocker, HasPort
<1> QED
  BY <1>1, <1>3 DEF SoundInv, FileSound, Init

\* Every step keeps it, as long as commands do not overlap.
LEMMA NextSound == PortInv /\ OneAtATime /\ SoundInv /\ [Next]_vars => SoundInv'
<1> SUFFICES ASSUME PortInv, OneAtATime, SoundInv, [Next]_vars PROVE SoundInv'
  OBVIOUS
<1>1. ASSUME NEW p \in Procs, Step(p) PROVE SoundInv'
  BY <1>1, BeginSound, QuietSound, LoudSound DEF Step
<1>2. CASE UNCHANGED vars
  BY <1>2 DEF vars, proc, SoundInv, FileSound, InMemory, OnDisk, InDocker, HasPort, App
<1> QED
  BY <1>1, <1>2, AroundSound DEF Next

\* It always holds then.
LEMMA AloneSound == Spec /\ []OneAtATime => []SoundInv
BY InitPortInv, NextPortInv, InitSound, NextSound, PTL DEF Spec

\* As long as server commands do not overlap, no two apps ever have the same
\* host port.  (With two clients at a time two can; see the README.)
THEOREM PortsDistinct == Spec /\ []OneAtATime => []UniquePorts
<1>1. SoundInv => UniquePorts
  BY DEF SoundInv, FileSound, Sound, UniquePorts, Entries
<1> QED
  BY AloneSound, <1>1, PTL

\* As long as server commands do not overlap, the port that the entry names is
\* the container's, and only a state file removed by hand leaves a container
\* without an entry.
THEOREM EntriesTrue == Spec /\ []OneAtATime => []EntryMatchesContainer
<1>1. SoundInv => EntryMatchesContainer
  BY DEF SoundInv, FileSound, Sound, EntryMatchesContainer, Entries
<1> QED
  BY AloneSound, <1>1, PTL

=============================================================================
