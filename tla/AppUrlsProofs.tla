--------------------------- MODULE AppUrlsProofs ---------------------------
(***************************************************************************)
(* AppUrls for any apps, users, ports and processes, and any number of     *)
(* commands, deaths and restarts of caddy: what is written to proxy.toml   *)
(* is a configuration whose apps are open to known users only, a command   *)
(* that ran alone leaves caddy with the routes the files ask for, and as   *)
(* long as no two commands overlap nobody is let in who was not asked in.  *)
(***************************************************************************)
EXTENDS AppUrls, FiniteSetTheorems, WellFoundedInduction, TLAPS

-----------------------------------------------------------------------------
(* The invariants                                                          *)

AppEntry == [access : {"", "public", "private"}, disabled : BOOLEAN,
             domain : BOOLEAN, allowed : SUBSET Users]
Config == [on : BOOLEAN, primary : Users \cup {Nobody}, users : SUBSET Users,
           apps : [Apps -> AppEntry]]

GoodConfig(c) == c \in Config /\ \A a \in Apps : c.apps[a].allowed \subseteq c.users

Files ==
  /\ file \in {Cut, Torn} \/ GoodConfig(file)
  /\ ports \in [Apps -> Ports \cup {0}]
  /\ \A a, b \in Apps : ports[a] = ports[b] /\ ports[a] # 0 => a = b

Route == [host : Apps \cup {Custom}, port : Ports, gated : BOOLEAN]

\* A process is where the kind of its command can take it.
OpFits(p) ==
  /\ pc[p] # "off" => op[p] \in Ops
  /\ pc[p] \in {"change", "write", "ports"} => OnConfig(op[p])
  /\ pc[p] = "state" => ~OnConfig(op[p])

Processes ==
  /\ pc \in [Cmds -> {"off", "load", "change", "write", "ports", "state", "post"}]
  /\ op \in [Cmds -> Ops \cup {NoOp}]
  /\ cfg \in [Cmds -> Config] /\ mem \in [Cmds -> [Apps -> Ports \cup {0}]]
  /\ \A p \in Cmds : GoodConfig(cfg[p]) /\ OpFits(p)

Rest ==
  /\ caddy \in [up : BOOLEAN, routes : SUBSET Route]
  /\ commands \in 0..MaxCommands /\ faults \in 0..MaxFaults
  /\ alone \in [Cmds -> BOOLEAN] /\ settled \in BOOLEAN /\ raced \in BOOLEAN
  /\ granted \in [Apps -> SUBSET Users] /\ opened \in SUBSET Apps

Typed == Files /\ Processes /\ Rest

\* A command has made its change, and caddy does not know of it yet.
Dirty(p) == pc[p] \in {"write", "ports", "post"} \/ (pc[p] = "load" /\ ~OnConfig(op[p]))

\* What a process that is alone has read is still what the files hold.
UpToDate(p) ==
  /\ pc[p] = "write" => file = Cut
  /\ pc[p] = "ports" => file = cfg[p]
  /\ pc[p] = "load" /\ ~OnConfig(op[p]) => mem[p] = ports
  /\ pc[p] = "post" => Loaded = cfg[p] /\ mem[p] = ports

Solo ==
  \A p \in Active :
    /\ Dirty(p) => ~settled
    /\ alone[p] => Active = {p} /\ UpToDate(p)

\* The access that a configuration gives was asked for: opn and grn are the
\* apps that were opened and the users that were let in to each.
Fits(c, grn, opn) ==
  \A a \in Apps : /\ c.apps[a].access = "public" => a \in opn
                  /\ c.apps[a].allowed \subseteq grn[a]

\* What `granted` and `opened` will be once the command o has written.
GrantedBy(o) ==
  CASE o.kind = "users" -> [granted EXCEPT ![o.app] = o.users]
    [] o.kind = "remove user" -> [a \in Apps |-> granted[a] \ {o.user}]
    [] OTHER -> granted
OpenedBy(o) ==
  CASE o.kind = "public" -> opened \cup {o.app}
    [] o.kind = "private" -> opened \ {o.app}
    [] OTHER -> opened

\* As long as commands run one at a time.
Asked ==
  ~raced =>
    /\ \A p, q \in Active : p = q
    /\ Fits(Loaded, granted, opened)
    /\ \A p \in Cmds : /\ pc[p] = "change" => Fits(cfg[p], granted, opened)
                       /\ pc[p] = "write" => Fits(cfg[p], GrantedBy(op[p]), OpenedBy(op[p]))

UrlInv == Typed /\ Solo /\ RoutesFollowFiles /\ Asked

-----------------------------------------------------------------------------
(* Configurations                                                          *)

\* A file that was cut short is no configuration.
LEMMA NoConfig ==
  ASSUME NEW c \in Config
  PROVE  c \notin {Cut, Torn}
<1>1. DOMAIN c = {"on", "primary", "users", "apps"}
  BY DEF Config
<1>2. DOMAIN Cut = {"cut"} /\ DOMAIN Torn = {"torn"}
  BY DEF Cut, Torn
<1> QED
  BY <1>1, <1>2

\* The configuration of a file that is missing or cut is a good one.
LEMMA DefaultsGood ==
  /\ GoodConfig(Defaults) /\ ~Defaults.on
  /\ \A grn, opn : Fits(Defaults, grn, opn)
<1>1. NoApp \in AppEntry /\ NoApp.allowed = {} /\ NoApp.access = ""
  BY DEF NoApp, AppEntry
<1>2. Defaults \in Config /\ Defaults.on = FALSE /\ \A a \in Apps : Defaults.apps[a] = NoApp
  BY <1>1 DEF Defaults, Config
<1> QED
  BY <1>1, <1>2 DEF GoodConfig, Fits

\* What a command reads from proxy.toml is a good configuration.
LEMMA LoadedGood == Files => GoodConfig(Loaded)
BY DefaultsGood DEF Files, Loaded

\* An app's entry is replaced.
LEMMA EntrySet ==
  ASSUME NEW c, GoodConfig(c), NEW a \in Apps, NEW x \in AppEntry, x.allowed \subseteq c.users
  PROVE  /\ GoodConfig(SetApp(c, a, x))
         /\ SetApp(c, a, x).apps[a] = x
         /\ \A b \in Apps \ {a} : SetApp(c, a, x).apps[b] = c.apps[b]
<1> DEFINE e == [c.apps EXCEPT ![a] = x]
<1>1. e \in [Apps -> AppEntry] /\ e[a] = x /\ \A b \in Apps \ {a} : e[b] = c.apps[b]
  BY DEF GoodConfig, Config
<1> HIDE DEF e
<1>2. [c EXCEPT !.apps = e] \in Config /\ [c EXCEPT !.apps = e].apps = e /\ [c EXCEPT !.apps = e].users = c.users
  BY <1>1 DEF GoodConfig, Config
<1>3. SetApp(c, a, x) = [c EXCEPT !.apps = e]
  BY DEF SetApp, e
<1> QED
  BY <1>1, <1>2, <1>3 DEF GoodConfig

\* What a command's kind says of its other fields.
LEMMA OpFields ==
  ASSUME NEW o \in Ops
  PROVE  /\ o.kind \in {"setup", "add user", "remove user"} => o.user \in Users
         /\ o.kind \notin {"setup", "add user", "remove user"} => o.app \in Apps
         /\ o.kind = "users" => o.users \in SUBSET Users
         /\ OnConfig(o) => o.kind \in {"setup", "add user", "remove user", "public", "private",
                                       "disable", "enable", "domain", "no domain", "users"}
BY DEF Ops, UserOps, AccessOps, UrlOps, DomainOps, AllowOps, StateOps, OnConfig

\* A change keeps an app's users among the proxy's, and gives no access that
\* the command did not ask for.
LEMMA ChangeKeeps ==
  ASSUME NEW c, GoodConfig(c), NEW o \in Ops, OnConfig(o), NEW d \in Changed(c, o),
         granted \in [Apps -> SUBSET Users]
  PROVE  /\ GoodConfig(d)
         /\ Fits(c, granted, opened) => Fits(d, GrantedBy(o), OpenedBy(o))
<1>a. c \in Config /\ \A a \in Apps : c.apps[a] \in AppEntry /\ c.apps[a].allowed \subseteq c.users
  BY DEF GoodConfig, Config
<1>1. CASE o.kind \in {"setup", "add user"}
  <2>1. d \in Config /\ d.apps = c.apps /\ c.users \subseteq d.users
    <3>1. o.user \in Users
      BY <1>1, OpFields
    <3>2. CASE o.kind = "setup"
      <4>1. PICK us \in {c.users, c.users \cup {o.user}} :
              d = [c EXCEPT !.on = TRUE, !.primary = o.user, !.users = us]
        BY <3>2 DEF Changed, Setup
      <4> QED
        BY <1>a, <3>1, <4>1 DEF Config
    <3>3. CASE o.kind = "add user"
      <4>1. d = [c EXCEPT !.users = c.users \cup {o.user}]
        BY <3>3 DEF Changed, AddUser
      <4> QED
        BY <1>a, <3>1, <4>1 DEF Config
    <3> QED
      BY <1>1, <3>2, <3>3
  <2>2. GrantedBy(o) = granted /\ OpenedBy(o) = opened
    BY <1>1 DEF GrantedBy, OpenedBy
  <2> QED
    BY <1>a, <2>1, <2>2 DEF GoodConfig, Fits
<1>2. CASE o.kind = "remove user"
  <2> DEFINE e == [a \in Apps |-> [c.apps[a] EXCEPT !.allowed = @ \ {o.user}]]
  <2>1. d = [c EXCEPT !.users = c.users \ {o.user}, !.apps = e]
    BY <1>2 DEF Changed, RemoveUser
  <2>2. e \in [Apps -> AppEntry]
        /\ \A a \in Apps : e[a].access = c.apps[a].access /\ e[a].allowed = c.apps[a].allowed \ {o.user}
    BY <1>a DEF AppEntry
  <2> HIDE DEF e
  <2>3. d \in Config /\ d.apps = e /\ d.users = c.users \ {o.user}
    BY <1>a, <2>1, <2>2 DEF Config
  <2>4. GrantedBy(o) = [a \in Apps |-> granted[a] \ {o.user}] /\ OpenedBy(o) = opened
    BY <1>2 DEF GrantedBy, OpenedBy
  <2> QED
    BY <1>a, <2>2, <2>3, <2>4 DEF GoodConfig, Fits
<1>3. CASE o.kind \in {"public", "private"}
  <2> DEFINE n == [c.apps[o.app] EXCEPT !.access = o.kind, !.disabled = FALSE]
  <2>1. o.app \in Apps
    BY <1>3, OpFields
  <2>2. n \in AppEntry /\ n.access = o.kind /\ n.allowed = c.apps[o.app].allowed
    BY <1>a, <1>3, <2>1 DEF AppEntry
  <2>3. d = SetApp(c, o.app, n)
    BY <1>3 DEF Changed, SetAccess
  <2>4. GrantedBy(o) = granted
        /\ OpenedBy(o) = (IF o.kind = "public" THEN opened \cup {o.app} ELSE opened \ {o.app})
    BY <1>3 DEF GrantedBy, OpenedBy
  <2> HIDE DEF n
  <2>5. /\ GoodConfig(d) /\ d.apps[o.app] = n
        /\ \A b \in Apps \ {o.app} : d.apps[b] = c.apps[b]
    BY <1>a, <2>1, <2>2, <2>3, EntrySet
  <2> QED
    BY <1>3, <2>2, <2>4, <2>5 DEF Fits
<1>4. CASE o.kind \in {"disable", "enable", "domain", "no domain"}
  <2>1. o.app \in Apps
    BY <1>4, OpFields
  <2>2. PICK n \in AppEntry : /\ d = SetApp(c, o.app, n) /\ n.access = c.apps[o.app].access
                              /\ n.allowed = c.apps[o.app].allowed
    <3>1. CASE o.kind \in {"disable", "enable"}
      <4>1. PICK x \in BOOLEAN : d = SetApp(c, o.app, [c.apps[o.app] EXCEPT !.disabled = x])
        BY <3>1 DEF Changed, SetDisabled
      <4> DEFINE n == [c.apps[o.app] EXCEPT !.disabled = x]
      <4>2. n \in AppEntry /\ n.access = c.apps[o.app].access /\ n.allowed = c.apps[o.app].allowed
        BY <1>a, <2>1 DEF AppEntry
      <4> QED
        BY <4>1, <4>2
    <3>2. CASE o.kind \in {"domain", "no domain"}
      <4>1. PICK x \in BOOLEAN : d = SetApp(c, o.app, [c.apps[o.app] EXCEPT !.domain = x])
        BY <3>2 DEF Changed, SetDomain
      <4> DEFINE n == [c.apps[o.app] EXCEPT !.domain = x]
      <4>2. n \in AppEntry /\ n.access = c.apps[o.app].access /\ n.allowed = c.apps[o.app].allowed
        BY <1>a, <2>1 DEF AppEntry
      <4> QED
        BY <4>1, <4>2
    <3> QED
      BY <1>4, <3>1, <3>2
  <2>3. GrantedBy(o) = granted /\ OpenedBy(o) = opened
    BY <1>4 DEF GrantedBy, OpenedBy
  <2>4. /\ GoodConfig(d) /\ d.apps[o.app] = n
        /\ \A b \in Apps \ {o.app} : d.apps[b] = c.apps[b]
    BY <1>a, <2>1, <2>2, EntrySet
  <2> QED
    BY <2>2, <2>3, <2>4 DEF Fits
<1>5. CASE o.kind = "users"
  <2> DEFINE us == o.users \ {c.primary}
             n == [c.apps[o.app] EXCEPT !.allowed = us]
  <2>1. o.app \in Apps /\ o.users \in SUBSET Users
    BY <1>5, OpFields
  <2>2. n \in AppEntry /\ n.access = c.apps[o.app].access /\ n.allowed = us
    BY <1>a, <2>1 DEF AppEntry
  <2>3. d = SetApp(c, o.app, n) /\ us \subseteq c.users
    BY <1>5 DEF Changed, SetUsers
  <2>4. GrantedBy(o) = [granted EXCEPT ![o.app] = o.users] /\ OpenedBy(o) = opened
    BY <1>5 DEF GrantedBy, OpenedBy
  <2> HIDE DEF n
  <2>5. /\ GoodConfig(d) /\ d.apps[o.app] = n
        /\ \A b \in Apps \ {o.app} : d.apps[b] = c.apps[b]
    BY <2>1, <2>2, <2>3, EntrySet
  <2> QED
    BY <2>1, <2>2, <2>4, <2>5 DEF Fits
<1> QED
  BY <1>1, <1>2, <1>3, <1>4, <1>5, OpFields

-----------------------------------------------------------------------------
(* Ports                                                                   *)

\* The least free port, when some app has none.
LEMMA FreePort ==
  ASSUME ports \in [Apps -> Ports \cup {0}], NEW a \in Apps, ports[a] = 0
  PROVE  LET free == {q \in Ports : \A b \in Apps : ports[b] # q}
         IN  (CHOOSE q \in free : \A r \in free : q <= r) \in free
<1> DEFINE free == {q \in Ports : \A b \in Apps : ports[b] # q}
           others == Apps \ {a}
           used == {ports[b] : b \in others}
           f == [b \in others |-> ports[b]]
<1>1. /\ IsFiniteSet(Apps) /\ IsFiniteSet(Ports) /\ Ports \subseteq Nat \ {0}
      /\ Cardinality(Ports) >= Cardinality(Apps)
      /\ Cardinality(Apps) \in Nat /\ Cardinality(Ports) \in Nat
  BY AppUrlsAssumption, FS_CardinalityType
<1>2. IsFiniteSet(others) /\ Cardinality(others) = Cardinality(Apps) - 1
  BY <1>1, FS_RemoveElement
<1>3. f \in Surjection(others, used)
  BY DEF Surjection
<1>4. IsFiniteSet(used) /\ Cardinality(used) <= Cardinality(others)
  BY <1>2, <1>3, FS_Surjection
<1>5. free # {}
  <2> SUFFICES ASSUME Ports \in SUBSET used PROVE FALSE
    BY <1>1
  <2>1. Cardinality(Ports) <= Cardinality(used)
    BY <1>4, FS_Subset
  <2> QED
    BY <2>1, <1>1, <1>2, <1>4, FS_CardinalityType
<1>6. free \subseteq Nat
  BY <1>1
<1> HIDE DEF free
<1>7. PICK q \in free : \A r \in free : ~ (<<r, q>> \in OpToRel(<, Nat))
  BY <1>5, <1>6, NatLessThanWellFounded, WFMin
<1>8. \A r \in free : ~ (r < q)
  BY <1>6, <1>7 DEF OpToRel
<1>9. \A r \in free : q <= r
  BY <1>6, <1>8
<1> QED
  BY <1>9 DEF free

-----------------------------------------------------------------------------
(* Types                                                                   *)

\* What BuildCaddyConfig makes of a configuration are routes.
LEMMA RoutesTyped ==
  ASSUME NEW c \in Config, NEW m \in [Apps -> Ports \cup {0}]
  PROVE  Routes(c, m) \in SUBSET Route
<1> SUFFICES ASSUME NEW a \in Served(c, m)
             PROVE  [host |-> HostOf(c, a), port |-> m[a], gated |-> Access(c, a) = "private"] \in Route
  BY DEF Routes
<1>1. a \in Apps /\ m[a] \in Ports
  BY DEF Served
<1>2. HostOf(c, a) \in Apps \cup {Custom}
  BY <1>1 DEF HostOf
<1>3. (Access(c, a) = "private") \in BOOLEAN
  OBVIOUS
<1> QED
  BY <1>1, <1>2, <1>3 DEF Route

\* A process that ends forgets what it has loaded.
LEMMA OverTyped ==
  ASSUME Processes, NEW p \in Cmds, Over(p)
  PROVE  Processes'
<1>1. Defaults \in Config /\ GoodConfig(Defaults) /\ [a \in Apps |-> 0] \in [Apps -> Ports \cup {0}]
  BY DefaultsGood DEF GoodConfig
<1> HIDE DEF Config, GoodConfig, Defaults
<1>2. /\ pc' \in [Cmds -> {"off", "load", "change", "write", "ports", "state", "post"}]
      /\ op' \in [Cmds -> Ops \cup {NoOp}]
      /\ cfg' \in [Cmds -> Config] /\ mem' \in [Cmds -> [Apps -> Ports \cup {0}]]
  BY <1>1 DEF Over, Processes
<1>3. \A q \in Cmds : GoodConfig(cfg'[q])
  BY <1>1 DEF Over, Processes
<1>4. \A q \in Cmds : OpFits(q)'
  BY DEF Over, Processes, OpFits
<1> QED
  BY <1>2, <1>3, <1>4 DEF Processes, GoodConfig

\* A process goes on, with another configuration or other ports.
LEMMA GoesTyped ==
  ASSUME Processes, NEW p \in Cmds,
         NEW l \in {"load", "change", "write", "ports", "state", "post"}, NEW o \in Ops,
         l \in {"change", "write", "ports"} => OnConfig(o), l = "state" => ~OnConfig(o),
         NEW c, GoodConfig(c), NEW m \in [Apps -> Ports \cup {0}],
         pc' = [pc EXCEPT ![p] = l], op' = [op EXCEPT ![p] = o],
         cfg' = [cfg EXCEPT ![p] = c], mem' = [mem EXCEPT ![p] = m]
  PROVE  Processes'
<1>1. c \in Config
  BY DEF GoodConfig
<1>2. /\ pc' \in [Cmds -> {"off", "load", "change", "write", "ports", "state", "post"}]
      /\ op' \in [Cmds -> Ops \cup {NoOp}]
      /\ cfg' \in [Cmds -> Config] /\ mem' \in [Cmds -> [Apps -> Ports \cup {0}]]
  BY <1>1 DEF Processes
<1>3. \A q \in Cmds : GoodConfig(cfg'[q])
  BY DEF Processes
<1>4. \A q \in Cmds : OpFits(q)'
  BY DEF Processes, OpFits
<1> QED
  BY <1>2, <1>3, <1>4 DEF Processes, GoodConfig

\* A process as it is, and what the step it is at says of it.
LEMMA Unchanged ==
  ASSUME Processes, NEW p \in Cmds
  PROVE  /\ op = [op EXCEPT ![p] = op[p]] /\ cfg = [cfg EXCEPT ![p] = cfg[p]]
         /\ mem = [mem EXCEPT ![p] = mem[p]]
         /\ GoodConfig(cfg[p]) /\ cfg[p] \in Config /\ mem[p] \in [Apps -> Ports \cup {0}]
         /\ pc[p] # "off" => op[p] \in Ops
         /\ pc[p] \in {"change", "write", "ports"} => OnConfig(op[p])
         /\ pc[p] = "state" => ~OnConfig(op[p])
BY DEF Processes, OpFits

\* Init has the types.
LEMMA InitTyped == Init => Typed
<1> SUFFICES ASSUME Init PROVE Typed
  OBVIOUS
<1>1. Processes
  <2>1. GoodConfig(Defaults) /\ Defaults \in Config
    BY DefaultsGood DEF GoodConfig
  <2> QED
    BY <2>1 DEF Init, Processes, OpFits
<1>2. /\ commands \in 0..MaxCommands /\ faults \in 0..MaxFaults
      /\ granted \in [Apps -> SUBSET Users] /\ opened \in SUBSET Apps
  <2>1. commands = 0 /\ faults = 0 /\ granted = [a \in Apps |-> {}] /\ opened = {}
    BY DEF Init
  <2> QED
    BY <2>1, AppUrlsAssumption
<1>3. alone \in [Cmds -> BOOLEAN] /\ settled \in BOOLEAN /\ raced \in BOOLEAN
  BY DEF Init
<1>4. CASE file = Cut /\ ports = [a \in Apps |-> 0] /\ caddy = [up |-> FALSE, routes |-> {}]
  BY <1>1, <1>2, <1>3, <1>4 DEF Typed, Files, Rest
<1>5. ASSUME NEW u \in Users, NEW a \in Apps, NEW q \in Ports,
             file = [Defaults EXCEPT !.on = TRUE, !.primary = u, !.users = Users],
             ports = [b \in Apps |-> IF b = a THEN q ELSE 0],
             caddy = [up |-> TRUE, routes |-> Routes(file, ports)]
      PROVE  Typed
  <2>1. file \in Config /\ file.apps = Defaults.apps /\ file.users = Users
    <3>1. Defaults \in Config
      BY DefaultsGood DEF GoodConfig
    <3> QED
      BY <1>5, <3>1 DEF Config
  <2>2. GoodConfig(file)
    BY <2>1, DefaultsGood DEF GoodConfig, Config, AppEntry
  <2>3. ports \in [Apps -> Ports \cup {0}] /\ \A x, y \in Apps : ports[x] = ports[y] /\ ports[x] # 0 => x = y
    BY <1>5
  <2>4. caddy \in [up : BOOLEAN, routes : SUBSET Route]
    BY <1>5, <2>1, <2>3, RoutesTyped
  <2> QED
    BY <1>1, <1>2, <1>3, <2>2, <2>3, <2>4 DEF Typed, Files, Rest
<1>6. \/ file = Cut /\ ports = [a \in Apps |-> 0] /\ caddy = [up |-> FALSE, routes |-> {}]
      \/ \E u \in Users, a \in Apps, q \in Ports :
           /\ file = [Defaults EXCEPT !.on = TRUE, !.primary = u, !.users = Users]
           /\ q = 1 /\ ports = [b \in Apps |-> IF b = a THEN q ELSE 0]
           /\ caddy = [up |-> TRUE, routes |-> Routes(file, ports)]
  BY DEF Init
<1>7. CASE \E u \in Users, a \in Apps, q \in Ports :
             /\ file = [Defaults EXCEPT !.on = TRUE, !.primary = u, !.users = Users]
             /\ q = 1 /\ ports = [b \in Apps |-> IF b = a THEN q ELSE 0]
             /\ caddy = [up |-> TRUE, routes |-> Routes(file, ports)]
  <2> PICK u \in Users, a \in Apps, q \in Ports :
        /\ file = [Defaults EXCEPT !.on = TRUE, !.primary = u, !.users = Users]
        /\ q = 1 /\ ports = [b \in Apps |-> IF b = a THEN q ELSE 0]
        /\ caddy = [up |-> TRUE, routes |-> Routes(file, ports)]
    BY <1>7
  <2> QED
    BY <1>5
<1> QED
  BY <1>4, <1>6, <1>7

\* A step of a process.
LEMMA StepTyped ==
  ASSUME Typed, NEW p \in Cmds,
         \/ \E o \in Ops : Begin(p, o)
         \/ LoadConfig(p) \/ LoadFails(p) \/ Change(p) \/ WriteConfig(p) \/ LoadPorts(p)
         \/ SavePorts(p) \/ SaveNothing(p)
         \/ Post(p) \/ PostFails(p) \/ PostNothing(p) \/ Die(p)
  PROVE  Typed'
<1>a. Files /\ Processes /\ Rest
  BY DEF Typed
<1>b. GoodConfig(Loaded)
  BY <1>a, LoadedGood
<1>1. ASSUME NEW o \in Ops, Begin(p, o) PROVE Typed'
  <2>1. Processes'
    <3> DEFINE l == IF OnConfig(o) THEN "load" ELSE "state"
    <3>1. /\ pc' = [pc EXCEPT ![p] = l] /\ op' = [op EXCEPT ![p] = o]
          /\ cfg' = [cfg EXCEPT ![p] = cfg[p]] /\ mem' = [mem EXCEPT ![p] = mem[p]]
      BY <1>1, <1>a, Unchanged DEF Begin
    <3>2. l \in {"load", "state"} /\ (l = "state" => ~OnConfig(o))
      OBVIOUS
    <3> HIDE DEF l
    <3> QED
      BY <1>a, <3>1, <3>2, Unchanged, GoesTyped
  <2>2. commands' \in 0..MaxCommands
    BY <1>1, <1>a, AppUrlsAssumption DEF Begin, Rest
  <2>3. alone' \in [Cmds -> BOOLEAN] /\ raced' \in BOOLEAN
    BY <1>1, <1>a DEF Begin, Rest
  <2> QED
    BY <1>1, <1>a, <2>1, <2>2, <2>3 DEF Begin, Typed, Files, Rest, disk
<1>2. CASE LoadConfig(p)
  <2> DEFINE l == IF OnConfig(op[p]) THEN "change" ELSE "post"
  <2>1. /\ pc' = [pc EXCEPT ![p] = l] /\ op' = [op EXCEPT ![p] = op[p]]
        /\ cfg' = [cfg EXCEPT ![p] = Loaded] /\ mem' = [mem EXCEPT ![p] = mem[p]]
    BY <1>2, <1>a, Unchanged DEF LoadConfig, Goto
  <2>2. op[p] \in Ops /\ mem[p] \in [Apps -> Ports \cup {0}]
    BY <1>2, <1>a, Unchanged DEF LoadConfig
  <2>3. l \in {"change", "post"} /\ (l = "change" => OnConfig(op[p]))
    OBVIOUS
  <2> HIDE DEF l
  <2>4. Processes'
    BY <1>a, <1>b, <2>1, <2>2, <2>3, GoesTyped
  <2> QED
    BY <1>2, <1>a, <2>4 DEF LoadConfig, Typed, Files, Rest, disk, history
<1>3. CASE LoadFails(p) \/ SaveNothing(p)
  <2>1. Processes'
    BY <1>3, <1>a, OverTyped DEF LoadFails, SaveNothing
  <2> QED
    BY <1>3, <1>a, <2>1 DEF LoadFails, SaveNothing, Typed, Files, Rest, disk, history
<1>4. CASE Change(p)
  <2>1. CASE Over(p) /\ UNCHANGED <<file, settled>>
    <3>1. Processes'
      BY <2>1, <1>a, OverTyped
    <3> QED
      BY <1>4, <1>a, <2>1, <3>1 DEF Change, Typed, Files, Rest
  <2>2. ASSUME NEW c \in Changed(cfg[p], op[p]), cfg' = [cfg EXCEPT ![p] = c],
               file' = Cut, settled' = FALSE, Goto(p, "write"), UNCHANGED mem
        PROVE  Typed'
    <3>1. op[p] \in Ops /\ OnConfig(op[p]) /\ GoodConfig(cfg[p]) /\ mem[p] \in [Apps -> Ports \cup {0}]
      BY <1>4, <1>a, Unchanged DEF Change
    <3>2. GoodConfig(c)
      BY <1>a, <3>1, ChangeKeeps DEF Rest
    <3>3. op' = [op EXCEPT ![p] = op[p]] /\ mem' = [mem EXCEPT ![p] = mem[p]] /\ pc' = [pc EXCEPT ![p] = "write"]
      BY <1>a, <2>2, Unchanged DEF Goto
    <3>4. Processes'
      BY <1>a, <2>2, <3>1, <3>2, <3>3, GoesTyped
    <3> QED
      BY <1>4, <1>a, <2>2, <3>4 DEF Change, Typed, Files, Rest
  <2> QED
    BY <1>4, <2>1, <2>2 DEF Change
<1>5. CASE WriteConfig(p)
  <2>1. op[p] \in Ops /\ OnConfig(op[p]) /\ GoodConfig(cfg[p]) /\ mem[p] \in [Apps -> Ports \cup {0}]
    BY <1>5, <1>a, Unchanged DEF WriteConfig
  <2>2. /\ pc' = [pc EXCEPT ![p] = "ports"] /\ op' = [op EXCEPT ![p] = op[p]]
        /\ cfg' = [cfg EXCEPT ![p] = cfg[p]] /\ mem' = [mem EXCEPT ![p] = mem[p]]
    BY <1>5, <1>a, Unchanged DEF WriteConfig, Goto
  <2>3. Processes'
    BY <1>a, <2>1, <2>2, GoesTyped
  <2>4. file' \in {Cut, Torn} \/ GoodConfig(file')
    BY <1>5, <2>1 DEF WriteConfig
  <2>5. granted' \in [Apps -> SUBSET Users] /\ opened' \in SUBSET Apps
    <3>1. /\ op[p].kind \in {"public", "private", "users"} => op[p].app \in Apps
          /\ op[p].kind = "users" => op[p].users \in SUBSET Users
      BY <2>1, OpFields
    <3>2. granted' \in [Apps -> SUBSET Users]
      BY <1>5, <1>a, <3>1 DEF WriteConfig, Rest
    <3>3. opened' \in SUBSET Apps
      BY <1>5, <1>a, <3>1 DEF WriteConfig, Rest
    <3> QED
      BY <3>2, <3>3
  <2> QED
    BY <1>5, <1>a, <2>3, <2>4, <2>5 DEF WriteConfig, Typed, Files, Rest
<1>6. CASE LoadPorts(p)
  <2>1. op[p] \in Ops /\ GoodConfig(cfg[p]) /\ ports \in [Apps -> Ports \cup {0}]
    BY <1>6, <1>a, Unchanged DEF LoadPorts, Files
  <2>2. /\ pc' = [pc EXCEPT ![p] = "post"] /\ op' = [op EXCEPT ![p] = op[p]]
        /\ cfg' = [cfg EXCEPT ![p] = cfg[p]] /\ mem' = [mem EXCEPT ![p] = ports]
    BY <1>6, <1>a, Unchanged DEF LoadPorts, Goto
  <2>3. Processes'
    BY <1>a, <2>1, <2>2, GoesTyped
  <2> QED
    BY <1>6, <1>a, <2>3 DEF LoadPorts, Typed, Files, Rest, disk, history
<1>7. CASE SavePorts(p)
  <2> DEFINE a == op[p].app
  <2>1. op[p] \in Ops /\ GoodConfig(cfg[p]) /\ a \in Apps
    BY <1>7, <1>a, Unchanged, OpFields DEF SavePorts
  <2>2. PICK q \in Ports \cup {0} :
          /\ ports' = [ports EXCEPT ![a] = q]
          /\ q # 0 => \A b \in Apps : ports[b] # q
    <3>1. CASE op[p].kind = "create"
      <4>1. ports[a] = 0
        BY <1>7, <3>1 DEF SavePorts
      <4> DEFINE free == {q \in Ports : \A b \in Apps : ports[b] # q}
                 q == CHOOSE q \in free : \A r \in free : q <= r
      <4>2. q \in free
        BY <1>a, <2>1, <4>1, FreePort DEF Files
      <4>3. ports' = [ports EXCEPT ![a] = q]
        BY <1>7, <3>1 DEF SavePorts
      <4> QED
        BY <4>2, <4>3
    <3>2. CASE op[p].kind = "delete"
      BY <1>7, <3>2 DEF SavePorts
    <3> QED
      BY <1>7, <3>1, <3>2 DEF SavePorts
  <2>3. /\ ports' \in [Apps -> Ports \cup {0}]
        /\ \A x, y \in Apps : ports'[x] = ports'[y] /\ ports'[x] # 0 => x = y
    BY <1>a, <2>1, <2>2 DEF Files
  <2>4. /\ pc' = [pc EXCEPT ![p] = "load"] /\ op' = [op EXCEPT ![p] = op[p]]
        /\ cfg' = [cfg EXCEPT ![p] = cfg[p]] /\ mem' = [mem EXCEPT ![p] = ports']
    BY <1>7, <1>a, Unchanged DEF SavePorts, Goto
  <2>5. Processes'
    BY <1>a, <2>1, <2>3, <2>4, GoesTyped
  <2> QED
    BY <1>7, <1>a, <2>3, <2>5 DEF SavePorts, Typed, Files, Rest
<1>8. CASE Post(p) \/ PostFails(p) \/ PostNothing(p)
  <2>1. Processes'
    BY <1>8, <1>a, OverTyped DEF Post, PostFails, PostNothing
  <2>2. caddy' \in [up : BOOLEAN, routes : SUBSET Route]
    <3>1. Routes(cfg[p], mem[p]) \in SUBSET Route
      BY <1>a, Unchanged, RoutesTyped
    <3>2. caddy \in [up : BOOLEAN, routes : SUBSET Route]
      BY <1>a DEF Rest
    <3>3. \A up \in BOOLEAN : [up |-> up, routes |-> {}] \in [up : BOOLEAN, routes : SUBSET Route]
      OBVIOUS
    <3>4. \A c \in Ensured : c \in [up : BOOLEAN, routes : SUBSET Route]
      BY <3>2, <3>3 DEF Ensured
    <3> QED
      BY <1>8, <3>1, <3>2, <3>3, <3>4 DEF Post, PostFails, PostNothing
  <2>3. settled' \in BOOLEAN
    BY <1>8, <1>a DEF Post, PostFails, PostNothing, Rest, history
  <2> QED
    BY <1>8, <1>a, <2>1, <2>2, <2>3 DEF Post, PostFails, PostNothing, Typed, Files, Rest, disk, history
<1>9. CASE Die(p)
  <2>1. Processes'
    BY <1>9, <1>a, OverTyped DEF Die
  <2>2. faults' \in 0..MaxFaults
    BY <1>9, <1>a, AppUrlsAssumption DEF Die, Rest
  <2> QED
    BY <1>9, <1>a, <2>1, <2>2 DEF Die, Typed, Files, Rest, disk, history
<1> QED
  BY <1>1, <1>2, <1>3, <1>4, <1>5, <1>6, <1>7, <1>8, <1>9

-----------------------------------------------------------------------------
(* What caddy serves                                                       *)

\* A step of p leaves the other processes as they are.
Others(p) ==
  \A q \in Cmds \ {p} : pc'[q] = pc[q] /\ op'[q] = op[q] /\ cfg'[q] = cfg[q] /\ mem'[q] = mem[q]

\* A process that is under way takes a step: what it must see to itself.
LEMMA StepSolo ==
  ASSUME Typed, Solo, NEW p \in Cmds, pc[p] # "off", Others(p), alone' = alone,
         settled' => settled \/ alone[p], Dirty(p)' => ~settled',
         alone[p] /\ pc'[p] # "off" => UpToDate(p)',
         \A q \in Cmds \ {p} : alone[q] /\ pc[q] # "off" => FALSE
  PROVE  Solo'
<1> SUFFICES ASSUME NEW q \in Active'
             PROVE  (Dirty(q)' => ~settled') /\ (alone'[q] => Active' = {q} /\ UpToDate(q)')
  BY DEF Solo
<1>1. q \in Cmds /\ pc'[q] # "off"
  BY DEF Active
<1>2. CASE q = p
  <2>1. alone[p] => Active = {p}
    BY DEF Solo, Active
  <2>2. alone[p] => Active' = {p}
    BY <2>1, <1>1, <1>2 DEF Active, Others
  <2> QED
    BY <1>1, <1>2, <2>2
<1>3. CASE q # p
  <2>1. pc[q] # "off" /\ q \in Active /\ p \in Active
    BY <1>1, <1>3 DEF Others, Active
  <2>2. ~alone[p]
    BY <2>1, <1>3 DEF Solo
  <2>3. Dirty(q)' => Dirty(q)
    BY <1>1, <1>3 DEF Dirty, Others
  <2> QED
    BY <1>1, <1>3, <2>1, <2>2, <2>3 DEF Solo
<1> QED
  BY <1>2, <1>3

\* The process that is alone is the only one.
LEMMA OnlyOne ==
  ASSUME Solo, NEW p \in Cmds, pc[p] # "off"
  PROVE  \A q \in Cmds \ {p} : alone[q] /\ pc[q] # "off" => FALSE
BY DEF Solo, Active

\* A command that is over is between commands, and has left the others alone.
LEMMA OverOthers ==
  ASSUME Processes, NEW p \in Cmds, Over(p)
  PROVE  Others(p) /\ pc'[p] = "off"
BY DEF Over, Others, Processes

\* A process that ends has nothing more to see to.
LEMMA OverSolo ==
  ASSUME Typed, Solo, NEW p \in Cmds, pc[p] # "off", Over(p), alone' = alone,
         settled' => settled \/ alone[p]
  PROVE  Solo'
<1>1. Others(p) /\ pc'[p] = "off"
  BY OverOthers DEF Typed
<1>2. ~Dirty(p)'
  BY <1>1 DEF Dirty
<1> QED
  BY <1>1, <1>2, OnlyOne, StepSolo

\* A file that is read as a configuration is that configuration.
LEMMA ReadsBack ==
  ASSUME Files
  PROVE  /\ \A c \in Config : file = c => Loaded = c
         /\ Loaded.on => file = Loaded
BY NoConfig, DefaultsGood DEF Loaded

\* Steps that touch neither the files nor caddy leave it as it is.
LEMMA SameRoutes ==
  ASSUME RoutesFollowFiles, UNCHANGED <<disk, caddy>>, settled' => settled
  PROVE  RoutesFollowFiles'
BY DEF RoutesFollowFiles, disk, Loaded, Routes, Served

\* A step of a process keeps what a settled caddy serves what the files ask for.
LEMMA StepFollows ==
  ASSUME Typed, Solo, RoutesFollowFiles, NEW p \in Cmds,
         \/ \E o \in Ops : Begin(p, o)
         \/ LoadConfig(p) \/ LoadFails(p) \/ Change(p) \/ WriteConfig(p) \/ LoadPorts(p)
         \/ SavePorts(p) \/ SaveNothing(p)
         \/ Post(p) \/ PostFails(p) \/ PostNothing(p) \/ Die(p)
  PROVE  Solo' /\ RoutesFollowFiles'
<1>a. Files /\ Processes /\ Rest
  BY DEF Typed
<1>b. pc[p] # "off" =>
        /\ \A q \in Cmds \ {p} : alone[q] /\ pc[q] # "off" => FALSE
        /\ Dirty(p) => ~settled
        /\ alone[p] => UpToDate(p)
  BY OnlyOne DEF Solo, Active
<1>1. ASSUME NEW o \in Ops, Begin(p, o) PROVE Solo' /\ RoutesFollowFiles'
  <2>1. /\ pc[p] = "off" /\ pc'[p] = (IF OnConfig(o) THEN "load" ELSE "state") /\ op'[p] = o
        /\ Others(p)
    BY <1>1, <1>a DEF Begin, Processes, Others
  <2>2. Solo'
    <3> SUFFICES ASSUME NEW q \in Active'
                 PROVE  (Dirty(q)' => ~settled') /\ (alone'[q] => Active' = {q} /\ UpToDate(q)')
      BY DEF Solo
    <3>1. q \in Cmds /\ pc'[q] # "off" /\ settled' = settled
      BY <1>1 DEF Active, Begin
    <3>2. CASE q = p
      <4>1. ~Dirty(q)' /\ UpToDate(q)'
        BY <2>1, <3>2 DEF Dirty, UpToDate
      <4>2. alone'[q] => Active = {}
        BY <1>1, <3>1 DEF Begin
      <4>3. Active = {} => Active' = {p}
        BY <2>1 DEF Active, Others
      <4> QED
        BY <3>2, <4>1, <4>2, <4>3
    <3>3. CASE q # p
      <4>1. ~alone'[q]
        BY <1>1, <3>1, <3>3 DEF Begin
      <4>2. q \in Active /\ (Dirty(q)' => Dirty(q))
        BY <2>1, <3>1, <3>3 DEF Others, Active, Dirty
      <4> QED
        BY <3>1, <4>1, <4>2 DEF Solo
    <3> QED
      BY <3>2, <3>3
  <2> QED
    BY <1>1, <2>2, SameRoutes DEF Begin
<1>2. CASE LoadConfig(p)
  <2>1. /\ pc[p] = "load" /\ pc'[p] = (IF OnConfig(op[p]) THEN "change" ELSE "post")
        /\ op'[p] = op[p] /\ cfg'[p] = Loaded /\ mem'[p] = mem[p] /\ Loaded' = Loaded
        /\ Others(p) /\ alone' = alone /\ settled' = settled /\ ports' = ports
    BY <1>2, <1>a DEF LoadConfig, Goto, Processes, Others, history, disk, Loaded
  <2>2. Dirty(p)' => ~settled'
    BY <1>b, <2>1 DEF Dirty
  <2>3. alone[p] => UpToDate(p)'
    BY <1>b, <2>1 DEF UpToDate
  <2>4. Solo'
    BY <1>b, <2>1, <2>2, <2>3, StepSolo
  <2> QED
    BY <1>2, <2>1, <2>4, SameRoutes DEF LoadConfig
<1>3. CASE LoadFails(p) \/ SaveNothing(p) \/ Die(p)
  <2>1. pc[p] # "off" /\ Over(p) /\ UNCHANGED <<disk, caddy, history>>
    BY <1>3 DEF LoadFails, SaveNothing, Die
  <2>2. alone' = alone /\ settled' = settled
    BY <2>1 DEF history
  <2>3. Solo'
    BY <2>1, <2>2, OverSolo
  <2> QED
    BY <2>1, <2>2, <2>3, SameRoutes
<1>4. CASE Change(p)
  <2>1. CASE Over(p) /\ UNCHANGED <<file, settled>>
    <3>1. pc[p] # "off" /\ alone' = alone /\ UNCHANGED <<disk, caddy>>
      BY <1>4, <2>1 DEF Change, disk
    <3>2. Solo'
      BY <2>1, <3>1, OverSolo
    <3> QED
      BY <2>1, <3>1, <3>2, SameRoutes
  <2>2. ASSUME NEW c \in Changed(cfg[p], op[p]), cfg' = [cfg EXCEPT ![p] = c],
               file' = Cut, settled' = FALSE, Goto(p, "write"), UNCHANGED mem
        PROVE  Solo' /\ RoutesFollowFiles'
    <3>1. /\ pc[p] = "change" /\ pc'[p] = "write" /\ Others(p) /\ alone' = alone
      BY <1>4, <1>a, <2>2 DEF Change, Goto, Processes, Others
    <3>2. UpToDate(p)'
      BY <2>2, <3>1 DEF UpToDate
    <3>3. Solo'
      BY <1>b, <2>2, <3>1, <3>2, StepSolo
    <3> QED
      BY <2>2, <3>3 DEF RoutesFollowFiles
  <2> QED
    BY <1>4, <2>1, <2>2 DEF Change
<1>5. CASE WriteConfig(p)
  <2>1. /\ pc[p] = "write" /\ pc'[p] = "ports" /\ cfg'[p] = cfg[p] /\ Others(p)
        /\ alone' = alone /\ settled' = settled
        /\ file = Cut => file' = cfg[p]
    BY <1>5, <1>a DEF WriteConfig, Goto, Processes, Others
  <2>2. ~settled'
    BY <1>b, <2>1 DEF Dirty
  <2>3. alone[p] => UpToDate(p)'
    BY <1>b, <2>1 DEF UpToDate
  <2>4. Solo'
    BY <1>b, <2>1, <2>2, <2>3, StepSolo
  <2> QED
    BY <2>2, <2>4 DEF RoutesFollowFiles
<1>6. CASE LoadPorts(p)
  <2>1. /\ pc[p] = "ports" /\ pc'[p] = "post" /\ cfg'[p] = cfg[p] /\ mem'[p] = ports /\ Others(p)
        /\ alone' = alone /\ settled' = settled /\ Loaded' = Loaded /\ ports' = ports
        /\ cfg[p] \in Config
    BY <1>6, <1>a DEF LoadPorts, Goto, Processes, Others, history, disk, Loaded
  <2>2. ~settled'
    BY <1>b, <2>1 DEF Dirty
  <2>3. alone[p] => UpToDate(p)'
    <3>1. alone[p] => Loaded = cfg[p]
      BY <1>a, <1>b, <2>1, ReadsBack DEF UpToDate
    <3> QED
      BY <2>1, <3>1 DEF UpToDate
  <2>4. Solo'
    BY <1>b, <2>1, <2>2, <2>3, StepSolo
  <2> QED
    BY <2>2, <2>4 DEF RoutesFollowFiles
<1>7. CASE SavePorts(p)
  <2>1. /\ pc[p] = "state" /\ pc'[p] = "load" /\ mem'[p] = ports' /\ Others(p)
        /\ alone' = alone /\ ~settled'
    BY <1>7, <1>a DEF SavePorts, Goto, Processes, Others
  <2>2. UpToDate(p)'
    BY <2>1 DEF UpToDate
  <2>3. Solo'
    BY <1>b, <2>1, <2>2, StepSolo
  <2> QED
    BY <2>1, <2>3 DEF RoutesFollowFiles
<1>8. CASE Post(p)
  <2>1. /\ pc[p] = "post" /\ Over(p) /\ alone' = alone /\ settled' = alone[p]
        /\ file' = file /\ ports' = ports
    BY <1>8 DEF Post, disk
  <2>2. PICK c \in Ensured : caddy' = [c EXCEPT !.routes = Routes(cfg[p], mem[p])]
    BY <1>8 DEF Post
  <2>3. caddy'.up /\ caddy'.routes = Routes(cfg[p], mem[p])
    <3>1. caddy \in [up : BOOLEAN, routes : SUBSET Route]
      BY <1>a DEF Rest
    <3>2. c = [up |-> TRUE, routes |-> {}] \/ (caddy.up /\ c = caddy)
      BY DEF Ensured
    <3>3. CASE c = [up |-> TRUE, routes |-> {}]
      BY <2>2, <3>3
    <3>4. CASE caddy.up /\ c = caddy
      BY <2>2, <3>1, <3>4
    <3> QED
      BY <3>2, <3>3, <3>4
  <2>4. alone[p] => Loaded = cfg[p] /\ mem[p] = ports
    BY <1>b, <2>1 DEF UpToDate
  <2>5. alone[p] /\ Loaded.on => Routes(cfg[p], mem[p]) = Routes(file, ports)
    BY <1>a, <2>4, ReadsBack
  <2>6. Solo'
    BY <2>1, OverSolo
  <2>7. Loaded' = Loaded /\ Routes(file, ports)' = Routes(file, ports)
    BY <2>1 DEF Loaded, Routes, Served
  <2> QED
    BY <2>1, <2>3, <2>5, <2>6, <2>7 DEF RoutesFollowFiles
<1>9. CASE PostFails(p)
  <2>1. pc[p] = "post" /\ Over(p) /\ alone' = alone /\ settled' = settled
    BY <1>9 DEF PostFails, history
  <2>2. ~settled'
    BY <1>b, <2>1 DEF Dirty
  <2>3. Solo'
    BY <2>1, OverSolo
  <2> QED
    BY <2>2, <2>3 DEF RoutesFollowFiles
<1>10. CASE PostNothing(p)
  <2>1. /\ pc[p] = "post" /\ ~cfg[p].on /\ Over(p) /\ alone' = alone /\ settled' = alone[p]
        /\ file' = file
    BY <1>10 DEF PostNothing, disk
  <2>2. alone[p] => Loaded = cfg[p]
    BY <1>b, <2>1 DEF UpToDate
  <2>3. Loaded' = Loaded
    BY <2>1 DEF Loaded
  <2>4. Solo'
    BY <2>1, OverSolo
  <2> QED
    BY <2>1, <2>2, <2>3, <2>4 DEF RoutesFollowFiles
<1> QED
  BY <1>1, <1>2, <1>3, <1>4, <1>5, <1>6, <1>7, <1>8, <1>9, <1>10

-----------------------------------------------------------------------------
(* Who was asked in                                                        *)

\* A process that is under way takes a step: what it must see to itself.
LEMMA StepAsked ==
  ASSUME Asked, NEW p \in Cmds, pc[p] # "off", Others(p), raced' = raced,
         ~raced =>
           /\ Fits(Loaded', granted', opened')
           /\ pc'[p] = "change" => Fits(cfg'[p], granted', opened')
           /\ pc'[p] = "write" => Fits(cfg'[p], GrantedBy(op[p])', OpenedBy(op[p])')
  PROVE  Asked'
<1> SUFFICES ASSUME ~raced' PROVE
      /\ \A q, r \in Active' : q = r
      /\ Fits(Loaded', granted', opened')
      /\ \A q \in Cmds :
           /\ pc'[q] = "change" => Fits(cfg'[q], granted', opened')
           /\ pc'[q] = "write" => Fits(cfg'[q], GrantedBy(op[q])', OpenedBy(op[q])')
  BY DEF Asked, Fits
<1>1. \A q \in Cmds \ {p} : pc[q] = "off" /\ pc'[q] = "off"
  BY DEF Asked, Active, Others
<1>2. \A q, r \in Active' : q = r
  BY <1>1 DEF Active
<1> QED
  BY <1>1, <1>2

\* The steps of a command keep what was asked for.
LEMMA NextAsked ==
  ASSUME Typed, Asked, NEW p \in Cmds,
         \/ \E o \in Ops : Begin(p, o)
         \/ LoadConfig(p) \/ LoadFails(p) \/ Change(p) \/ WriteConfig(p) \/ LoadPorts(p)
         \/ SavePorts(p) \/ SaveNothing(p)
         \/ Post(p) \/ PostFails(p) \/ PostNothing(p) \/ Die(p)
  PROVE  Asked'
<1>a. Files /\ Processes /\ Rest
  BY DEF Typed
<1>1. ASSUME NEW o \in Ops, Begin(p, o) PROVE Asked'
  <2>1. /\ pc'[p] \notin {"off", "change", "write"} /\ Others(p)
        /\ raced' = (raced \/ Active # {})
        /\ Loaded' = Loaded /\ granted' = granted /\ opened' = opened
    BY <1>1, <1>a DEF Begin, Processes, Others, disk, Loaded
  <2> SUFFICES ASSUME ~raced' PROVE
        /\ \A q, r \in Active' : q = r
        /\ Fits(Loaded', granted', opened')
        /\ \A q \in Cmds :
             /\ pc'[q] = "change" => Fits(cfg'[q], granted', opened')
             /\ pc'[q] = "write" => Fits(cfg'[q], GrantedBy(op[q])', OpenedBy(op[q])')
    BY DEF Asked, Fits
  <2>2. ~raced /\ Active = {}
    BY <2>1
  <2>3. \A q \in Cmds \ {p} : pc'[q] = "off"
    BY <2>1, <2>2 DEF Active, Others
  <2>4. \A q, r \in Active' : q = r
    BY <2>3 DEF Active
  <2>5. Fits(Loaded', granted', opened')
    BY <2>1, <2>2 DEF Asked
  <2> QED
    BY <2>1, <2>3, <2>4, <2>5
<1>2. CASE LoadConfig(p)
  <2>1. /\ pc[p] = "load" /\ pc'[p] # "write" /\ cfg'[p] = Loaded /\ Others(p)
        /\ raced' = raced /\ Loaded' = Loaded /\ granted' = granted /\ opened' = opened
    BY <1>2, <1>a DEF LoadConfig, Goto, Processes, Others, history, disk, Loaded
  <2>2. ~raced => Fits(Loaded, granted, opened)
    BY DEF Asked
  <2> QED
    BY <2>1, <2>2, StepAsked
<1>3. ASSUME pc[p] # "off", Over(p), file' = file, UNCHANGED <<raced, granted, opened>>
      PROVE  Asked'
  <2>1. Others(p) /\ pc'[p] = "off" /\ Loaded' = Loaded
    BY <1>3, <1>a, OverOthers DEF Loaded
  <2>2. ~raced => Fits(Loaded, granted, opened)
    BY DEF Asked
  <2> QED
    BY <1>3, <2>1, <2>2, StepAsked
<1>4. CASE LoadFails(p) \/ SaveNothing(p) \/ Post(p) \/ PostFails(p) \/ PostNothing(p) \/ Die(p)
  BY <1>3, <1>4 DEF LoadFails, SaveNothing, Post, PostFails, PostNothing, Die, disk, history
<1>5. CASE Change(p)
  <2>1. CASE Over(p) /\ UNCHANGED <<file, settled>>
    BY <1>3, <1>5, <2>1 DEF Change
  <2>2. ASSUME NEW c \in Changed(cfg[p], op[p]), cfg' = [cfg EXCEPT ![p] = c],
               file' = Cut, Goto(p, "write"), UNCHANGED mem
        PROVE  Asked'
    <3>1. /\ pc[p] = "change" /\ pc'[p] = "write" /\ cfg'[p] = c /\ op' = op /\ Others(p)
          /\ raced' = raced /\ granted' = granted /\ opened' = opened /\ Loaded' = Defaults
      BY <1>5, <1>a, <2>2 DEF Change, Goto, Processes, Others, Loaded
    <3>2. op[p] \in Ops /\ OnConfig(op[p]) /\ GoodConfig(cfg[p]) /\ granted \in [Apps -> SUBSET Users]
      BY <1>a, <3>1, Unchanged DEF Rest
    <3>3. ~raced => Fits(c, GrantedBy(op[p]), OpenedBy(op[p]))
      BY <3>1, <3>2, ChangeKeeps DEF Asked
    <3>4. GrantedBy(op[p])' = GrantedBy(op[p]) /\ OpenedBy(op[p])' = OpenedBy(op[p])
      BY <3>1 DEF GrantedBy, OpenedBy
    <3>5. Fits(Loaded', granted', opened')
      BY <3>1, DefaultsGood
    <3> QED
      BY <3>1, <3>3, <3>4, <3>5, StepAsked
  <2> QED
    BY <1>5, <2>1, <2>2 DEF Change
<1>6. CASE WriteConfig(p)
  <2>1. /\ pc[p] = "write" /\ pc'[p] = "ports" /\ Others(p) /\ raced' = raced
        /\ file' \in {cfg[p], Torn} /\ cfg[p] \in Config
    BY <1>6, <1>a DEF WriteConfig, Goto, Processes, Others
  <2>2. granted' = GrantedBy(op[p]) /\ opened' = OpenedBy(op[p])
    BY <1>6 DEF WriteConfig, GrantedBy, OpenedBy
  <2>3. Loaded' \in {cfg[p], Defaults}
    BY <2>1, NoConfig DEF Loaded
  <2>4. ~raced => Fits(cfg[p], granted', opened')
    BY <2>1, <2>2 DEF Asked
  <2>5. ~raced => Fits(Loaded', granted', opened')
    BY <2>3, <2>4, DefaultsGood
  <2> QED
    BY <2>1, <2>5, StepAsked
<1>7. CASE LoadPorts(p) \/ SavePorts(p)
  <2>1. /\ pc[p] # "off" /\ pc'[p] \in {"post", "load"} /\ Others(p) /\ raced' = raced
        /\ granted' = granted /\ opened' = opened /\ Loaded' = Loaded
    BY <1>7, <1>a DEF LoadPorts, SavePorts, Goto, Processes, Others, Loaded, disk, history
  <2>2. ~raced => Fits(Loaded, granted, opened)
    BY DEF Asked
  <2> QED
    BY <2>1, <2>2, StepAsked
<1> QED
  BY <1>1, <1>2, <1>4, <1>5, <1>6, <1>7

-----------------------------------------------------------------------------
(* The invariant                                                           *)

\* Init establishes it.
LEMMA InitUrlInv == Init => UrlInv
<1> SUFFICES ASSUME Init PROVE UrlInv
  OBVIOUS
<1>1. ~settled /\ Active = {}
  BY DEF Init, Active
<1>2. Typed
  BY InitTyped
<1>3. Solo /\ RoutesFollowFiles
  BY <1>1 DEF Solo, RoutesFollowFiles
<1>4. Loaded.apps = Defaults.apps
  <2>1. file = Cut \/ \E u \in Users : file = [Defaults EXCEPT !.on = TRUE, !.primary = u, !.users = Users]
    BY DEF Init
  <2>2. Defaults \in Config
    BY DefaultsGood DEF GoodConfig
  <2> QED
    BY <2>1, <2>2 DEF Loaded, Config
<1>5. Fits(Loaded, granted, opened)
  BY <1>4, DefaultsGood DEF Fits
<1>6. \A p \in Cmds : pc[p] = "off"
  BY DEF Init
<1>7. Asked
  BY <1>1, <1>5, <1>6 DEF Asked
<1> QED
  BY <1>2, <1>3, <1>7 DEF UrlInv

\* A restart of caddy loses the routes, and with them the claim about them.
LEMMA RestartsKeep == UrlInv /\ CaddyRestarts => UrlInv'
<1> SUFFICES ASSUME UrlInv, CaddyRestarts PROVE UrlInv'
  OBVIOUS
<1>1. /\ UNCHANGED <<file, ports, pc, op, cfg, mem, commands, alone, raced, granted, opened>>
      /\ settled' = FALSE
  BY DEF CaddyRestarts, disk, procs
<1>2. caddy' \in [up : BOOLEAN, routes : SUBSET Route]
  BY DEF CaddyRestarts
<1>3. faults' \in 0..MaxFaults
  BY AppUrlsAssumption DEF CaddyRestarts, UrlInv, Typed, Rest
<1>4. Typed'
  BY <1>1, <1>2, <1>3 DEF UrlInv, Typed, Files, Processes, OpFits, Rest
<1>5. Solo' /\ RoutesFollowFiles'
  BY <1>1 DEF UrlInv, Solo, Active, Dirty, UpToDate, Loaded, RoutesFollowFiles
<1>6. Asked'
  BY <1>1 DEF UrlInv, Asked, Active, Loaded, Fits, GrantedBy, OpenedBy
<1> QED
  BY <1>4, <1>5, <1>6 DEF UrlInv

\* Nothing changes.
LEMMA StuttersKeep == UrlInv /\ UNCHANGED vars => UrlInv'
<1> SUFFICES ASSUME UrlInv, UNCHANGED vars PROVE UrlInv'
  OBVIOUS
<1> USE DEF vars, disk, procs, history
<1>1. Typed'
  BY DEF UrlInv, Typed, Files, Processes, OpFits, Rest
<1>2. Solo' /\ RoutesFollowFiles'
  BY DEF UrlInv, Solo, Active, Dirty, UpToDate, Loaded, RoutesFollowFiles, Routes, Served
<1>3. Asked'
  BY DEF UrlInv, Asked, Active, Loaded, Fits, GrantedBy, OpenedBy
<1> QED
  BY <1>1, <1>2, <1>3 DEF UrlInv

\* The invariant holds throughout.
LEMMA Invariant == Spec => []UrlInv
<1>1. UrlInv /\ Next => UrlInv'
  <2> SUFFICES ASSUME UrlInv, NEW p \in Cmds,
                      \/ \E o \in Ops : Begin(p, o)
                      \/ LoadConfig(p) \/ LoadFails(p) \/ Change(p) \/ WriteConfig(p) \/ LoadPorts(p)
                      \/ SavePorts(p) \/ SaveNothing(p)
                      \/ Post(p) \/ PostFails(p) \/ PostNothing(p) \/ Die(p)
               PROVE  UrlInv'
    BY RestartsKeep DEF Next
  <2>1. Typed /\ Solo /\ RoutesFollowFiles /\ Asked
    BY DEF UrlInv
  <2>2. Typed'
    BY <2>1, StepTyped
  <2>3. Solo' /\ RoutesFollowFiles'
    BY <2>1, StepFollows
  <2>4. Asked'
    BY <2>1, NextAsked
  <2> QED
    BY <2>2, <2>3, <2>4 DEF UrlInv
<1> QED
  BY <1>1, InitUrlInv, StuttersKeep, PTL DEF Spec

-----------------------------------------------------------------------------
(* The theorems                                                            *)

\* Every variable has its type: no command writes a configuration whose apps
\* are open to users without a login, and no two apps share a port.
THEOREM Typing == Spec => []TypeOK
<1>1. UrlInv => TypeOK
  <2> SUFFICES ASSUME UrlInv PROVE TypeOK
    OBVIOUS
  <2>a. Files /\ Processes /\ Rest
    BY DEF UrlInv, Typed
  <2>1. \A c : GoodConfig(c) => ConfigOK(c)
    BY DEF GoodConfig, Config, AppEntry, ConfigOK
  <2>2. file \in {Cut, Torn} \/ ConfigOK(file)
    BY <2>a, <2>1 DEF Files
  <2>3. \A p \in Cmds : ConfigOK(cfg[p]) /\ mem[p] \in [Apps -> Ports \cup {0}]
    BY <2>a, <2>1 DEF Processes
  <2>4. /\ caddy.up \in BOOLEAN
        /\ caddy.routes \subseteq [host : Apps \cup {Custom}, port : Ports, gated : BOOLEAN]
    BY <2>a DEF Rest, Route
  <2> QED
    BY <2>a, <2>2, <2>3, <2>4 DEF TypeOK, Files, Processes, Rest
<1> QED
  BY <1>1, Invariant, PTL

\* After a command that ran alone and succeeded, and until something changes,
\* caddy runs with the routes that proxy.toml and the server state ask for.
THEOREM FollowsFiles == Spec => []RoutesFollowFiles
<1>1. UrlInv => RoutesFollowFiles
  BY DEF UrlInv
<1> QED
  BY <1>1, Invariant, PTL

\* A set with two members has at least two.
LEMMA AtMostOne ==
  ASSUME NEW S, IsFiniteSet(S), Cardinality(S) <= 1, NEW x \in S, NEW y \in S
  PROVE  x = y
<1> SUFFICES ASSUME x # y PROVE FALSE
  OBVIOUS
<1>1. IsFiniteSet({x}) /\ Cardinality({x}) = 1 /\ {x, y} = {x} \cup {y} /\ y \notin {x}
  BY FS_Singleton
<1>2. Cardinality({x, y}) <= Cardinality(S) /\ Cardinality(S) \in Nat
  BY FS_Subset, FS_CardinalityType
<1>3. Cardinality({x} \cup {y}) = 2
  BY <1>1, FS_AddElement
<1> QED
  BY <1>1, <1>2, <1>3

\* Whoever reaches an app through caddy was asked in, as long as commands run
\* one at a time and one app at most claims the custom domain.
THEOREM ReachedAsked == Spec => []ReachedAsAsked
<1>1. UrlInv => ReachedAsAsked
  <2> SUFFICES ASSUME UrlInv, settled, ~raced, Loaded.on, OneClaim,
                      NEW r \in caddy.routes, NEW a \in Apps, NEW u \in Users,
                      ports[a] = r.port, r.gated => Admits(Loaded, u, r.host)
               PROVE  a \in opened \/ u = Loaded.primary \/ u \in granted[a]
    BY DEF ReachedAsAsked
  <2>a. /\ Files /\ caddy.routes = Routes(file, ports) /\ file = Loaded /\ GoodConfig(Loaded)
        /\ Fits(Loaded, granted, opened)
    BY ReadsBack, LoadedGood DEF UrlInv, Typed, RoutesFollowFiles, Asked
  <2>1. PICK b \in Served(Loaded, ports) :
          r = [host |-> HostOf(Loaded, b), port |-> ports[b], gated |-> Access(Loaded, b) = "private"]
    BY <2>a DEF Routes
  <2>2. b = a
    BY <2>1, <2>a DEF Served, Files
  <2>3. CASE r.gated
    <3>1. PICK c \in AppsForHost(Loaded, HostOf(Loaded, a)) :
            Access(Loaded, c) = "private" => u \in Allowed(Loaded, c)
      BY <2>1, <2>2, <2>3 DEF Admits
    <3>2. c = a
      <4>1. CASE Loaded.apps[a].domain
        <5>1. AppsForHost(Loaded, Custom) \subseteq Apps /\ a \in AppsForHost(Loaded, Custom)
              /\ c \in AppsForHost(Loaded, Custom)
          BY <3>1, <4>1 DEF AppsForHost, HostOf
        <5>2. IsFiniteSet(AppsForHost(Loaded, Custom))
          BY <5>1, AppUrlsAssumption, FS_Subset
        <5> QED
          BY <5>1, <5>2, AtMostOne DEF OneClaim
      <4>2. CASE ~Loaded.apps[a].domain
        BY <3>1, <4>2, AppUrlsAssumption DEF AppsForHost, HostOf
      <4> QED
        BY <4>1, <4>2
    <3>3. u \in Allowed(Loaded, a)
      BY <2>1, <2>2, <2>3, <3>1, <3>2
    <3> QED
      BY <2>a, <3>3 DEF Allowed, Fits
  <2>4. CASE ~r.gated
    <3>1. Access(Loaded, a) # "private"
      BY <2>1, <2>2, <2>4
    <3>2. Loaded.apps[a].access = "public"
      BY <2>a, <3>1 DEF Access, GoodConfig, Config, AppEntry
    <3> QED
      BY <2>a, <3>2 DEF Fits
  <2> QED
    BY <2>3, <2>4
<1> QED
  BY <1>1, Invariant, PTL
=============================================================================
