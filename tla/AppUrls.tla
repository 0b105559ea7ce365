------------------------------ MODULE AppUrls ------------------------------
(***************************************************************************)
(* The apps' URLs: proxy.toml, what caddy serves, and who is let in.       *)
(*                                                                         *)
(* Commands load proxy.toml, change it, write it back in place, load the   *)
(* server state and post the routes of both to caddy (syncProxyWithState). *)
(* Commands on apps post routes too, after they saved the server state     *)
(* (persistState, warnProxySync), and only warn when that fails.  There is *)
(* no lock; each process can die at any step, and caddy forgets its routes *)
(* when its container starts again.  viberun-auth reads proxy.toml at      *)
(* every request to a private app (handleVerify).                          *)
(*                                                                         *)
(* There is one base domain, on which each app has a host of its own, and  *)
(* one custom domain that any app can be given.                            *)
(***************************************************************************)
EXTENDS Integers, FiniteSets

CONSTANTS
  Apps,         \* app names
  Users,        \* login names
  Ports,        \* host ports
  Custom,       \* the custom domain
  Nobody,       \* no user
  Cmds,         \* the processes that can run at a time
  MaxCommands,  \* bound: commands over time
  MaxFaults     \* bound: processes that die, and restarts of caddy

ASSUME AppUrlsAssumption ==
  /\ Custom \notin Apps /\ Nobody \notin Users
  /\ Ports \subseteq Nat \ {0} /\ IsFiniteSet(Apps) /\ IsFiniteSet(Ports)
  /\ Cardinality(Ports) >= Cardinality(Apps)
  /\ MaxCommands \in Nat /\ MaxFaults \in Nat

VARIABLES
  file,      \* proxy.toml: a configuration, Cut while it is empty, or Torn
  ports,     \* the server state: an app's port, 0 for none
  caddy,     \* the proxy's container: [up, routes]
  pc, op,    \* a process and its command
  cfg, mem,  \* the configuration and the ports it has loaded
  commands,  \* commands so far, for the bound
  faults,    \* deaths and restarts so far, for the bound
  alone,     \* alone[p]: no other command has been under way with p's
  settled,   \* the last change was made by a command that ran alone and succeeded
  raced,     \* history: two commands were under way at a time
  granted,   \* history: users given access to an app and not taken out since
  opened     \* history: apps last made public

disk == <<file, ports>>
procs == <<pc, op, cfg, mem>>
history == <<alone, settled, raced, granted, opened>>
vars == <<disk, caddy, procs, commands, faults, history>>

-----------------------------------------------------------------------------
(* Configurations: internal/proxy                                          *)

NoApp == [access |-> "", disabled |-> FALSE, domain |-> FALSE, allowed |-> {}]

\* What applyDefaults makes of nothing.  A proxy that is on is enabled, and has
\* a domain and a signing key: setup sets the three together.
Defaults == [on |-> FALSE, primary |-> Nobody, users |-> {}, apps |-> [a \in Apps |-> NoApp]]
Cut == [cut |-> TRUE]
Torn == [torn |-> TRUE]   \* a shorter text over a longer one does not parse

\* LoadConfig: an empty or a missing file is a default configuration.
Loaded == IF file \in {Cut, Torn} THEN Defaults ELSE file

\* EffectiveAppAccess: an app that says nothing has the default, private.
Access(c, a) == IF c.apps[a].access = "" THEN "private" ELSE c.apps[a].access

\* EffectiveAllowedUsers
Allowed(c, a) == {c.primary} \cup c.apps[a].allowed

\* PublicHostForApp
HostOf(c, a) == IF c.apps[a].domain THEN Custom ELSE a

\* BuildCaddyConfig: a site for every app with a port, unless it is disabled.
Served(c, m) == {a \in Apps : m[a] # 0 /\ ~c.apps[a].disabled}
Routes(c, m) ==
  {[host |-> HostOf(c, a), port |-> m[a], gated |-> Access(c, a) = "private"] :
     a \in Served(c, m)}
Buildable(c) == c.on /\ c.users # {}

\* caddy refuses a configuration that names a site twice.
Accepted(c, m) == \A a, b \in Served(c, m) : HostOf(c, a) = HostOf(c, b) => a = b

-----------------------------------------------------------------------------
(* viberun-auth                                                            *)

\* appForHost: the custom domains are looked through in no particular order.
AppsForHost(c, h) == IF h = Custom THEN {a \in Apps : c.apps[a].domain} ELSE {h}

\* handleVerify, for a user with a session of the current signing key.
Admits(c, u, h) ==
  /\ c.on /\ u \in c.users
  /\ \E a \in AppsForHost(c, h) :
       /\ ~c.apps[a].disabled
       /\ Access(c, a) = "private" => u \in Allowed(c, a)

-----------------------------------------------------------------------------
(* What the commands change                                                *)

\* The proxy as a whole and its users.
UserOps == [kind : {"setup", "add user", "remove user"}, user : Users]

\* An app's access and its URL; a program in the app's container can ask for
\* these too, over the host RPC (handleProxyPublic, handleProxyDisable, ...).
AccessOps == [kind : {"public", "private"}, app : Apps]
UrlOps == [kind : {"disable", "enable"}, app : Apps]

DomainOps == [kind : {"domain", "no domain"}, app : Apps]
AllowOps == [kind : {"users"}, app : Apps, users : SUBSET Users]

\* Commands on apps that change the server state.
StateOps == [kind : {"create", "delete"}, app : Apps]

Ops == UserOps \cup AccessOps \cup UrlOps \cup DomainOps \cup AllowOps \cup StateOps
NoOp == [kind |-> "none"]

OnConfig(o) == o.kind \notin {"create", "delete"}

SetApp(c, a, x) == [c EXCEPT !.apps = [c.apps EXCEPT ![a] = x]]

\* handleProxySetup: with a password the user is added, without one it need
\* not be one of the users.
Setup(c, u) ==
  {d \in {[c EXCEPT !.on = TRUE, !.primary = u, !.users = us] :
            us \in {c.users, c.users \cup {u}}} : d.users # {}}

\* setProxyAccess: any choice of access turns a disabled URL on again.
SetAccess(c, a, x) == SetApp(c, a, [c.apps[a] EXCEPT !.access = x, !.disabled = FALSE])

\* setProxyDisabled
SetDisabled(c, a, d) == SetApp(c, a, [c.apps[a] EXCEPT !.disabled = d])

\* handleProxySetDomain: whoever else has the domain.
SetDomain(c, a, d) == SetApp(c, a, [c.apps[a] EXCEPT !.domain = d])

\* handleProxySetUsers: without the primary user, and only known ones.
SetUsers(c, a, us) ==
  {d \in {SetApp(c, a, [c.apps[a] EXCEPT !.allowed = us \ {c.primary}])} :
     us \ {c.primary} \subseteq c.users}

\* handleProxyUsersAdd, handleProxyUsersSetPassword
AddUser(c, u) == [c EXCEPT !.users = c.users \cup {u}]

\* Mutant: the user is left in the apps' lists.
RemoveUserOnly(c, u) ==
  {d \in {[c EXCEPT !.users = c.users \ {u}]} : u # c.primary /\ u \in c.users}

\* handleProxyUsersRemove: not the primary user, and from every app's list.
RemoveUser(c, u) ==
  {d \in {[c EXCEPT !.users = c.users \ {u},
                    !.apps = [a \in Apps |-> [c.apps[a] EXCEPT !.allowed = @ \ {u}]]]} :
     u # c.primary /\ u \in c.users}

\* The configurations a command can write; none when it is refused.
Changed(c, o) ==
  CASE o.kind = "setup" -> Setup(c, o.user)
    [] o.kind = "public" -> {SetAccess(c, o.app, "public")}
    [] o.kind = "private" -> {SetAccess(c, o.app, "private")}
    [] o.kind = "disable" -> {SetDisabled(c, o.app, TRUE)}
    [] o.kind = "enable" -> {SetDisabled(c, o.app, FALSE)}
    [] o.kind = "domain" -> {SetDomain(c, o.app, TRUE)}
    [] o.kind = "no domain" -> {SetDomain(c, o.app, FALSE)}
    [] o.kind = "users" -> SetUsers(c, o.app, o.users)
    [] o.kind = "add user" -> {AddUser(c, o.user)}
    [] o.kind = "remove user" -> RemoveUser(c, o.user)

-----------------------------------------------------------------------------
(* The commands                                                            *)

\* A new host, or one that was set up and serves an app.
Init ==
  /\ \/ /\ file = Cut /\ ports = [a \in Apps |-> 0]
        /\ caddy = [up |-> FALSE, routes |-> {}]
     \/ \E u \in Users, a \in Apps, q \in Ports :
          /\ file = [Defaults EXCEPT !.on = TRUE, !.primary = u, !.users = Users]
          /\ q = 1 /\ ports = [b \in Apps |-> IF b = a THEN q ELSE 0]
          /\ caddy = [up |-> TRUE, routes |-> Routes(file, ports)]
  /\ pc = [p \in Cmds |-> "off"] /\ op = [p \in Cmds |-> NoOp]
  /\ cfg = [p \in Cmds |-> Defaults] /\ mem = [p \in Cmds |-> [a \in Apps |-> 0]]
  /\ commands = 0 /\ faults = 0
  /\ alone = [p \in Cmds |-> TRUE] /\ settled = FALSE /\ raced = FALSE
  /\ granted = [a \in Apps |-> {}] /\ opened = {}

Active == {p \in Cmds : pc[p] # "off"}

\* The process ends; what it has loaded is forgotten.
Over(p) ==
  /\ pc' = [pc EXCEPT ![p] = "off"] /\ op' = [op EXCEPT ![p] = NoOp]
  /\ cfg' = [cfg EXCEPT ![p] = Defaults] /\ mem' = [mem EXCEPT ![p] = [a \in Apps |-> 0]]

Goto(p, l) == pc' = [pc EXCEPT ![p] = l] /\ UNCHANGED op

Begin(p, o) ==
  /\ pc[p] = "off" /\ commands < MaxCommands /\ commands' = commands + 1
  /\ pc' = [pc EXCEPT ![p] = IF OnConfig(o) THEN "load" ELSE "state"]
  /\ op' = [op EXCEPT ![p] = o]
  /\ alone' = [q \in Cmds |-> Active = {} /\ q = p] /\ raced' = (raced \/ Active # {})
  /\ UNCHANGED <<disk, caddy, cfg, mem, faults, settled, granted, opened>>

\* proxy.LoadConfig
LoadConfig(p) ==
  /\ pc[p] = "load" /\ file # Torn
  /\ cfg' = [cfg EXCEPT ![p] = Loaded]
  /\ Goto(p, IF OnConfig(op[p]) THEN "change" ELSE "post")
  /\ UNCHANGED <<disk, caddy, mem, commands, faults, history>>

\* The command fails, or warns once it has saved the server state.
LoadFails(p) ==
  /\ pc[p] = "load" /\ file = Torn
  /\ Over(p) /\ UNCHANGED <<disk, caddy, commands, faults, history>>

\* The change, and os.WriteFile's truncation of the file; setup can also be
\* refused by docker, or because ports 80 and 443 are taken.
Change(p) ==
  /\ pc[p] = "change"
  /\ \/ /\ \E c \in Changed(cfg[p], op[p]) : cfg' = [cfg EXCEPT ![p] = c]
        /\ file' = Cut /\ settled' = FALSE /\ Goto(p, "write") /\ UNCHANGED mem
     \/ /\ Changed(cfg[p], op[p]) = {} \/ op[p].kind = "setup"
        /\ Over(p) /\ UNCHANGED <<file, settled>>
  /\ UNCHANGED <<ports, caddy, commands, faults, alone, raced, granted, opened>>

\* The write itself, over the text of another command if one was written since
\* the truncation, and what has been asked for up to here.
WriteConfig(p) ==
  LET o == op[p] IN
  /\ pc[p] = "write"
  /\ file' \in {cfg[p]} \cup (IF file = Cut THEN {} ELSE {Torn}) /\ Goto(p, "ports")
  /\ granted' = CASE o.kind = "users" -> [granted EXCEPT ![o.app] = o.users]
                  [] o.kind = "remove user" -> [a \in Apps |-> granted[a] \ {o.user}]
                  [] OTHER -> granted
  /\ opened' = CASE o.kind = "public" -> opened \cup {o.app}
                 [] o.kind = "private" -> opened \ {o.app}
                 [] OTHER -> opened
  /\ UNCHANGED <<ports, caddy, cfg, mem, commands, faults, alone, settled, raced>>

\* server.LoadState
LoadPorts(p) ==
  /\ pc[p] = "ports"
  /\ mem' = [mem EXCEPT ![p] = ports] /\ Goto(p, "post")
  /\ UNCHANGED <<disk, caddy, cfg, commands, faults, history>>

\* A command on an app, up to server.SaveState: the app gets the first free
\* port or loses its own.  proxy.toml keeps what it says of the app.
SavePorts(p) ==
  LET a == op[p].app
      free == {q \in Ports : \A b \in Apps : ports[b] # q}
  IN
  /\ pc[p] = "state"
  /\ \/ /\ op[p].kind = "create" /\ ports[a] = 0
        /\ ports' = [ports EXCEPT ![a] = CHOOSE q \in free : \A r \in free : q <= r]
     \/ op[p].kind = "delete" /\ ports[a] # 0 /\ ports' = [ports EXCEPT ![a] = 0]
  /\ mem' = [mem EXCEPT ![p] = ports'] /\ Goto(p, "load") /\ settled' = FALSE
  /\ UNCHANGED <<file, caddy, cfg, commands, faults, alone, raced, granted, opened>>

\* An app that is there already, or not there, changes nothing.
SaveNothing(p) ==
  /\ pc[p] = "state" /\ (op[p].kind = "create" <=> ports[op[p].app] # 0)
  /\ Over(p) /\ UNCHANGED <<disk, caddy, commands, faults, history>>

\* ensureCaddyContainer: starts it when it does not run, replaces it when its
\* image is out of date; either way it comes up without routes.
Ensured == {[up |-> TRUE, routes |-> {}]} \cup (IF caddy.up THEN {caddy} ELSE {})

\* Mutant: what caddy answers is not looked at.
PostUnchecked(p) ==
  /\ pc[p] = "post" /\ cfg[p].on
  /\ \E c \in Ensured :
       caddy' = (IF Buildable(cfg[p]) /\ Accepted(cfg[p], mem[p])
                   THEN [c EXCEPT !.routes = Routes(cfg[p], mem[p])] ELSE c)
  /\ settled' = alone[p]
  /\ Over(p) /\ UNCHANGED <<disk, commands, faults, alone, raced, granted, opened>>

\* syncProxyWithState: posted and accepted.
Post(p) ==
  /\ pc[p] = "post" /\ cfg[p].on
  /\ Buildable(cfg[p]) /\ Accepted(cfg[p], mem[p])
  /\ \E c \in Ensured : caddy' = [c EXCEPT !.routes = Routes(cfg[p], mem[p])]
  /\ settled' = alone[p]
  /\ Over(p) /\ UNCHANGED <<disk, commands, faults, alone, raced, granted, opened>>

\* The container does not start (an old one is gone by then), caddy does not
\* answer or refuses: an error, a warning after a command on an app.  What was
\* saved stays.
PostFails(p) ==
  /\ pc[p] = "post" /\ cfg[p].on
  /\ caddy' \in Ensured \cup {caddy, [up |-> FALSE, routes |-> {}]}
  /\ Over(p) /\ UNCHANGED <<disk, commands, faults, history>>

\* Nothing to do as long as the proxy is not set up.
PostNothing(p) ==
  /\ pc[p] = "post" /\ ~cfg[p].on
  /\ settled' = alone[p]
  /\ Over(p) /\ UNCHANGED <<disk, caddy, commands, faults, alone, raced, granted, opened>>

Die(p) ==
  /\ pc[p] # "off" /\ faults < MaxFaults /\ faults' = faults + 1
  /\ Over(p) /\ UNCHANGED <<disk, caddy, commands, history>>

\* The container is restarted by docker, with the Caddyfile of its image.
CaddyRestarts ==
  /\ caddy.up /\ faults < MaxFaults /\ faults' = faults + 1
  /\ caddy' \in {[up |-> u, routes |-> {}] : u \in BOOLEAN} /\ settled' = FALSE
  /\ UNCHANGED <<disk, procs, commands, alone, raced, granted, opened>>

Next ==
  \/ CaddyRestarts
  \/ \E p \in Cmds :
       \/ \E o \in Ops : Begin(p, o)
       \/ LoadConfig(p) \/ LoadFails(p) \/ Change(p) \/ WriteConfig(p) \/ LoadPorts(p)
       \/ SavePorts(p) \/ SaveNothing(p)
       \/ Post(p) \/ PostFails(p) \/ PostNothing(p) \/ Die(p)

Spec == Init /\ [][Next]_vars

-----------------------------------------------------------------------------
(* Properties                                                              *)

\* Whatever is written to proxy.toml, the users an app is open to have logins.
ConfigOK(c) ==
  /\ c.on \in BOOLEAN /\ c.primary \in Users \cup {Nobody} /\ c.users \subseteq Users
  /\ c.apps \in [Apps -> [access : {"", "public", "private"}, disabled : BOOLEAN,
                          domain : BOOLEAN, allowed : SUBSET Users]]
  /\ \A a \in Apps : c.apps[a].allowed \subseteq c.users

\* Every variable has its type; an app's users are users of the proxy.
TypeOK ==
  /\ file \in {Cut, Torn} \/ ConfigOK(file)
  /\ ports \in [Apps -> Ports \cup {0}]
  /\ \A a, b \in Apps : ports[a] = ports[b] /\ ports[a] # 0 => a = b
  /\ caddy.up \in BOOLEAN
  /\ caddy.routes \subseteq [host : Apps \cup {Custom}, port : Ports, gated : BOOLEAN]
  /\ pc \in [Cmds -> {"off", "load", "change", "write", "ports", "state", "post"}]
  /\ op \in [Cmds -> Ops \cup {NoOp}]
  /\ \A p \in Cmds : ConfigOK(cfg[p]) /\ mem[p] \in [Apps -> Ports \cup {0}]
  /\ commands \in 0..MaxCommands /\ faults \in 0..MaxFaults
  /\ alone \in [Cmds -> BOOLEAN] /\ {settled, raced} \subseteq BOOLEAN
  /\ granted \in [Apps -> SUBSET Users] /\ opened \subseteq Apps

\* A command that ran alone and succeeded leaves caddy with the routes that
\* proxy.toml and the server state ask for, whatever commands that failed,
\* died or overlapped left there before it.
RoutesFollowFiles ==
  settled /\ Loaded.on => caddy.up /\ caddy.routes = Routes(file, ports)

\* As long as commands run one at a time, a user who reaches an app over the
\* routes of a settled caddy was let in to that app, and not taken out of it
\* since: the app was last made public, or the user is the primary one or was
\* given access.  Not so when two apps' entries claim the custom domain, of
\* which the login service takes either, and not so once a process died with
\* proxy.toml cut: the commands then succeed without a word to caddy, which
\* goes on serving what it has.
OneClaim == Cardinality(AppsForHost(Loaded, Custom)) <= 1
ReachedAsAsked ==
  settled /\ ~raced /\ Loaded.on /\ OneClaim =>
    \A r \in caddy.routes, a \in Apps, u \in Users :
      ports[a] = r.port /\ (r.gated => Admits(Loaded, u, r.host))
        => a \in opened \/ u = Loaded.primary \/ u \in granted[a]

\* Known not to hold (see README): "access requires login by default"
\* (src/README.md); an app that was just created
\* is not open to everyone.
NewAppNeedsLogin ==
  [][\A p \in Cmds : SavePorts(p) /\ op[p].kind = "create"
       => Access(Loaded, op[p].app) = "private"]_vars
=============================================================================
