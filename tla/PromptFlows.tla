----------------------------- MODULE PromptFlows -----------------------------
(***************************************************************************)
(* The prompts that take over the shell: `setup`, `wipe`, `proxy setup`    *)
(* and the password prompt of `users add` (prompt_flow.go).  A flow is a   *)
(* little machine: it shows one dialog at a time and ApplyResult moves it  *)
(* to the next one, or ends it cancelled, with a note, or with a plan that *)
(* the shell carries out after its program has stopped.                    *)
(*                                                                         *)
(* A confirm dialog is answered "yes" or "no", a form is submitted         *)
(* ("text": its validators have passed, so the token form has had WIPE     *)
(* typed into it), and either is left with esc or ctrl+c ("cancel").       *)
(***************************************************************************)
CONSTANTS Hosts,     \* the names a user gives to servers: aliases and logins
          Logins,    \* what names resolve to: a login with its user
          None

Names == Hosts \cup Logins

Forms == {"token", "host", "domain", "ip", "auth", "password"}
Confirms == {"rerun", "confirm", "update", "edit", "editDomain", "editIP", "editUser"}

\* What the dialog of a step can return; the server login is a name.
AnswersAt(step) ==
  {"cancel"} \cup (CASE step = "host" -> Hosts
                     [] step \in Forms \ {"host"} -> {"text"}
                     [] OTHER -> {"yes", "no"})

\* host: the server named in the dialogs.  wipe and to: the two halves of a
\* setup plan.  said: every answer given, for the properties.
Flow(kind, step, host) ==
  [kind |-> kind, step |-> step, host |-> host, end |-> "open",
   wipe |-> None, to |-> None, edit |-> FALSE, said |-> {}]

\* A shell that has a server asks before it sets up another one.  The server
\* goes by the name the shell has for it, which nobody has resolved; wipe and
\* proxy are given a login.
SetupFlow(host, connected) ==
  Flow("setup", IF connected THEN "rerun" ELSE "host", host)

WipeFlow(host) == Flow("wipe", "confirm", host)

PasswordFlow(host) == Flow("password", "password", host)

\* The shell always forces the setup, so a proxy that is configured is edited
\* and any other is set up from its domain on.
ProxyFlow(host, configured) ==
  Flow("proxy", IF configured THEN "edit" ELSE "domain", host)

At(f, step) == {[f EXCEPT !.step = step]}
Ends(f, how) == {[f EXCEPT !.end = how]}

\* Mutant: a yes is enough to put the wipe into the plan.
SetupApplyEarly(f, a) ==
  CASE f.step = "rerun"   -> IF a = "yes" THEN At(f, "confirm") ELSE Ends(f, "note")
    [] f.step = "confirm" -> At([f EXCEPT !.wipe = IF a = "yes" THEN f.host ELSE None], "host")
    [] f.step = "host"    -> Ends([f EXCEPT !.to = a], "plan")

\* setupFlow.ApplyResult.  Whether the update question follows the login
\* depends on the server that answers there (setupUpdatePrompt).
SetupApply(f, a) ==
  CASE f.step = "rerun"   -> IF a = "yes" THEN At(f, "confirm") ELSE Ends(f, "note")
    [] f.step = "confirm" -> At(f, IF a = "yes" THEN "token" ELSE "host")
    [] f.step = "token"   -> At([f EXCEPT !.wipe = f.host], "host")
    [] f.step = "host"    -> LET g == [f EXCEPT !.to = a]
                             IN  At(g, "update") \cup Ends(g, "plan")
    [] f.step = "update"  -> Ends(f, "plan")

\* wipeFlow.ApplyResult
WipeApply(f, a) ==
  CASE f.step = "confirm" -> IF a = "yes" THEN At(f, "token") ELSE Ends(f, "note")
    [] f.step = "token"   -> Ends([f EXCEPT !.wipe = f.host], "plan")

\* proxySetupFlow.ApplyResult.  Editing declined still ends in a plan: the
\* proxy is brought up to date.  The domain of a first setup is followed by
\* the login of the primary user, the domain of an edit by the public IP.
ProxyApply(f, a) ==
  CASE f.step = "edit"       -> IF a = "yes" THEN At([f EXCEPT !.edit = TRUE], "editDomain")
                                             ELSE Ends(f, "plan")
    [] f.step = "editDomain" -> At(f, IF a = "yes" THEN "domain" ELSE "editIP")
    [] f.step = "domain"     -> At(f, IF f.edit THEN "editIP" ELSE "auth")
    [] f.step = "editIP"     -> At(f, IF a = "yes" THEN "ip" ELSE "editUser")
    [] f.step = "ip"         -> At(f, "editUser")
    [] f.step = "editUser"   -> IF a = "yes" THEN At(f, "auth") ELSE Ends(f, "plan")
    [] f.step = "auth"       -> Ends(f, "plan")

\* passwordFlow.ApplyResult
PasswordApply(f, a) == Ends(f, "plan")

\* The part the four have in common: leaving any dialog cancels the flow,
\* whatever its plan holds by then.
ApplyResult(f, a) ==
  LET g == [f EXCEPT !.said = @ \cup {<<f.step, a>>}]
  IN  IF a = "cancel" THEN Ends(g, "cancelled")
      ELSE CASE f.kind = "setup"    -> SetupApply(g, a)
             [] f.kind = "wipe"     -> WipeApply(g, a)
             [] f.kind = "proxy"    -> ProxyApply(g, a)
             [] f.kind = "password" -> PasswordApply(g, a)

\* applyPromptFlowResult: what the shell does next, if anything.  A setup
\* keeps the whole plan, every other flow becomes a shell action.
ResultOf(f) == IF f.end = "plan" THEN f ELSE None

FlowType ==
  [kind : {"setup", "wipe", "proxy", "password"},
   step : Forms \cup Confirms,
   host : Names \cup {None}, end : {"open", "plan"},
   wipe : Names \cup {None}, to : Hosts \cup {None}, edit : BOOLEAN,
   said : SUBSET ((Forms \cup Confirms) \X (Hosts \cup {"text", "yes", "no"}))]
==============================================================================
