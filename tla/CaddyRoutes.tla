---------------------------- MODULE CaddyRoutes ----------------------------
(* The Caddy of one host (lib/caddy.rhai): its container, the routes of several
   services in its admin API, and the scripts that boot it, deploy, remove, secure
   and suspend services through it, each command with every answer it can have.

   Each service has one script at a time: see DeployLock.  A command that failed is
   over: see FleetLateSwitch.  Health checks of a route go with its target.   *)
EXTENDS Naturals, Sequences, SequencesExt, FiniteSets

CONSTANTS
  Services, Targets,
  Domains,       \* of a deploy and of proxy_set_tls
  MaxOps,        \* bound: calls begun
  None           \* no domain, no target, no route

Suspended == "suspended"       \* the handler that answers 503

CaddyAssumption ==
  /\ MaxOps \in Nat /\ None \notin Domains \cup Targets /\ Suspended \notin Targets
  /\ None \notin [match : Domains \cup {None}, to : Targets \cup {Suspended}]

VARIABLES
  caddy,         \* the container: "absent", "stopped", "running"
  saved,         \* the autosaved configuration: [routes, listen]
  stage, call,   \* where each script is, and in which call
  claims,        \* history: what each script may believe of its route
  secured,       \* history: has a proxy_boot succeeded?
  calls

place == <<stage, call>>
vars  == <<caddy, saved, place, claims, secured, calls>>

Init ==
  /\ caddy \in {"absent", "stopped", "running"}
  /\ saved \in [routes : {<<>>}, listen : {"https", "http"}]  \* "http": an older nrg's
  /\ stage = [s \in Services |-> "idle"] /\ call = [s \in Services |-> None]
  /\ claims = [s \in Services |-> {None}] /\ secured = FALSE /\ calls = 0

Call(what, to, domain) == [what |-> what, to |-> to, domain |-> domain]
Calls ==
  [what : {"deploy"}, to : Targets, domain : Domains \cup {None}]
  \cup [what : {"set_tls"}, to : {None}, domain : Domains]
  \cup [what : {"resume"}, to : Targets \cup {None}, domain : {None}]
  \cup {Call(what, None, None) : what \in {"boot", "stop", "remove"}}
  \cup {Call("suspend", Suspended, None)}

FirstStep(c) ==
  IF c.what = "boot" THEN "look" ELSE IF c.what = "stop" THEN "stop" ELSE "send"

\* Resuming throws at once where cfg has no target.
Begin(s) ==
  /\ stage[s] = "idle" /\ calls < MaxOps /\ calls' = calls + 1
  /\ \E c \in Calls :
       /\ ~(c.what = "resume" /\ c.to = None)
       /\ call' = [call EXCEPT ![s] = c] /\ stage' = [stage EXCEPT ![s] = FirstStep(c)]
  /\ UNCHANGED <<caddy, saved, claims, secured>>

(* What a call that did all it was asked makes of a route. *)
Made(c, route) ==
  IF c.what = "deploy" THEN [match |-> c.domain, to |-> c.to]
  ELSE IF c.what = "remove" \/ route = None THEN None
  ELSE CASE c.what = "set_tls" -> [route EXCEPT !.match = c.domain]
         [] c.what \in {"suspend", "resume"} -> [route EXCEPT !.to = c.to]
         [] OTHER -> route

GoTo(s, step) ==
  /\ stage' = [stage EXCEPT ![s] = step] /\ UNCHANGED <<call, claims, secured, calls>>

\* The script learns how its call ended: only its own claims change.
Report(s, ok) ==
  LET c     == call[s]
      needs == c.what \in {"set_tls", "suspend", "resume"}
      after == {Made(c, r) : r \in IF ok /\ needs THEN claims[s] \ {None} ELSE claims[s]}
  IN /\ claims' = [claims EXCEPT ![s] = IF ok THEN after ELSE @ \cup after]
     /\ secured' = (secured \/ (ok /\ c.what = "boot"))
     /\ stage' = [stage EXCEPT ![s] = "idle"] /\ call' = [call EXCEPT ![s] = None]
     /\ UNCHANGED calls

(* ------------------------------- the admin API ---------------------------- *)
RoutesOf(s) == {i \in DOMAIN saved.routes : saved.routes[i].id = s}

\* The body of the request, put in place of the node that /id/<service> names.
Rewritten(s) ==
  LET c    == call[s]
      i    == CHOOSE j \in RoutesOf(s) : TRUE
      old  == saved.routes[i]
      made == Made(c, [match |-> old.match, to |-> old.to])
  IN [saved EXCEPT !.routes =
        IF c.what = "remove" THEN RemoveAt(@, i)
        ELSE [@ EXCEPT ![i] = [id |-> s, match |-> made.match, to |-> made.to]]]
Appended(s) ==
  [saved EXCEPT !.routes = Append(@, [id |-> s, match |-> call[s].domain, to |-> call[s].to])]

\* The status of a request about a node, and whether the change was made: the
\* answer may be lost, and "000" is what curl prints then.
Answers(s) ==
  {[status |-> "000", changed |-> FALSE]}
  \cup IF caddy # "running" THEN {}
       ELSE IF RoutesOf(s) = {}
       THEN {[status |-> "404", changed |-> FALSE], [status |-> "5xx", changed |-> FALSE]}
       ELSE {[status |-> "2xx", changed |-> TRUE], [status |-> "000", changed |-> TRUE],
             [status |-> "5xx", changed |-> FALSE]}

NotThere(status) == status = "404"

\* PATCH or DELETE: the case on the status in each command.
Send(s) ==
  /\ stage[s] = "send"
  /\ \E a \in Answers(s) :
       /\ saved' = IF a.changed THEN Rewritten(s) ELSE saved
       /\ IF call[s].what = "deploy" /\ NotThere(a.status) THEN GoTo(s, "create")
          ELSE Report(s, a.status = "2xx" \/ (call[s].what = "remove" /\ a.status = "404"))
  /\ UNCHANGED caddy

\* POST of a new route, at the end of the array.
Create(s) ==
  /\ stage[s] = "create"
  /\ \/ saved' = saved /\ Report(s, FALSE)
     \/ caddy = "running" /\ saved' = Appended(s) /\ \E ok \in BOOLEAN : Report(s, ok)
  /\ UNCHANGED caddy

(* -------------------------------- proxy_boot ------------------------------ *)
\* Is it running?  If not, pull the image and provision the configuration file.
Look(s) ==
  /\ stage[s] = "look"
  /\ \/ caddy = "running" /\ GoTo(s, "enforce")
     \/ caddy # "running" /\ GoTo(s, "clear")
     \/ Report(s, FALSE)
  /\ UNCHANGED <<caddy, saved>>

\* rm -f, whatever runs under the name by now; a failure is ignored.
Clear(s) ==
  /\ stage[s] = "clear"
  /\ caddy' \in {caddy, "absent"}
  /\ GoTo(s, "run") \/ Report(s, FALSE)   \* no directory, no file
  /\ UNCHANGED saved

\* The routes of the last autosave.
Resumed == saved

\* docker run with --resume; a container of that name makes it fail.
RunCaddy(s) ==
  /\ stage[s] = "run"
  /\ \/ UNCHANGED <<caddy, saved>> /\ Report(s, FALSE)
     \/ /\ caddy = "absent" /\ caddy' = "running" /\ saved' = Resumed
        /\ GoTo(s, "enforce") \/ Report(s, FALSE)
     \/ caddy = "absent" /\ caddy' = "stopped" /\ saved' = saved /\ Report(s, FALSE)

\* Wait for the admin API, then PATCH the listener.
enforce_https_listener(s) ==
  /\ stage[s] = "enforce"
  /\ \/ saved' = saved /\ Report(s, FALSE)
     \/ /\ caddy = "running" /\ saved' = [saved EXCEPT !.listen = "https"]
        /\ \E ok \in BOOLEAN : Report(s, ok)
  /\ UNCHANGED caddy

\* stop and rm, whose failures are ignored.
proxy_stop(s) ==
  /\ stage[s] = "stop"
  /\ caddy' \in {caddy, IF caddy = "running" THEN "stopped" ELSE caddy, "absent"}
  /\ \E ok \in BOOLEAN : Report(s, ok)
  /\ UNCHANGED saved

\* The host or the container goes down, and comes back by itself.
Down ==
  /\ caddy = "running" /\ caddy' = "stopped"
  /\ UNCHANGED <<saved, place, claims, secured, calls>>
Restart ==
  /\ caddy = "stopped" /\ caddy' = "running" /\ saved' = Resumed
  /\ UNCHANGED <<place, claims, secured, calls>>

Next ==
  \/ Down \/ Restart
  \/ \E s \in Services :
       \/ Begin(s) \/ Send(s) \/ Create(s)
       \/ Look(s) \/ Clear(s) \/ RunCaddy(s) \/ enforce_https_listener(s) \/ proxy_stop(s)

Spec == Init /\ [][Next]_vars
-----------------------------------------------------------------------------
(* caddy.rhai: a service has one route at most, and it is what the script was
   told, through lost answers, restarts of the proxy and the calls of other
   services; suspending and resuming keep its domain.  After a boot that
   succeeded only HTTPS is listened to.                                       *)
RoutesAsReported ==
  /\ \A s \in Services :
       /\ Cardinality(RoutesOf(s)) <= 1
       /\ stage[s] = "idle" =>
            IF RoutesOf(s) = {} THEN None \in claims[s]
            ELSE \A i \in RoutesOf(s) :
                   [match |-> saved.routes[i].match, to |-> saved.routes[i].to] \in claims[s]
  /\ secured => saved.listen = "https"
=============================================================================
