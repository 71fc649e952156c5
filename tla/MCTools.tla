------------------------------ MODULE MCTools ------------------------------
(* Small values for the constants of the parts of nrg that stand alone.  One run
   checks all of them, a behaviour one: no product of their states.          *)
EXTENDS LocalTools, HostTools
-----------------------------------------------------------------------------
(* ------------------------------ LocalTools ------------------------------ *)
\* A container a is in any state before the run, b absent or healthy, c absent.
SimWorlds ==
  {w \in [{"a", "b", "c"} -> {"absent", "stopped", "running", "healthy"}] :
     w["b"] \in {"absent", "healthy"} /\ w["c"] = "absent"}

\* Ports end at 8, candidates come in threes; a base of 3 has just one window.
PortBases == {-1, 1, 3, 9}
PortsBusy == {{}, {4, 6}, {4, 5, 7}, 0 .. 8}

\* One secret begins with another, and two overlap.
RedactSecrets == {<<"a", "b">>, <<"a", "b", "a">>, <<"b", "b">>}

\* A file of the destination, one that others may write among them, before the common one.
Entry(how, cmd, safe) == [holds |-> how, cmd |-> cmd, trusted |-> safe]
Nowhere == [p \in {"environment", "secrets.dest", "secrets", ".env"} |-> None]
SecretSources ==
  {[k \in {"pw"} |-> [Nowhere EXCEPT !["secrets.dest"] = first, !["secrets"] = second]] :
     first \in {None, Entry("value", FALSE, FALSE), Entry("ENC", TRUE, TRUE), Entry("fails", TRUE, TRUE)},
     second \in {Entry("value", TRUE, TRUE), Entry("short ENC", FALSE, TRUE), Entry("ENC", FALSE, TRUE)}}

SealArmors == {<<"begin", "newline", "x", "newline", "end">>}

\* A library of three modules; a project left out some, and changed deploy to
\* import one in its function, or one of its own.
Does        == [do |-> "effect", from |-> "lib", of |-> "host"]
Needs(n)    == [do |-> "import", from |-> "lib", of |-> n]
Calls(n)    == [do |-> "call", from |-> "lib", of |-> n]
Text(top, body) == [top |-> top, body |-> body]
LibNames == <<"docker", "proxy", "deploy">>
Library == [docker |-> Text(<<>>, <<Does>>),
            proxy  |-> Text(<<Needs("docker")>>, <<Does>>),
            deploy |-> Text(<<Needs("docker"), Needs("proxy")>>, <<Calls("docker"), Does>>)]
LibFiles ==
  [docker |-> {NoFile, Library.docker},
   own    |-> {NoFile, Text(<<>>, <<Does>>)},
   proxy  |-> {NoFile, Library.proxy, Text(<<Does, Needs("own")>>, <<Does>>)},
   deploy |-> {NoFile, Library.deploy, Text(<<>>, <<Does, Needs("proxy"), Calls("proxy")>>),
               Text(<<Needs("own")>>, <<Does>>)}]
StdDeploy(what) == [do |-> what, from |-> "std", of |-> "deploy"]
Scripts ==
  {Text(<<StdDeploy("import"), Needs("docker"), Does>>, <<StdDeploy("call"), Calls("docker")>>)}
-----------------------------------------------------------------------------
(* ------------------------------ HostTools ------------------------------- *)
\* Two chunks, and a malformed request at the end of each length.
Ask(how, own_type) == [shape |-> how, own_type |-> own_type]
Malformed == {"not a map", "no url", "no body", "header is not a string"}
HttpRequests ==
  {<<>>} \cup {<<Ask(s, t)>> : s \in {"ok"} \cup Malformed, t \in BOOLEAN}
  \cup {<<Ask("ok", FALSE), Ask("ok", TRUE), Ask(s, FALSE)>> : s \in {"ok"} \cup Malformed}
  \cup {<<Ask("ok", FALSE), Ask("ok", TRUE), Ask("ok", TRUE), Ask(s, FALSE)>> : s \in {"ok", "no body"}}

\* Two ports of one host, and another host.
Account(host, port) == [host |-> host, port |-> port, user |-> "deploy"]
SshAliases == [web |-> Account("h1", 22), admin |-> Account("h1", 2222), db |-> Account("h2", 22)]

\* A contract with all parts, one of faults only, and one for each rule of validate.
Scenario(n, bad, todo, checks) == [name |-> n, fault |-> bad, steps |-> todo, checks |-> checks]
Contract(setup, scenarios, cleanup) == [setup |-> setup, scenarios |-> scenarios, cleanup |-> cleanup]
Rehearsals ==
  {Contract(<<0>>, <<Scenario("a", FALSE, <<0>>, <<0>>), Scenario("b", TRUE, <<42, 0>>, <<0>>)>>, <<0, 0>>),
   Contract(<<>>, <<Scenario("b", TRUE, <<42>>, <<0>>)>>, <<0>>),
   Contract(<<>>, <<Scenario("a", FALSE, <<42>>, <<0>>)>>, <<0>>),
   Contract(<<>>, <<Scenario("a", FALSE, <<0>>, <<>>)>>, <<0>>),
   Contract(<<>>, <<Scenario("setup", FALSE, <<0>>, <<0>>)>>, <<0>>),
   Contract(<<>>, <<Scenario("a", TRUE, <<130>>, <<0>>)>>, <<0>>),
   Contract(<<>>, <<Scenario("a", FALSE, <<0>>, <<0>>)>>, <<>>)}

\* Hosts in every condition a report tells apart; services with and without hosts.
Host(reach, runtime, container, pulls) ==
  [reach |-> reach, runtime |-> runtime, container |-> container, pulls |-> pulls]
HostFleets ==
  [{"h1", "h2"} -> {Host(TRUE, "docker", "healthy", TRUE), Host(TRUE, "docker", "unhealthy", FALSE),
                    Host(TRUE, "none", "absent", FALSE), Host(TRUE, "podman", "plain", FALSE),
                    Host(FALSE, "docker", "healthy", TRUE)}]
  \cup {[h \in {"h1", "h2"} |-> Host(TRUE, "docker", c, TRUE)] : c \in {"stopped", "absent"}}
Recorded(hosts, has) == [hosts |-> hosts, image |-> has]
HostRecords ==
  {[app |-> Recorded({}, FALSE), api |-> Recorded({}, FALSE)],
   [app |-> Recorded({"h1", "h2"}, TRUE), api |-> Recorded({}, FALSE)],
   [app |-> Recorded({"h1", "h2"}, TRUE), api |-> Recorded({}, TRUE)],
   [app |-> Recorded({"h1"}, TRUE), api |-> Recorded({"h2"}, FALSE)]}

\* Four attempts of a gate: good, bad, and two good in a row.
GateLimits == 0 .. 4

\* Three apps: a batch of two after a canary, or of one after two canaries.
BunnyApps == <<"a", "b", "c">>
-----------------------------------------------------------------------------
Init == LocalInit /\ HostInit
Next == LocalNext /\ HostNext
vars == <<local_vars, host_vars>>
Spec == Init /\ [][Next]_vars
=============================================================================
