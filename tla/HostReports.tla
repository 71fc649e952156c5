---------------------------- MODULE HostReports ----------------------------
(* The commands that look at hosts over ssh and say what they found: `nrg status
   --check`, `doctor`, `logs` and `setup` (cli/status.rs, doctor.rs, logs.rs,
   setup.rs).  Hosts are probed in parallel; any connection can fail.         *)
EXTENDS FiniteSets

CONSTANTS
  Hosts, Services,
  Worlds,        \* what hosts are like: [Hosts -> [reach, runtime, container, pulls]]
  Records        \* what the state file holds: [Services -> [hosts, image]]

Tools == {"status", "doctor", "logs", "setup"}

ReportsAssumption ==
  /\ \A r \in Records, s \in Services : r[s].hosts \subseteq Hosts /\ r[s].image \in BOOLEAN
  /\ Worlds \subseteq
       [Hosts -> [reach : BOOLEAN, runtime : {"none", "docker", "podman"}, pulls : BOOLEAN,
                  container : {"absent", "stopped", "plain", "healthy", "unhealthy"}]]

VARIABLES
  tool, asked,      \* the command, and its --host arguments
  option,           \* `--legacy-tools` of doctor, `--yes` of setup
  rehearsing,       \* setup --dry-run
  store, record,    \* the state file: "ok", "absent" or "corrupt", and what it says
  amiss,            \* what is wrong here, before any host is asked
  fleet,            \* the hosts
  seen,             \* what the command makes of each
  installed,        \* hosts on which setup ran the installer
  booted,           \* setup went on to network and proxy
  exit              \* "none" while the command runs

setting == <<tool, asked, option, rehearsing, store, record, amiss>>
vars    == <<setting, fleet, seen, installed, booted, exit>>

Init ==
  /\ tool \in Tools /\ asked \in SUBSET Hosts
  /\ tool = "setup" => asked # {}
  /\ tool = "status" => asked = {}
  /\ option \in BOOLEAN /\ rehearsing \in BOOLEAN
  /\ tool \notin {"doctor", "setup"} => ~option
  /\ tool # "setup" => ~rehearsing
  /\ store \in {"ok", "absent", "corrupt"} /\ record \in Records
  /\ store # "ok" => \A s \in Services : record[s].hosts = {} /\ ~record[s].image
  /\ amiss \in {"nothing", "file", "tools", "checks"}
  /\ tool = "setup" => amiss \in {"nothing", "file"}
  /\ tool \in {"status", "logs"} => amiss = "nothing"
  /\ fleet \in Worlds
  /\ seen = [h \in Hosts |-> "unasked"] /\ installed = {} /\ booted = FALSE /\ exit = "none"

Running     == exit = "none"
recorded    == {s \in Services : record[s].hosts # {} \/ record[s].image}
hosts_for   == UNION {record[s].hosts : s \in Services}
\* An explicit --host wins; status asks the hosts of its services.
resolve_hosts == IF asked # {} THEN asked ELSE hosts_for
images(h)   == {s \in Services : record[s].image /\ h \in record[s].hosts}
Asked       == {h \in resolve_hosts : seen[h] = "unasked"}

NothingToStream == store # "ok" \/ resolve_hosts = {}

\* Without a project or with a file that does not parse, a command gives up;
\* doctor goes on with --host, and without a project has nothing to ask.
Refused ==
  CASE tool = "setup"  -> amiss = "file"
    [] tool = "doctor" -> store = "corrupt" /\ asked = {}
    [] tool = "logs"   -> NothingToStream
    [] OTHER           -> store # "ok"
Refuse == /\ Running /\ Refused /\ exit' = "failure"
          /\ UNCHANGED <<setting, fleet, seen, installed, booted>>

(* --------------------------------- probes --------------------------------- *)
Lost == <<255, "ssh">>

\* One `inspect` through ssh: exit code and output.
Inspected(w) ==
  IF ~w.reach THEN {Lost}
  ELSE {Lost, <<1, "daemon">>, <<0, "banner">>,
        IF w.runtime = "none" THEN <<127, "not found">>
        ELSE CASE w.container = "absent"     -> <<1, "no such object:">>
               [] w.container = "stopped"    -> <<0, "false|none">>
               [] w.container = "plain"      -> <<0, "true|none">>
               [] w.container = "healthy"    -> <<0, "true|healthy">>
               [] w.container = "unhealthy"  -> <<0, "true|unhealthy">>}

parse_probe_output(out) ==
  CASE out[1] = 255                   -> "unreachable"
    [] out = <<1, "no such object:">> -> "not deployed"
    [] out = <<0, "false|none">>      -> "stopped"
    [] out = <<0, "true|none">>       -> "running"
    [] out = <<0, "true|healthy">>    -> "running"
    [] out = <<0, "true|unhealthy">>  -> "unhealthy"
    [] OTHER                          -> "failed"

\* doctor asks for a runtime where one is needed, and for the images that were
\* deployed there, of docker only.
Runtime(w, pulls) ==
  CASE w.runtime = "none"              -> "no runtime"
    [] w.runtime = "docker" /\ ~pulls  -> "no image"
    [] OTHER                           -> w.runtime
setup_probe(w) == {Runtime(w, TRUE), "no runtime"}
\* The stream ends with the exit code of the remote `docker logs`.
stream_host(w) == {IF w.container = "absent" THEN "failed" ELSE "streamed", "failed"}
probe_host(h) ==
  LET w == fleet[h] IN
  IF ~w.reach THEN {"unreachable"}
  ELSE {"unreachable"} \cup
       CASE tool = "status" -> {parse_probe_output(out) : out \in Inspected(w)}
         [] tool = "logs"   -> stream_host(w)
         [] tool = "setup"  -> setup_probe(w)
         [] OTHER           -> IF option \/ images(h) # {}
                               THEN {Runtime(w, w.pulls \/ images(h) = {}), "no runtime"}
                                    \cup (IF images(h) = {} THEN {} ELSE {"no image"})
                               ELSE {"reached"}

\* In parallel, and joined: the order does not show.
Probe ==
  /\ Running /\ ~Refused /\ Asked # {}
  /\ LET h == CHOOSE h \in Asked : TRUE IN
       \E found \in probe_host(h) : seen' = [seen EXCEPT ![h] = found]
  /\ UNCHANGED <<setting, fleet, installed, booted, exit>>

(* -------------------------------- verdicts -------------------------------- *)
Fine == [status |-> {"running"}, logs |-> {"streamed"},
         doctor |-> {"reached", "docker", "podman"}]

AnyRecorded == \A h \in resolve_hosts : seen[h] \in Fine[tool]         \* mutant
ok ==
  /\ \A h \in resolve_hosts : seen[h] \in Fine[tool]
  /\ tool = "status" => recorded # {} /\ \A s \in recorded : record[s].hosts # {}
  /\ tool = "doctor" =>
       /\ amiss \in {"nothing"} \cup (IF option THEN {} ELSE {"tools"})
       /\ store # "corrupt"

Report ==
  /\ Running /\ ~Refused /\ Asked = {} /\ tool # "setup"
  /\ exit' = IF ok THEN "success" ELSE "failure"
  /\ UNCHANGED <<setting, fleet, seen, installed, booted>>

(* ---------------------------------- setup --------------------------------- *)
Ready   == Running /\ tool = "setup" /\ ~Refused /\ Asked = {}
Missing == {h \in asked : seen[h] = "no runtime"}
Unreachable == \E h \in asked : seen[h] = "unreachable"

GiveUp ==
  /\ Ready
  /\ \/ Unreachable /\ exit' = "failure"
     \/ ~Unreachable /\ Missing # {} /\ ~rehearsing /\ ~option /\ exit' = "success"
  /\ UNCHANGED <<setting, fleet, seen, installed, booted>>

\* Each of them is tried; one that fails ends the command after the last.
install_docker ==
  /\ Ready /\ ~Unreachable /\ option /\ ~rehearsing /\ Missing \ installed # {}
  /\ LET h == CHOOSE h \in Missing \ installed : TRUE IN
       /\ installed' = installed \cup {h}
       /\ \E works \in BOOLEAN :
            /\ fleet' = IF works THEN [fleet EXCEPT ![h].runtime = "docker"] ELSE fleet
            /\ seen' = IF works THEN seen ELSE [seen EXCEPT ![h] = "not installed"]
  /\ UNCHANGED <<setting, booted, exit>>

NotInstalled == \E h \in asked : seen[h] = "not installed"
run_setup ==
  /\ Ready /\ ~Unreachable
  /\ rehearsing \/ Missing \subseteq installed
  /\ IF NotInstalled THEN exit' = "failure" /\ UNCHANGED booted
     ELSE /\ booted' = TRUE /\ exit' \in {"success", "failure"}
  /\ UNCHANGED <<setting, fleet, seen, installed>>

Next == Refuse \/ Probe \/ Report \/ GiveUp \/ install_docker \/ run_setup

Spec == Init /\ [][Next]_vars
-----------------------------------------------------------------------------
(* status.rs, doctor.rs, logs.rs, setup.rs: success means that every host the
   command is about answered and was in order, that there was something to look
   at, and that no state file was passed over; setup boots only where each host
   has a runtime, installs one only with --yes, and changes nothing in a dry
   run or when it stops to ask.                                               *)
ReportsHonest ==
  LET good(h) ==
        /\ fleet[h].reach
        /\ tool = "status" => fleet[h].container \in {"plain", "healthy"}
        /\ tool = "doctor" /\ (option \/ images(h) # {}) =>
             /\ fleet[h].runtime # "none"
             /\ images(h) # {} /\ fleet[h].runtime = "docker" => fleet[h].pulls
  IN /\ exit = "success" /\ tool # "setup" =>
          /\ \A h \in resolve_hosts : good(h)
          /\ store # "corrupt"
          /\ tool = "status" => recorded # {} /\ \A s \in recorded : record[s].hosts # {}
          /\ tool = "logs" => resolve_hosts # {}
     /\ installed # {} => option /\ ~rehearsing
     /\ booted /\ ~rehearsing => \A h \in asked : good(h) /\ fleet[h].runtime # "none"
     /\ exit = "success" /\ tool = "setup" /\ ~booted => installed = {}
=============================================================================
