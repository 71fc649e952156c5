----------------------------- MODULE SimOverlay -----------------------------
(* What a dry run believes of the containers of a host (engine/sim.rs,
   builtins/sim.rs), next to what the same script would find in a live run whose
   commands succeed.

   A script is any sequence of container commands and reads.  Every command is
   applied to sim, as the dry run does, and to live, as docker would do; every
   read is answered by both, and the probe behind an answer may fail in either.

   Hosts share nothing in the overlay, so one is enough.  A tag never equals a
   container name: the overlay keeps both under one kind of key.             *)
EXTENDS HostProbes, FiniteSets

CONSTANTS
  Names, Tags,
  Worlds,        \* the containers a host may have before the run
  MaxSteps,      \* bound: operations of the script
  None

States  == {"absent", "stopped", "running", "healthy"}  \* "running": not healthy
Runs(s) == s \in {"running", "healthy"}

OverlayAssumption == Names \cap Tags = {} /\ Worlds \subseteq [Names -> States]

VARIABLES
  real,      \* the containers before the run: all that a dry run can probe
  images,    \* the tags present on the host
  live,      \* the containers as the live run would have made them
  sim,       \* SimState.containers: "absent" where there is no entry
  seeded,    \* SimState.seeded
  ids,       \* the tags of which the overlay has stored an image id
  mine,      \* history: names whose state this run has determined
  doubt,     \* history: names the overlay has forgotten, or only assumed
  answer,    \* to the last read: [of, dry, live, ran, sure]
  steps

world      == <<real, images>>
containers == <<live, sim, mine>>
vars       == <<world, containers, seeded, ids, doubt, answer, steps>>

Init ==
  /\ real \in Worlds /\ images \in SUBSET Tags
  /\ live = real /\ sim = [n \in Names |-> "absent"] /\ seeded = {} /\ ids = {}
  /\ mine = {} /\ doubt = {} /\ answer = None /\ steps = 0

(* ------------------------------- commands -------------------------------- *)
Tick    == steps < MaxSteps /\ steps' = steps + 1
Command == Tick /\ answer' = None /\ UNCHANGED <<world, ids>>

Becomes(n, s) == live' = [live EXCEPT ![n] = s]
\* After a command on n, overlay and host agree on n.
Own(n)        == mine' = mine \cup {n} /\ doubt' = doubt \ {n}

set_running(n) == sim' = [sim EXCEPT ![n] = "healthy"] /\ seeded' = seeded \cup {n}
sim_docker_run(n) ==
  /\ live[n] = "absent"
  /\ Command /\ Becomes(n, "healthy") /\ set_running(n) /\ Own(n)

StopSeen(n) ==                                              \* mutant
  /\ sim' = [sim EXCEPT ![n] = IF n \in seeded THEN "stopped" ELSE @]
  /\ seeded' = seeded
set_stopped(n) ==
  /\ sim' = [sim EXCEPT ![n] = "stopped"]
  /\ seeded' = seeded \cup {n}
sim_docker_stop(n) ==
  /\ live[n] # "absent"
  /\ Command /\ Becomes(n, "stopped") /\ set_stopped(n) /\ Own(n)

set_restarted(n) == sim' = [sim EXCEPT ![n] = "healthy"] /\ seeded' = seeded \cup {n}
sim_docker_restart(n) ==
  /\ live[n] # "absent"
  /\ Command /\ Becomes(n, "healthy") /\ set_restarted(n) /\ Own(n)

forget(n) == sim' = [sim EXCEPT ![n] = "absent"] /\ seeded' = seeded \cup {n}
sim_docker_remove(n) == Command /\ Becomes(n, "absent") /\ forget(n) /\ Own(n)

(* The seeded marker moves with the container: nothing then says that the old
   name is gone, and a container never read before arrives without an entry.  *)
rename(o, n) ==
  /\ sim' = [sim EXCEPT ![n] = IF sim[o] = "absent" THEN @ ELSE sim[o], ![o] = "absent"]
  /\ seeded' = (seeded \ {o}) \cup {n}
sim_docker_rename(o, n) ==
  /\ o # n /\ live[o] # "absent" /\ live[n] = "absent"
  /\ Command /\ rename(o, n)
  /\ live'  = [live EXCEPT ![n] = live[o], ![o] = "absent"]
  /\ mine'  = (mine \ {o, n}) \cup (IF o \in mine THEN {n} ELSE {})
  /\ doubt' = (doubt \ {n}) \cup {o} \cup IF sim[o] = "absent" \/ o \in doubt THEN {n} ELSE {}

(* --------------------------------- reads --------------------------------- *)
Inspect(s, yes) ==
  Told(LAMBDA o : Answered(o, yes), {IF s = "absent" THEN Gone ELSE Ok})
ImageInspect(t) ==
  Told(real_image_id, IF t \in images THEN {Ok} ELSE {Gone, Unknown})

Answer(of, dry, found, sure) ==
  answer' = [of |-> of, dry |-> IF dry THEN "yes" ELSE "no",
             live |-> found.verdict, ran |-> found.ran, sure |-> sure]

\* seed_or_note: what could not be probed is assumed absent, with a note
seed_running(n, told) ==
  /\ sim' = [sim EXCEPT ![n] = IF told.verdict = "yes" THEN "healthy" ELSE "stopped"]
  /\ seeded' = seeded \cup {n}
  /\ doubt'  = IF told.ran THEN doubt ELSE doubt \cup {n}

sim_container_running(n) ==
  /\ Tick /\ UNCHANGED <<world, live, mine, ids>>
  /\ \/ n \in seeded /\ UNCHANGED <<sim, seeded, doubt>>
     \/ n \notin seeded /\ \E told \in Inspect(real[n], Runs(real[n])) : seed_running(n, told)
  /\ \E found \in Inspect(live[n], Runs(live[n])) :
       Answer("running", Runs(sim'[n]), found, n \notin doubt')

sim_container_healthy(n) ==
  /\ Tick /\ UNCHANGED <<world, containers, seeded, ids, doubt>>
  /\ \E found \in Inspect(live[n], live[n] = "healthy") :
       Answer("healthy", sim[n] = "healthy", found, n \in mine)

seed_image(t, told) ==
  /\ seeded' = seeded \cup {t}
  /\ ids'    = IF told.verdict = "yes" THEN ids \cup {t} ELSE ids
  /\ doubt'  = IF told.ran THEN doubt ELSE doubt \cup {t}

sim_image_id(t) ==
  /\ Tick /\ UNCHANGED <<world, containers>>
  /\ \/ t \in seeded /\ UNCHANGED <<seeded, ids, doubt>>
     \/ t \notin seeded /\ \E told \in ImageInspect(t) : seed_image(t, told)
  /\ \E found \in ImageInspect(t) : Answer("image", t \in ids', found, t \notin doubt')

Next ==
  \/ \E n \in Names :
       \/ sim_docker_run(n) \/ sim_docker_stop(n) \/ sim_docker_restart(n)
       \/ sim_docker_remove(n) \/ \E o \in Names : sim_docker_rename(o, n)
       \/ sim_container_running(n) \/ sim_container_healthy(n)
  \/ \E t \in Tags : sim_image_id(t)

Spec == Init /\ [][Next]_vars
-----------------------------------------------------------------------------
(* builtins/sim.rs, probe_absent_or_err: a probe that failed to run "must
   surface as an error, never be mistaken for 'not running'".                *)
FailedProbeNeverAbsent == answer # None => (answer.ran \/ answer.live = "error")

(* The plan says what a live run finds.  Through any order of commands, renames
   and reads, the dry run's answer is that of the host, except on a name that
   was renamed away and not touched since, on one whose probe failed (the plan
   carries a note), and on the health of a container the run did not start.   *)
PlanAgrees ==
  answer # None /\ answer.ran /\ answer.sure => answer.dry = answer.live
=============================================================================
