----------------------------- MODULE HealthGate -----------------------------
(* The gates a script puts before a switch (lib/healthcheck.rhai): probe after
   probe until enough of them in a row are good, or none is left.  What is
   probed may come up, flap, go down, and be out of reach.                    *)
EXTENDS Integers, Sequences

CONSTANTS
  Limits,        \* values of cfg.attempts, cfg.consecutive and cfg.timeout
  Statuses       \* that an endpoint may answer with

Gates == {"wait_healthy", "wait_healthy_on_host", "wait_port", "wait_container_healthy"}
Ok    == 200     \* what a dry run assumes
Mute  == 0       \* no answer, no ssh, no number from curl
Amiss == -1      \* a probe of a port or container that did not run

GateAssumption == Limits \subseteq Int /\ Statuses \subseteq 100 .. 599

VARIABLES
  gate, cfg,     \* [attempts, consecutive, timeout, expected]
  is_dry_run,
  probed,        \* history: the probes so far
  streak, opened

given == <<gate, cfg, is_dry_run>>
vars  == <<given, probed, streak, opened>>

Counts == gate \in {"wait_healthy", "wait_healthy_on_host"}

Init ==
  /\ gate \in Gates /\ is_dry_run \in BOOLEAN
  /\ cfg \in [attempts : Limits, consecutive : Limits, timeout : Limits, expected : Statuses]
  /\ Counts \/ (cfg.consecutive = 1 /\ cfg.timeout = 1 /\ cfg.expected = Ok)
  /\ probed = <<>> /\ streak = 0 /\ opened = "waiting"

Refused == cfg.attempts < 1 \/ (Counts /\ (cfg.consecutive < 1 \/ cfg.timeout < 1))

Refuse ==
  /\ opened = "waiting" /\ probed = <<>> /\ Refused
  /\ opened' = "no" /\ UNCHANGED <<given, probed, streak>>

\* ssh_http_status, sim_http_healthy, sim_wait_port, sim_container_healthy
Probes ==
  IF ~is_dry_run THEN {Mute} \cup IF Counts THEN Statuses ELSE {Ok, Amiss}
  ELSE IF Counts THEN {Ok}
  ELSE IF probed = <<>> THEN {Ok, Mute} ELSE {probed[1]}   \* the overlay stands still

Counted(good) == streak + (IF good THEN 1 ELSE 0)                        \* mutant
Streak(good) ==
  IF good THEN streak + 1 ELSE 0

Probe ==
  /\ opened = "waiting" /\ ~Refused
  /\ \E p \in Probes :
       LET good == p = cfg.expected
       IN /\ probed' = Append(probed, p)
          /\ streak' = Streak(good)
          /\ opened' =
               IF p = Amiss THEN "no"
               ELSE IF good /\ streak' >= cfg.consecutive THEN "yes"
               ELSE IF Len(probed') = cfg.attempts THEN "no" ELSE "waiting"
  /\ UNCHANGED given

\* Ctrl-C, in a probe or in a sleep: on_progress ends the script, and the gate
\* returns to nobody.
Interrupt ==
  /\ opened = "waiting"
  /\ opened' = "cut" /\ UNCHANGED <<given, probed, streak>>

Next == Refuse \/ Probe \/ Interrupt

Spec == Init /\ [][Next]_vars
-----------------------------------------------------------------------------
(* healthcheck.rhai: a gate that opens has seen as many good probes in a row as
   it was asked for, just now and not before; one that does not has used up its
   attempts, and no more, without ever seeing them.                           *)
InARow(last) ==
  /\ cfg.consecutive \in 1 .. last
  /\ \A i \in last - cfg.consecutive + 1 .. last : probed[i] = cfg.expected
PassesInARow ==
  /\ \A i \in DOMAIN probed : InARow(i) <=> (opened = "yes" /\ i = Len(probed))
  /\ opened = "yes" => Len(probed) \in 1 .. cfg.attempts
  /\ opened = "no" =>
       \/ Len(probed) = cfg.attempts
       \/ IF probed = <<>> THEN cfg.attempts < 1 \/ cfg.consecutive < 1 \/ cfg.timeout < 1
          ELSE probed[Len(probed)] = Amiss
=============================================================================
