------------------------------ MODULE PortPicks ------------------------------
(* sim_pick_port and sim_wait_port of one host (builtins/sim.rs, engine/sim.rs),
   in a dry run and in a live run of the same script: ports are picked for
   several base ports, published by a container, and waited for.             *)
EXTENDS HostProbes, Sequences, FiniteSets

CONSTANTS
  Bases,         \* base ports a script asks for, out of range ones included
  Offset, Span,  \* 10000 and 100 in the code
  MaxPort,       \* u16::MAX
  Busy,          \* sets of ports that may be in use before the run
  MaxPicks       \* bound: picks of the script

PortsAssumption ==
  /\ {Offset, Span, MaxPort, MaxPicks} \subseteq Nat /\ Span > 0 /\ Offset > 0
  /\ Bases \subseteq Int /\ Busy \subseteq SUBSET (0 .. MaxPort)

VARIABLES
  port_picks, occupied,  \* SimState: picks so far, ports the dry run gave away
  listening,             \* ports that answer in the live run
  picked,                \* history: what each pick asked and was granted; 0: refused
  waited                 \* to the last wait: [dry, live, ran, published]

vars == <<port_picks, occupied, listening, picked, waited>>

Init ==
  /\ port_picks = 0 /\ occupied = {} /\ listening \in Busy
  /\ picked = <<>> /\ waited = <<>>

as_port(b) == IF b < 0 THEN 0 ELSE IF b > MaxPort THEN MaxPort ELSE b

DryPort(b) ==
  LET p == as_port(b) + Offset + port_picks IN IF p > MaxPort THEN 0 ELSE p

Candidates(b) ==
  LET start == as_port(b) + Offset
  IN IF start + Span - 1 > MaxPort THEN {} ELSE start .. start + Span - 1

\* The scan ends at the first candidate that does not answer, or at a probe
\* that fails: nothing is granted then.
LivePort(b) ==
  LET free == Candidates(b) \ listening
  IN IF free = {} THEN 0 ELSE CHOOSE p \in free : \A q \in free : p <= q

sim_pick_port(b) ==
  /\ Len(picked) < MaxPicks /\ waited' = <<>> /\ UNCHANGED listening
  /\ LET p == DryPort(b) IN
       /\ port_picks' = IF p = 0 THEN port_picks ELSE port_picks + 1
       /\ occupied'   = IF p = 0 THEN occupied ELSE occupied \cup {p}
       /\ \E found \in {LivePort(b), 0} :
            picked' = Append(picked, [base |-> b, dry |-> p, live |-> found, published |-> FALSE])

\* A container starts that publishes the port of a pick.
sim_docker_run(i) ==
  /\ picked[i].live \notin listening \cup {0} /\ picked[i].dry # 0
  /\ listening' = listening \cup {picked[i].live}
  /\ picked' = [picked EXCEPT ![i].published = TRUE]
  /\ waited' = <<>> /\ UNCHANGED <<port_picks, occupied>>

sim_wait_port(i) ==
  /\ picked[i].live # 0 /\ picked[i].dry # 0
  /\ \E told \in Told(real_port_open, IF picked[i].live \in listening THEN {Ok} ELSE {Closed}) :
       waited' = [dry |-> IF picked[i].dry \in occupied THEN "yes" ELSE "no",
                  live |-> told.verdict, ran |-> told.ran, published |-> picked[i].published]
  /\ UNCHANGED <<port_picks, occupied, listening, picked>>

Next == \/ \E b \in Bases : sim_pick_port(b)
        \/ \E i \in DOMAIN picked : sim_docker_run(i) \/ sim_wait_port(i)

Spec == Init /\ [][Next]_vars
-----------------------------------------------------------------------------
(* Near the top of the port range no run hands out a port that does not exist,
   the plan names no port twice for one base, and it grants what a live run
   grants; the port of a container that was started answers in both (sim.rs
   pick_port; builtins/sim.rs sim_pick_port).                                 *)
PicksAreSound ==
  /\ \A i \in DOMAIN picked :
       /\ {picked[i].dry, picked[i].live} \subseteq 0 .. MaxPort
       /\ i <= Span => (picked[i].live # 0 => picked[i].dry # 0)
       /\ \A j \in 1 .. i - 1 :
            picked[j].base = picked[i].base /\ picked[i].dry # 0 => picked[j].dry # picked[i].dry
  /\ waited # <<>> /\ waited.ran /\ waited.published => waited.dry = waited.live
=============================================================================
