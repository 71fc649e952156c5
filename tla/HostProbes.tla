----------------------------- MODULE HostProbes -----------------------------
(* The read-only probes of a host (engine/builtins/sim.rs): what ssh brings
   back, and what the code makes of it.

   exit is what ssh returns: the code of the remote command, 255 when ssh itself
   failed, 128 + n after a signal, -1 when nothing ran.  says is what the
   lower-cased stderr contains.  A shell names a missing program "not found", a
   failed spawn "no such file"; ssh may complain of a missing identity file.   *)
EXTENDS Integers

CONSTANT Wordings    \* what the stderr of an ssh that failed may say

Failures == {[exit |-> -1, says |-> "no such"], [exit |-> 127, says |-> "not found"],
             [exit |-> 137, says |-> "nothing"]}
            \cup {[exit |-> 255, says |-> w] : w \in Wordings}
Ok       == [exit |-> 0, says |-> "nothing"]
Gone     == [exit |-> 1, says |-> "no such"]
Unknown  == [exit |-> 125, says |-> "image not known"]      \* podman
Closed   == [exit |-> 1, says |-> "nothing"]                \* nc

\* "error" throws in a live run, and is noted in the plan of a dry run
probe_absent_or_err(out) ==
  IF out.exit >= 0 /\ out.exit # 127 /\ out.says = "no such" THEN "absent" ELSE "error"

Answered(out, yes) ==
  IF out.exit = 0 THEN (IF yes THEN "yes" ELSE "no")
  ELSE IF probe_absent_or_err(out) = "absent" THEN "no" ELSE "error"
real_image_id(out) ==
  IF out.exit = 0 THEN "yes"
  ELSE IF out.says = "image not known" THEN "no"
  ELSE IF probe_absent_or_err(out) = "absent" THEN "no" ELSE "error"
real_port_open(out) ==
  IF out.exit < 0 \/ out.exit \in {127, 255} \/ out.exit >= 129 THEN "error"
  ELSE IF out.exit = 0 THEN "yes" ELSE "no"

\* What a probe may tell: the verdict, and whether it ran at all.
Told(verdict(_), outs) ==
  {[verdict |-> verdict(o), ran |-> TRUE] : o \in outs}
  \cup {[verdict |-> verdict(o), ran |-> FALSE] : o \in Failures}
=============================================================================
