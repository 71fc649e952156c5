-------------------------- MODULE FleetLateSwitch --------------------------
(***************************************************************************)
(* FleetDeploy without its assumption that a command which has failed is   *)
(* over: the runner kills the local ssh at the deadline and reports        *)
(* "remote outcome is unknown" (runner.rs), so a proxy switch that was     *)
(* given up may still land on the host after the unwind restored the old   *)
(* target.                                                                 *)
(***************************************************************************)
EXTENDS FleetDeploy

VARIABLE late      \* switches given up whose command still runs on its host

lateVars == <<vars, late>>

LateInit == Init /\ late = {}

\* px_deploy reports a failure while the command goes on.
GiveUpSwitch ==
  /\ pc = "switch" /\ SwitchFailed
  /\ switched' = [switched EXCEPT ![cur] = TRUE]
  /\ late' = late \cup {[host |-> cur, port |-> newPort[cur]]}
  /\ UNCHANGED <<remote, durable, gated, n, fleet, cur, comps, captured, restored, history>>

Land(s) ==
  /\ RouteTo(s.host, s.port)
  /\ late' = late \ {s}
  /\ UNCHANGED <<box, durable, gated, n, pc, fleet, todo, cur, comps, captured, flags, history>>

LateNext == \/ Next /\ UNCHANGED late
            \/ GiveUpSwitch
            \/ \E s \in late : Land(s)

LateSpec == LateInit /\ [][LateNext]_lateVars
=============================================================================
