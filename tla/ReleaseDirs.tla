----------------------------- MODULE ReleaseDirs -----------------------------
(* Versioned release directories on one host (lib/release.rhai): deploy builds
   in a directory of its own, switches the link "current", activates and checks;
   rollback switches to a directory that is there; prune removes old ones.
   Several runs use one root, under its lock.

   A step is an ssh command that works, fails, or works and is reported as
   failed; an interruption is a failure too.  The lock is taken and given back
   in one step: DeployLock has its commands.                                  *)
EXTENDS Naturals, FiniteSets

CONSTANTS
  Procs,
  Versions,
  Keeps,       \* values of cfg.keep, 0 where there is none
  Deactivate,  \* does cfg have a deactivate command?
  MaxOps,      \* bound: operations begun
  MaxFaults,   \* bound: failed steps and deaths
  None

ReleaseAssumption ==
  /\ None \notin Versions \cup Procs /\ Keeps \subseteq Nat \ {1}
  /\ Deactivate \in BOOLEAN /\ {MaxOps, MaxFaults} \subseteq Nat

VARIABLES
  releases,  \* the directories beneath root/releases
  newer,     \* ls -1t: pairs of them, the first newer than the second
  current,   \* what the link names, or None
  running,   \* the release the last activate or deactivate command left running
  healthy,   \* has it passed the health command since?
  holder,    \* of root/.nrg-release-lock
  step, op,  \* per run: its next step; [kind, version, keep, old]
  replaced,  \* history: what the active release replaced
  unsettled, \* history: an activation died, or its compensation failed
  ops, failures

disk  == <<releases, newer, current>>
app   == <<running, healthy>>
ghost == <<replaced, unsettled>>
vars  == <<disk, app, holder, step, op, ghost, ops, failures>>

Init ==
  /\ releases = {} /\ newer = {} /\ current = None /\ running = None /\ healthy = FALSE
  /\ holder = None /\ step = [r \in Procs |-> "idle"] /\ op = [r \in Procs |-> None]
  /\ replaced = None /\ unsettled = FALSE /\ ops = 0 /\ failures = 0

Fault     == failures < MaxFaults /\ failures' = failures + 1
Goto(r, s) == step' = [step EXCEPT ![r] = s]
v(r)   == op[r].version
old(r) == op[r].old

(* The step s of r: its effect, and where the script goes after it; on a failure
   it goes to the other place, and only the disk or the application may differ. *)
ssh_step(r, s, effect, nothing, next, otherwise) ==
  /\ step[r] = s
  /\ \/ effect /\ Goto(r, next) /\ UNCHANGED failures
     \/ (effect \/ nothing) /\ Goto(r, otherwise) /\ Fault
  /\ UNCHANGED <<holder, op, ops>>

Begin(r) ==
  /\ step[r] = "idle" /\ ops < MaxOps /\ ops' = ops + 1
  /\ \E k \in {"deploy", "rollback"}, w \in Versions, n \in Keeps :
       op' = [op EXCEPT ![r] = [kind |-> k, version |-> w, keep |-> n, old |-> None]]
  /\ Goto(r, "lock")
  /\ UNCHANGED <<disk, app, holder, ghost, failures>>

remote_lock_acquire(r) ==
  /\ step[r] = "lock"
  /\ \/ holder = None /\ holder' = r /\ Goto(r, "previous")
        /\ UNCHANGED op
     \/ holder # None /\ UNCHANGED holder /\ Goto(r, "idle") /\ op' = [op EXCEPT ![r] = None]
  /\ UNCHANGED <<disk, app, ghost, ops, failures>>

First(r) == IF op[r].kind = "deploy" THEN "mkdir" ELSE "verify"
previous(r) ==
  /\ step[r] = "previous"
  /\ \/ op' = [op EXCEPT ![r].old = current] /\ Goto(r, First(r)) /\ UNCHANGED failures
     \/ UNCHANGED op /\ Goto(r, "release") /\ Fault
  /\ UNCHANGED <<disk, app, holder, ghost, ops>>

\* mkdir without -p: a version is built once.
Exclusive(r) == v(r) \notin releases
mkdir(r) ==
  /\ ssh_step(r, "mkdir",
              /\ Exclusive(r) /\ releases' = releases \cup {v(r)}
              /\ newer' = newer \cup ({v(r)} \X releases),
              UNCHANGED <<releases, newer>>, "prepare", "release")
  /\ UNCHANGED <<current, app, ghost>>

Refused(r) ==     \* the version exists already, or there is none to go back to
  /\ \/ step[r] = "mkdir" /\ ~Exclusive(r)
     \/ step[r] = "verify" /\ Exclusive(r)
  /\ Goto(r, "release") /\ UNCHANGED <<disk, app, holder, op, ghost, ops, failures>>

\* prepare, build and migrate, in the new directory; or test -d.
Prepare(r) ==
  /\ step[r] = "prepare" \/ (step[r] = "verify" /\ ~Exclusive(r))
  /\ \/ Goto(r, "switch") /\ UNCHANGED failures
     \/ Goto(r, "release") /\ Fault
  /\ UNCHANGED <<disk, app, holder, op, ghost, ops>>

(* ------------------------------- activate() ------------------------------- *)
switch_link(r, s, w, next, otherwise) ==
  /\ ssh_step(r, s, current' = w, UNCHANGED current, next, otherwise)
  /\ UNCHANGED <<releases, newer, app>>
Started(r, s, w, next, otherwise) ==
  /\ ssh_step(r, s, running' = w /\ healthy' = FALSE, UNCHANGED app, next, otherwise)
  /\ UNCHANGED disk

activate(r) ==
  /\ \/ switch_link(r, "switch", v(r), "activate", "undo")
     \/ Started(r, "activate", v(r), "check", "undo")
  /\ UNCHANGED ghost

Check(r) ==
  /\ step[r] = "check"
  /\ \/ /\ healthy' = TRUE /\ UNCHANGED failures
        /\ Goto(r, IF op[r].kind = "deploy" /\ op[r].keep # 0 THEN "prune" ELSE "release")
        /\ replaced' = old(r) /\ unsettled' = FALSE
     \/ UNCHANGED <<healthy, ghost>> /\ Goto(r, "undo") /\ Fault
  /\ UNCHANGED <<disk, running, holder, op, ops>>

(* The compensation ends at its first step that fails; of a first release it
   removes the link, and the service with it where a command for that is given. *)
AfterLink(r) ==
  IF old(r) # None THEN "restart" ELSE IF Deactivate THEN "deactivate" ELSE "release"
Unsettles(r) == unsettled' = (unsettled \/ failures' # failures)
Undo(r) ==
  /\ \/ switch_link(r, "undo", old(r), AfterLink(r), "release")
     \/ Started(r, "restart", old(r), "recheck", "release")
     \/ Started(r, "deactivate", None, "settled", "release")
  /\ Unsettles(r) /\ UNCHANGED replaced

Recheck(r) ==
  /\ \/ step[r] = "recheck" /\ healthy' = TRUE /\ unsettled' = FALSE /\ UNCHANGED failures
     \/ step[r] = "recheck" /\ UNCHANGED healthy /\ unsettled' = TRUE /\ Fault
     \/ step[r] = "settled" /\ UNCHANGED <<healthy, failures>> /\ unsettled' = FALSE
  /\ Goto(r, "release") /\ UNCHANGED <<disk, running, holder, op, replaced, ops>>

(* --------------------------------- prune() -------------------------------- *)
OnlyActive(r) == {v(r)}                                                \* mutant
Protected(r) ==
  {v(r), old(r)}
\* ls -1t | grep -v | tail -n +(keep-1): all but the newest keep - 2 of the others
Others(r)  == releases \ Protected(r)
Pruned(r)  == {w \in Others(r) :
                 Cardinality({x \in Others(r) : <<x, w>> \in newer}) >= op[r].keep - 2}
rm_rf(s)   == releases' = releases \ s /\ newer' = {p \in newer : p[1] \notin s /\ p[2] \notin s}
prune(r) ==
  /\ step[r] = "prune" /\ Goto(r, "release")
  /\ \/ rm_rf(Pruned(r)) /\ UNCHANGED failures
     \/ \E s \in SUBSET Pruned(r) : rm_rf(s) /\ Fault
  /\ UNCHANGED <<current, app, holder, op, ghost, ops>>

remote_lock_release(r) ==
  /\ step[r] = "release" /\ holder' = None /\ Goto(r, "idle")
  /\ op' = [op EXCEPT ![r] = None] /\ UNCHANGED <<disk, app, ghost, ops, failures>>

(* The run dies and its lock stays, until somebody who looked releases it.   *)
Activating == {"switch", "activate", "check", "undo", "restart", "deactivate", "recheck", "settled"}
Die(r) ==
  /\ holder = r /\ step[r] # "dead" /\ Goto(r, "dead") /\ Fault
  /\ op' = [op EXCEPT ![r] = None]
  /\ unsettled' = (unsettled \/ step[r] \in Activating)
  /\ UNCHANGED <<disk, app, holder, replaced, ops>>
Recover(r) ==
  /\ step[r] = "dead" /\ Goto(r, "idle") /\ holder' = None
  /\ UNCHANGED <<disk, app, op, ghost, ops, failures>>

Next == \E r \in Procs :
  \/ Begin(r) \/ remote_lock_acquire(r) \/ previous(r) \/ mkdir(r) \/ Refused(r) \/ Prepare(r)
  \/ activate(r) \/ Check(r) \/ Undo(r) \/ Recheck(r) \/ prune(r) \/ remote_lock_release(r)
  \/ Die(r) \/ Recover(r)

Spec == Init /\ [][Next]_vars
-----------------------------------------------------------------------------
(* The link never dangles and the release to go back to is never pruned, even
   with newer failed candidates about (prune); and whenever nobody is at work,
   and no activation died or failed to compensate, the link names what runs,
   and that has passed its health check (activate).                           *)
ReleaseKept ==
  /\ {current, replaced} \subseteq releases \cup {None}
  /\ holder = None /\ ~unsettled =>
       \/ current = running /\ (current # None => healthy)
       \/ current = None /\ ~Deactivate
=============================================================================
