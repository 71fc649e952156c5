------------------------------ MODULE BunnyFleet ------------------------------
(* Apps of a Bunny account, without ssh and without a lock (lib/bunny.rhai):
   deploy_fleet (canaries one by one, then batches), deploy_app, rollback_app,
   with every answer the API can give, and a process that may die.

   Images are known by their tags.  One script uses the account at a time, and
   its targets are apart; a command that failed is over.                      *)
EXTENDS Integers, Sequences, FiniteSets

CONSTANTS
  Apps,          \* the targets, in the order of the array
  Images,
  Canaries, Batches, Failures,   \* cfg.canary_size, batch_size, max_failures
  MaxCalls,      \* bound: calls of a script
  None           \* no tag, no snapshot

BunnyAssumption ==
  /\ Apps # <<>> /\ Apps \in Seq({Apps[a] : a \in DOMAIN Apps})
  /\ MaxCalls \in Nat /\ None \notin Images
  /\ Canaries \subseteq Int /\ Batches \subseteq Int /\ Failures \subseteq Int

VARIABLES
  served,        \* the image of each app
  snapshot,      \* durable: bunny.<app>.<container>.prev and .prev_identity
  rollout,       \* the call under way
  went, earlier, \* how far each of its targets is; `previous` of each
  finish,         \* "open", "returned" or "thrown"
  before,        \* history: served and snapshot when the call began
  begun

Fixed == <<rollout, before, begun>>
vars  == <<served, snapshot, went, earlier, finish, Fixed>>

Init ==
  /\ served \in [DOMAIN Apps -> Images \cup {None}] /\ snapshot = [a \in DOMAIN Apps |-> None]
  /\ rollout = None /\ went = <<>> /\ earlier = <<>> /\ finish = "returned"
  /\ before = [served |-> served, snapshot |-> snapshot] /\ begun = 0

Rollout(what, targets, image, canary, batch, max) ==
  [what |-> what, targets |-> targets, image |-> image,
   canary |-> canary, batch |-> batch, max |-> max]

Calls ==
  {Rollout("deploy_fleet", DOMAIN Apps, i, c, b, f) :
     i \in Images, c \in Canaries, b \in Batches, f \in Failures}
  \cup {Rollout("deploy_app", {a}, i, 0, 1, 0) : a \in DOMAIN Apps, i \in Images}
  \cup {Rollout("rollback_app", {a}, snapshot[a], 0, 1, 0) : a \in DOMAIN Apps}

\* Numbers out of range, and nothing to roll back to.
Refused(r) == r.canary < 0 \/ r.batch < 1 \/ r.max < 0 \/ r.image = None

Begin ==
  /\ finish # "open" /\ begun < MaxCalls /\ begun' = begun + 1
  /\ \E r \in Calls :
       /\ rollout' = r /\ finish' = IF Refused(r) THEN "thrown" ELSE "open"
       /\ went' = [a \in r.targets |-> "waits"] /\ earlier' = [a \in r.targets |-> None]
  /\ before' = [served |-> served, snapshot |-> snapshot]
  /\ UNCHANGED <<served, snapshot>>

Open     == finish = "open"
Targets  == DOMAIN went
Settled  == {a \in Targets : went[a] \in {"succeeded", "failed"}}
Failed   == {a \in Targets : went[a] = "failed"}
Canary(a) == rollout.what = "deploy_fleet" /\ a <= rollout.canary

(* The targets in hand: a canary by itself, or the batch that begins at the
   first target after the last group that is over.                            *)
GroupOf(a) ==
  IF Canary(a) THEN {a}
  ELSE LET start == IF rollout.what # "deploy_fleet" THEN a
                    ELSE a - ((a - rollout.canary - 1) % rollout.batch)
       IN start .. start + rollout.batch - 1
InHand(a) ==
  /\ a \notin Settled
  /\ \A e \in Targets \ GroupOf(a) : e < a => e \in Settled
First(a, stage) == went[a] = stage /\ \A e \in Targets : e < a => went[e] # stage

\* The check after each group.
Abort(failed) ==
  Cardinality(failed) > rollout.max

Move(a, how) ==
  LET last   == \A e \in Targets \cap GroupOf(a) : e = a \/ e \in Settled
      over   == last /\ how \in {"succeeded", "failed"}
      failed == IF how = "failed" THEN Failed \cup {a} ELSE Failed
  IN /\ went' = [went EXCEPT ![a] = how]
     /\ finish' = IF over /\ Abort(failed) THEN "thrown"
                 ELSE IF over /\ Targets \ Settled = {a} THEN "returned" ELSE "open"
     /\ UNCHANGED Fixed

\* app_config, find_container: the reads of a group are in order.
find_container(a) ==
  /\ Open /\ InHand(a) /\ First(a, "waits")
  /\ \/ Move(a, "read") /\ earlier' = [earlier EXCEPT ![a] = served[a]]
     \/ Move(a, "failed") /\ UNCHANGED earlier
  /\ UNCHANGED <<served, snapshot>>

Always(a) == [snapshot EXCEPT ![a] = earlier[a]]                         \* mutant
Snapshot(a) ==
  IF earlier[a] \in {None, rollout.image} THEN snapshot
  ELSE [snapshot EXCEPT ![a] = earlier[a]]

\* http_patch_all: those of a group fly together; an answer may be lost.
Patch(a) ==
  /\ Open /\ InHand(a) /\ went[a] = "read"
  /\ \A e \in Targets \cap GroupOf(a) : went[e] # "waits"
  /\ \/ Move(a, "failed") /\ UNCHANGED served
     \/ /\ served' = [served EXCEPT ![a] = rollout.image]
        /\ \/ Move(a, "failed")
           \/ Move(a, IF rollout.what = "rollback_app" THEN "succeeded" ELSE "patched")
  /\ UNCHANGED <<snapshot, earlier>>

\* wait_for_image, verify_revision, wait_healthy, none of them in deploy_app;
\* only then the snapshot, whose failure ends all but a canary's rollout.
Verify(a) ==
  /\ Open /\ InHand(a) /\ First(a, "patched")
  /\ \A e \in Targets \cap GroupOf(a) : went[e] # "read"
  /\ \/ /\ served[a] = rollout.image
        /\ Move(a, "succeeded") /\ snapshot' = Snapshot(a)
     \/ /\ rollout.what = "deploy_fleet" /\ Move(a, "failed") /\ UNCHANGED snapshot
     \/ /\ ~Canary(a) /\ Snapshot(a) # snapshot
        /\ finish' = "thrown" /\ UNCHANGED <<went, snapshot, Fixed>>
  /\ UNCHANGED <<served, earlier>>

\* Ctrl-C, a crash.
Die == /\ Open /\ finish' = "thrown"
       /\ UNCHANGED <<served, snapshot, went, earlier, Fixed>>

Next == Begin \/ Die \/ \E a \in Targets : find_container(a) \/ Patch(a) \/ Verify(a)

Spec == Init /\ [][Next]_vars
-----------------------------------------------------------------------------
\* Failed in a group before that of a.
FailedBefore(a) == {e \in Failed : e < a /\ e \notin GroupOf(a)}

(* bunny.rhai deploy_fleet: no target is touched before its turn, and none after
   the canaries and batches before it had too many failures; a target reported as
   a success runs the image and goes back to the one it ran before, where it ran
   another; the target of a rollback is never lost to a rollout that failed there.
   A call that returns has reported every target.                             *)
RolloutAsReported ==
  /\ \A a \in Targets :
       LET was == before.served[a]   back == before.snapshot[a] IN
         /\ went[a] \in {"waits", "read"} => served[a] = was
         /\ served[a] \in {was, rollout.image}
         /\ went[a] # "waits" => Cardinality(FailedBefore(a)) <= rollout.max
         /\ IF went[a] # "succeeded" \/ rollout.what = "rollback_app" THEN snapshot[a] = back
            ELSE snapshot[a] = IF was \in {None, rollout.image} THEN back ELSE was
         /\ went[a] = "succeeded" => served[a] = rollout.image
  /\ \A a \in DOMAIN Apps \ Targets :
       served[a] = before.served[a] /\ snapshot[a] = before.snapshot[a]
  /\ finish = "returned" => Targets = Settled /\ (rollout # None => Cardinality(Failed) <= rollout.max)
=============================================================================
